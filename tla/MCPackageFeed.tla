--------------------------- MODULE MCPackageFeed ---------------------------
(***************************************************************************)
(* Two builders and three taskhashes.  t1 is not reproducible: what it      *)
(* makes is what t2 makes, or something of its own.  t3 has nothing to do   *)
(* with either.                                                             *)
(***************************************************************************)
EXTENDS PackageFeed, TLC

CONSTANTS b1, b2, t1, t2, t3, o1, o2, o3

Makes == (t1 :> {o1, o2}) @@ (t2 :> {o1}) @@ (t3 :> {o3})

\* What is built as t1 may become t2.
Migrations == {<<t2, t1>>}

\* t1 is built twice by one builder, before, between and after the build of
\* the other.
Menu  == (b1 :> {t1}) @@ (b2 :> {t2, t3})
Times == (b1 :> 2) @@ (b2 :> 1)
=============================================================================
