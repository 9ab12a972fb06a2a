---------------------------- MODULE AtomicReplace ----------------------------
(***************************************************************************)
(* What restoring RAM state promises: the pair of /run/work and            *)
(* /run/codex-home is replaced as a whole, by both trees of one archive,   *)
(* or not at all.  The promise ends with broken.                           *)
(***************************************************************************)
EXTENDS RamTrees

VARIABLES
  env,      \* the pair of trees a user of the device works in
  broken

Init == env \in [work : FreshWork, home : FreshHome] /\ broken = FALSE

Replace(g) ==
  /\ ~broken
  /\ env' = [work |-> WorkOf(g), home |-> HomeOf(env.home, g)]
  /\ UNCHANGED broken

Break == broken' = TRUE

Next == Break \/ \E g \in Gens : Replace(g)

Spec == Init /\ [][Next]_<<env, broken>>
=============================================================================
