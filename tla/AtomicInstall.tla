---------------------------- MODULE AtomicInstall ----------------------------
(***************************************************************************)
(* What installing the development tools promises: the tool root, the      *)
(* wrappers in /opt/bin and the layer's marker are replaced together, by   *)
(* those of one bundle, or stay as they are.  The promise ends with        *)
(* broken.                                                                 *)
(***************************************************************************)

CONSTANTS
  Installers,      \* a bundle is named after the installer that brings it
  Links,           \* tools that a bundle may or may not have
  Provides,        \* Provides[p]: the links of p's bundle
  Old, Foreign, Absent

VARIABLES
  env,             \* the root, wrappers and marker that are in force
  broken

Fixed == {"a1625-tool", "git"}

Names == Fixed \cup Links

\* The wrappers that p's bundle makes of w: its own, without links to tools
\* that it lacks; what is not a link of this layer stays.
Wrapped(w, p) ==
  [n \in Names |->
     IF n \in Fixed THEN p
     ELSE IF n \in Provides[p] THEN "link"
     ELSE IF w[n] = "link" THEN Absent ELSE w[n]]

\* A device without the tools, or with those of an earlier bundle.
Fresh ==
  [root : {<<>>}, mark : {Absent},
   wrap : {w \in [Names -> {Absent, Foreign}] : w["a1625-tool"] = Absent}]
  \cup
  [root : {<<Old>>}, mark : {Old},
   wrap : {w \in [Names -> {Absent, Foreign, "link", Old}] :
             \A n \in Names : (n \in Fixed) = (w[n] = Old)}]

Init == env \in Fresh /\ broken = FALSE

Replace(p) ==
  /\ ~broken
  /\ env' = [root |-> <<p>>, wrap |-> Wrapped(env.wrap, p), mark |-> p]
  /\ UNCHANGED broken

Break == broken' = TRUE

Next == Break \/ \E p \in Installers : Replace(p)

Spec == Init /\ [][Next]_<<env, broken>>
=============================================================================
