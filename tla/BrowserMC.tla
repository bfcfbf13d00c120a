----------------------------- MODULE BrowserMC -----------------------------
(* The three parts of the browser tools, checked in one run: the initial  *)
(* state chooses which of them the behaviour is about, and the others     *)
(* stand still.                                                           *)
EXTENDS TabTargets, PageCalls, DeepSession, TLC

VARIABLE part

browserVars == <<part, tabVars, callVars, deepVars>>

(* Elements that recovery cannot tell apart. *)
Twins == [e \in Element |-> CHOOSE l \in Looks : TRUE]

BrowserInit == part \in {"targets", "calls", "debugger"} /\ TabInit /\ PageInit /\ DeepInit

BrowserNext ==
  \/ part = "targets" /\ TabNext /\ UNCHANGED <<part, callVars, deepVars>>
  \/ part = "calls" /\ CallNext /\ UNCHANGED <<part, tabVars, deepVars>>
  \/ part = "debugger" /\ DeepNext /\ UNCHANGED <<part, tabVars, callVars>>

BrowserSpec == BrowserInit /\ [][BrowserNext]_browserVars

BrowserTypeOK == TabTypeOK /\ PageTypeOK /\ DeepTypeOK

Symmetry == Permutations(Element)
============================================================================
