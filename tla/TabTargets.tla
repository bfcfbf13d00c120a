---------------------------- MODULE TabTargets ----------------------------
(* Which tab a turn works on (BrowserToolGateway, gateway.ts): the tab    *)
(* captured at submission is bound to the turn, follows its replacement   *)
(* and the child tabs its actions open, and is kept in session storage    *)
(* while the background worker comes and goes. Also which tabs the turn   *)
(* has written to, for the pause on manual operation.                     *)
EXTENDS Naturals, Sequences, FiniteSets, SequencesExt

CONSTANTS
  Chat, Tab,        \* threads and tab identities, a closed one is not used again
  NoTab,            \* no entry in a map, or no such tab
  Nowhere,          \* bound to no page: submitted from outside a web page
  MaxTabEvents,     \* tabs closed, replaced, opened or focused
  MaxTabRestarts,
  MaxReplayed       \* mutations waiting for the stored maps when a turn ends

ASSUME TabAssumption == /\ Tab # {}
                        /\ NoTab \notin Tab /\ Nowhere \notin Tab /\ NoTab # Nowhere
                        /\ MaxTabEvents \in Nat /\ MaxTabRestarts \in Nat /\ MaxReplayed \in Nat

VARIABLES
  tabs,       \* open web tabs
  opened,     \* tab identities used so far
  visible,    \* the tab the user looks at
  gateway,    \* the maps of the running worker
  saved,      \* the maps in chrome.storage.session
  unsaved,    \* a persist is scheduled (#mutationTail)
  hydration,  \* "off" without a worker, "reading", "done"
  replayed,   \* #pendingHydrationMutations
  phase,      \* of the turn of every chat
  captured,   \* SubmissionBrowserContext.defaultTab of the run
  recovery,   \* of the call a stopped turn was at: the tab it was meant for, durable with
              \* the run, and how far the next worker is with carrying it out
  paused,     \* chats paused by a manual operation
  meant,      \* the tabs the turn has been told to work on, the latest one last
  wrote,      \* the tabs it has written to since it was last bound
  events      \* how many tab events and restarts there have been

tabVars == <<tabs, opened, visible, gateway, saved, unsaved, hydration, replayed, phase, captured,
             recovery, paused, meant, wrote, events>>
browser == <<tabs, opened, visible>>
turns == <<phase, captured, recovery, paused, meant, wrote>>

Empty == [target |-> [c \in Chat |-> NoTab], submitted |-> [c \in Chat |-> NoTab],
          touched |-> [c \in Chat |-> {}], driven |-> [c \in Chat |-> {}]]
Maps == [target : [Chat -> Tab \cup {NoTab}], submitted : [Chat -> Tab \cup {NoTab, Nowhere}],
         touched : [Chat -> SUBSET Tab], driven : [Chat -> SUBSET Tab]]

NoCall == [target |-> NoTab, at |-> "idle"]

TabTypeOK ==
  /\ tabs \subseteq opened /\ opened \subseteq Tab /\ visible \in Tab \cup {NoTab}
  /\ gateway \in Maps /\ saved \in Maps /\ unsaved \in BOOLEAN
  /\ hydration \in {"off", "reading", "done"}
  /\ phase \in [Chat -> {"none", "running", "stopped"}]
  /\ captured \in [Chat -> Tab \cup {NoTab, Nowhere}] /\ paused \subseteq Chat
  /\ recovery \in [Chat -> [target : Tab \cup {NoTab}, at : {"idle", "checked", "bound"}]]
  /\ meant \in [Chat -> Seq(Tab \cup {Nowhere})] /\ wrote \in [Chat -> SUBSET Tab]
  /\ events \in [tab : 0 .. MaxTabEvents, restart : 0 .. MaxTabRestarts]

TabInit ==
  /\ visible = CHOOSE t \in Tab : TRUE
  /\ tabs = {visible} /\ opened = {visible}
  /\ gateway = Empty /\ saved = Empty /\ unsaved = FALSE
  /\ hydration = "reading" /\ replayed = <<>>
  /\ phase = [c \in Chat |-> "none"] /\ captured = [c \in Chat |-> NoTab] /\ paused = {}
  /\ recovery = [c \in Chat |-> NoCall]
  /\ meant = [c \in Chat |-> <<>>] /\ wrote = [c \in Chat |-> {}]
  /\ events = [tab |-> 0, restart |-> 0]
-----------------------------------------------------------------------------
(* The mutations of the maps, as data: those made before the stored state   *)
(* has been read are applied at once and again on top of it.                *)

Without(m, t) ==
  [target |-> [c \in Chat |-> IF m.target[c] = t THEN NoTab ELSE m.target[c]],
   submitted |-> [c \in Chat |-> IF m.submitted[c] = t THEN Nowhere ELSE m.submitted[c]],
   touched |-> [c \in Chat |-> m.touched[c] \ {t}],
   driven |-> [c \in Chat |-> m.driven[c] \ {t}]]

Removed(m, t) == Without(m, t)

Swapped(S, old, new) == IF old \in S THEN (S \ {old}) \cup {new} ELSE S
MutKeepsOldDriven(m, old, new) ==
  LET to(t) == IF t = old THEN new ELSE t
  IN [m EXCEPT !.target = [c \in Chat |-> to(m.target[c])],
               !.submitted = [c \in Chat |-> to(m.submitted[c])]]
Replaced(m, old, new) ==
  LET to(t) == IF t = old THEN new ELSE t
  IN [target |-> [c \in Chat |-> to(m.target[c])],
      submitted |-> [c \in Chat |-> to(m.submitted[c])],
      touched |-> [c \in Chat |-> Swapped(m.touched[c], old, new)],
      driven |-> [c \in Chat |-> Swapped(m.driven[c], old, new)]]

Bound(m, c, t) == [m EXCEPT !.target[c] = NoTab, !.submitted[c] = t, !.driven[c] = {}]
Released(m, c) == [m EXCEPT !.target[c] = NoTab, !.submitted[c] = NoTab, !.driven[c] = {}]
Cleared(m, c) == [Released(m, c) EXCEPT !.touched[c] = {}]
Adopted(m, c, from, to) ==
  [m EXCEPT !.submitted[c] = IF @ = from THEN to ELSE @,
            !.target[c] = IF @ = from THEN to ELSE @,
            !.touched[c] = @ \cup {to}, !.driven[c] = @ \cup {to}]

Mutated(m, u) ==
  CASE u.kind = "removed" -> Removed(m, u.tab)
    [] u.kind = "replaced" -> Replaced(m, u.tab, u.to)
    [] u.kind = "bound" -> Bound(m, u.chat, u.tab)
    [] u.kind = "released" -> Released(m, u.chat)
    [] u.kind = "cleared" -> Cleared(m, u.chat)
    [] u.kind = "locked" -> [m EXCEPT !.target[u.chat] = u.tab, !.touched[u.chat] = @ \cup {u.tab}]
    [] u.kind = "dropped" -> [m EXCEPT !.target[u.chat] = NoTab]
    [] u.kind = "touched" -> [m EXCEPT !.touched[u.chat] = @ \cup {u.tab}]
    [] u.kind = "driven" -> [m EXCEPT !.driven[u.chat] = @ \cup {u.tab}]
    [] u.kind = "adopted" -> Adopted(m, u.chat, u.tab, u.to)

(* #mutateState *)
Mutate(u) ==
  /\ gateway' = Mutated(gateway, u)
  /\ replayed' = IF hydration = "reading" THEN Append(replayed, u) ELSE replayed
  /\ unsaved' = TRUE
On(kind, c, t) == [kind |-> kind, chat |-> c, tab |-> t]
Moved(kind, t, new) == [kind |-> kind, tab |-> t, to |-> new]

Hydrated(m) == FoldLeft(Mutated, m, replayed)

Hydrate ==
  /\ hydration = "reading" /\ hydration' = "done"
  /\ gateway' = Hydrated(saved) /\ replayed' = <<>>
  /\ UNCHANGED <<browser, turns, saved, unsaved, events>>

(* #schedulePersist: every scheduled write takes the maps as they are then. *)
Persist ==
  /\ hydration = "done" /\ unsaved
  /\ saved' = gateway /\ unsaved' = FALSE
  /\ UNCHANGED <<browser, turns, gateway, hydration, replayed, events>>

Running == hydration # "off"
TabEvent == events.tab < MaxTabEvents /\ events' = [events EXCEPT !.tab = @ + 1]
-----------------------------------------------------------------------------
(* The browser. An event wakes a worker that is not running.                *)

FocusTab(t) ==
  /\ t \in tabs \ {visible} /\ TabEvent /\ visible' = t
  /\ UNCHANGED <<tabs, opened, gateway, saved, unsaved, hydration, replayed, turns>>

OpenTab(t) ==
  /\ t \notin opened /\ TabEvent
  /\ tabs' = tabs \cup {t} /\ opened' = opened \cup {t} /\ visible' = t
  /\ UNCHANGED <<gateway, saved, unsaved, hydration, replayed, turns>>

CloseTab(t) ==
  /\ t \in tabs /\ Running /\ TabEvent
  /\ tabs' = tabs \ {t}
  /\ \E v \in (IF tabs' = {} THEN {NoTab} ELSE IF visible = t THEN tabs' ELSE {visible}) :
       visible' = v
  /\ Mutate([kind |-> "removed", tab |-> t])
  /\ wrote' = [c \in Chat |-> wrote[c] \ {t}]
  /\ UNCHANGED <<opened, saved, hydration, phase, captured, recovery, paused, meant>>

ReplaceTab(t, new) ==
  /\ t \in tabs /\ new \notin opened /\ Running /\ TabEvent
  /\ tabs' = (tabs \ {t}) \cup {new} /\ opened' = opened \cup {new}
  /\ visible' = IF visible = t THEN new ELSE visible
  /\ Mutate(Moved("replaced", t, new))
  /\ meant' = [c \in Chat |-> [i \in DOMAIN meant[c] |-> IF meant[c][i] = t THEN new
                                                         ELSE meant[c][i]]]
  /\ wrote' = [c \in Chat |-> Swapped(wrote[c], t, new)]
  /\ UNCHANGED <<saved, hydration, phase, captured, recovery, paused>>

(* A real user event on a page; the agent's own trusted input is dropped    *)
(* within its window and is not modelled.                                   *)
ManualOperation(t) ==
  /\ t \in tabs /\ Running
  /\ paused' = paused \cup {c \in Chat : phase[c] = "running" /\ t \in gateway.driven[c]}
  /\ paused' # paused
  /\ UNCHANGED <<browser, gateway, saved, unsaved, hydration, replayed, phase, captured, recovery,
                 meant, wrote, events>>
-----------------------------------------------------------------------------
(* Turns. *)

(* The page sends what the user looks at with the input; the turn starts    *)
(* later and binds it.                                                      *)
Submit(c) ==
  /\ phase[c] = "none" /\ captured[c] = NoTab
  /\ captured' = [captured EXCEPT ![c] = IF visible = NoTab THEN Nowhere ELSE visible]
  /\ UNCHANGED <<browser, gateway, saved, unsaved, hydration, replayed, phase, recovery, paused,
                 meant, wrote, events>>

(* bindTurnTarget: what the turn is told to work on from here.              *)
Begins(c, t) ==
  /\ Running /\ Mutate(On("bound", c, t))
  /\ phase' = [phase EXCEPT ![c] = "running"]
  /\ meant' = [meant EXCEPT ![c] = <<t>>]
  /\ wrote' = [wrote EXCEPT ![c] = {}]
  /\ UNCHANGED <<browser, saved, hydration, captured, paused, events>>

StartTurn(c) ==
  /\ phase[c] = "none" /\ captured[c] # NoTab /\ Begins(c, captured[c])
  /\ UNCHANGED recovery

(* A run found at startup or continued after a pause binds the tab of its   *)
(* environment again, once the call it was at, if any, has been answered.   *)
ResumeTurn(c) ==
  /\ phase[c] = "stopped" \/ recovery[c].at = "bound"
  /\ Begins(c, captured[c])
  /\ recovery' = [recovery EXCEPT ![c] = NoCall]

(* bindRecoveredTarget: a call that is carried out after a restart must     *)
(* find its tab open, and is then bound to it; the tab may go in between.   *)
CheckRecovered(c) ==
  /\ phase[c] = "stopped" /\ hydration = "done"
  /\ recovery[c].target \in tabs
  /\ recovery' = [recovery EXCEPT ![c].at = "checked"] /\ recovery' # recovery
  /\ UNCHANGED <<browser, gateway, saved, unsaved, hydration, replayed, phase, captured, paused,
                 meant, wrote, events>>

BindRecovered(c) ==
  /\ recovery[c].at = "checked" /\ Begins(c, recovery[c].target)
  /\ recovery' = [recovery EXCEPT ![c].at = "bound"]

(* turn.complete *)
EndTurn(c) ==
  /\ phase[c] = "running" /\ recovery[c].at = "idle" /\ Running /\ Len(replayed) < MaxReplayed
  /\ Mutate(On("released", c, NoTab))
  /\ phase' = [phase EXCEPT ![c] = "none"] /\ captured' = [captured EXCEPT ![c] = NoTab]
  /\ paused' = paused \ {c}
  /\ meant' = [meant EXCEPT ![c] = <<>>] /\ wrote' = [wrote EXCEPT ![c] = {}]
  /\ UNCHANGED <<browser, saved, hydration, recovery, events>>

(* The thread is deleted. *)
ClearThread(c) ==
  /\ phase[c] = "none" /\ captured[c] = NoTab /\ Running /\ gateway.touched[c] # {}
  /\ Mutate(On("cleared", c, NoTab))
  /\ UNCHANGED <<browser, saved, hydration, turns, events>>

(* getTargetTab: the tab of a call that names none. NoTab stands for the    *)
(* error it throws.                                                         *)
BoundTab(c) == IF gateway.submitted[c] \in tabs THEN gateway.submitted[c] ELSE NoTab
Fallback(c) == IF gateway.target[c] \in tabs THEN gateway.target[c] ELSE visible
DefaultTab(c) == IF gateway.submitted[c] # NoTab THEN BoundTab(c) ELSE Fallback(c)

Usable(c) == phase[c] = "running" /\ hydration = "done"

UseDefault(c) ==
  /\ Usable(c) /\ DefaultTab(c) # NoTab
  /\ IF gateway.submitted[c] # NoTab
     THEN Mutate(On("touched", c, DefaultTab(c)))
     ELSE IF gateway.target[c] \in tabs THEN UNCHANGED <<gateway, replayed, unsaved>>
     ELSE Mutate(On("locked", c, DefaultTab(c)))
  /\ UNCHANGED <<browser, saved, hydration, turns, events>>

(* getOperationTab with a tab the model names *)
UseNamed(c, t) ==
  /\ Usable(c) /\ t \in tabs
  /\ Mutate(On("touched", c, t))
  /\ UNCHANGED <<browser, saved, hydration, turns, events>>

(* markDriven before a write reaches the page *)
Drive(c, t) ==
  /\ Usable(c) /\ t \in tabs /\ t \in gateway.touched[c]
  /\ Mutate(On("driven", c, t))
  /\ wrote' = [wrote EXCEPT ![c] = @ \cup {t}]
  /\ UNCHANGED <<browser, saved, hydration, phase, captured, recovery, paused, meant, events>>

(* #createdTabResult: a write on a tab has opened a child.                  *)
AdoptChild(c, t, new) ==
  /\ Usable(c) /\ t \in wrote[c] /\ new \notin opened /\ TabEvent
  /\ tabs' = tabs \cup {new} /\ opened' = opened \cup {new} /\ visible' = new
  /\ Mutate([kind |-> "adopted", chat |-> c, tab |-> t, to |-> new])
  /\ meant' = [meant EXCEPT ![c] = IF t = DefaultTab(c) THEN Append(@, new) ELSE @]
  /\ wrote' = [wrote EXCEPT ![c] = @ \cup {new}]
  /\ UNCHANGED <<saved, hydration, phase, captured, recovery, paused>>

(* A turn that is stopped may be at a call, whose tab is any of those open. *)
StopGateway ==
  /\ Running /\ events.restart < MaxTabRestarts
  /\ events' = [events EXCEPT !.restart = @ + 1]
  /\ hydration' = "off" /\ gateway' = Empty /\ replayed' = <<>> /\ unsaved' = FALSE
  /\ phase' = [c \in Chat |-> IF phase[c] = "running" THEN "stopped" ELSE phase[c]]
  /\ \E at \in [Chat -> tabs \cup {NoTab}] :
       recovery' = [c \in Chat |->
         [target |-> IF phase[c] = "running" /\ recovery[c].at = "idle" THEN at[c]
                     ELSE recovery[c].target,
          at |-> "idle"]]
  /\ UNCHANGED <<browser, saved, captured, paused, meant, wrote>>

StartGateway == /\ hydration = "off" /\ hydration' = "reading"
                /\ UNCHANGED <<browser, turns, gateway, saved, unsaved, replayed, events>>

BrowserStep == \/ \E t \in Tab : \/ FocusTab(t) \/ OpenTab(t) \/ CloseTab(t) \/ ManualOperation(t)
                                 \/ \E new \in Tab : ReplaceTab(t, new)
TurnStep(c) == \/ Submit(c) \/ StartTurn(c) \/ ResumeTurn(c) \/ CheckRecovered(c)
               \/ BindRecovered(c) \/ EndTurn(c) \/ ClearThread(c) \/ UseDefault(c)
               \/ \E t \in Tab : \/ UseNamed(c, t) \/ Drive(c, t)
                                 \/ \E new \in Tab : AdoptChild(c, t, new)

TabNext == \/ BrowserStep \/ Hydrate \/ Persist \/ StopGateway \/ StartGateway
           \/ \E c \in Chat : TurnStep(c)

TabSpec == TabInit /\ [][TabNext]_tabVars
-----------------------------------------------------------------------------
(* A call without a tab works on a tab the turn has been told about: the    *)
(* captured one, what replaced it, or a child an action on it opened; and   *)
(* for a call carried out after a restart the tab it was agreed for. It     *)
(* never lands on what the user happens to look at, whatever is closed,     *)
(* replaced, focused, lost by a restart or read late from storage. And a    *)
(* tab the turn has written to is known as such, so that a user who         *)
(* operates it pauses the turn, also on the tab that replaced it.           *)
TurnsKeepTheirTabs ==
  \A c \in Chat : Usable(c) =>
    /\ DefaultTab(c) \in {meant[c][i] : i \in DOMAIN meant[c]} \cup {NoTab}
    /\ wrote[c] \subseteq gateway.driven[c]
==========================================================================
