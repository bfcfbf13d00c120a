-------------------------------- MODULE TabTools ---------------------------------
(* One call of a tool that works on whole tabs (createL0Tools, run_javascript and   *)
(* press_key of tools/browserTools.ts), from the target the user is asked about to  *)
(* what the model is told, while pages load and redirect, and the user navigates,   *)
(* closes and switches tabs meanwhile.                                              *)
EXTENDS Naturals

CONSTANTS
  ToolTab,        \* tab identities
  Page, SiteOf,   \* addresses, and the origin of each
  Unloaded,       \* no address: nothing loaded, or nothing on its way
  MaxUserMoves    \* bound: what the user and the pages do by themselves

ASSUME ToolAssumption == Unloaded \notin Page /\ MaxUserMoves \in Nat

VARIABLES
  window,    \* open tabs: the page each shows and the one it is loading
  shown,     \* the tab in front
  call,      \* the call
  arrived,   \* its tab has come to the page it was sent to, after the dispatch
  actedOn,   \* the origin of the page when the final check let the call pass
  moves

toolVars == <<window, shown, call, arrived, actedOn, moves>>

Tool == {"navigate", "tab_open", "tab_focus", "tab_close", "go_back", "run_javascript",
         "press_key"}
Site == {SiteOf[p] : p \in Page}
Closed == [url |-> Unloaded, going |-> Unloaded, open |-> FALSE]
Opened == {t \in ToolTab : window[t].open}
Loading(t) == window[t].going # Unloaded
Start(w, t, p) == [w EXCEPT ![t].going = p]
SiteOn(t) == IF window[t].url = Unloaded THEN Unloaded ELSE SiteOf[window[t].url]

NoCall == [tool |-> "none", tab |-> CHOOSE t \in ToolTab : TRUE, page |-> Unloaded,
           site |-> Unloaded, before |-> Unloaded, at |-> "idle", effect |-> FALSE]

ToolInit ==
  /\ window \in [ToolTab -> {Closed} \cup [url : Page, going : {Unloaded}, open : {TRUE}]]
  /\ shown \in Opened /\ call = NoCall /\ arrived = FALSE /\ actedOn = Unloaded /\ moves = 0

(* ------------------------------ the browser and the user ------------------------------ *)

Moves(w) ==
  /\ window' = w
  /\ arrived' = (arrived \/ /\ call.at \in {"sent", "loading", "verify"}
                            /\ w[call.tab].url = call.page /\ window[call.tab].url # call.page)
  /\ UNCHANGED <<call, actedOn>>

Commits(t) ==
  /\ window[t].open /\ Loading(t)
  /\ Moves([window EXCEPT ![t] = [@ EXCEPT !.url = window[t].going, !.going = Unloaded]])
  /\ UNCHANGED <<shown, moves>>
(* A redirect, a link or the address bar.                                            *)
GoesTo(t, p) ==
  /\ moves < MaxUserMoves /\ moves' = moves + 1 /\ window[t].open
  /\ Moves(Start(window, t, p)) /\ UNCHANGED shown
Without(t) == {s \in Opened : s # t}
UserCloses(t) ==
  /\ moves < MaxUserMoves /\ moves' = moves + 1 /\ window[t].open /\ Without(t) # {}
  /\ shown' \in IF shown = t THEN Without(t) ELSE {shown}
  /\ Moves([window EXCEPT ![t] = Closed])
UserShows(t) ==
  /\ moves < MaxUserMoves /\ moves' = moves + 1 /\ window[t].open /\ shown' = t
  /\ UNCHANGED <<window, call, arrived, actedOn>>

(* ------------------------------ asking ------------------------------ *)

Goes(at) == call' = [call EXCEPT !.at = at]
(* A call that ends in an error says whether the page may have changed all the same. *)
Ends(how, effect) == call' = [call EXCEPT !.at = how, !.effect = effect]
Still == UNCHANGED <<window, shown, moves>>

(* resolveTarget: where the two that carry an address will lead, else where the tab is. *)
Target(tool, t, p) == IF tool \in {"navigate", "tab_open"} THEN SiteOf[p] ELSE SiteOn(t)

Issue(tool, t, p) ==
  /\ call.at = "idle" /\ t \in Opened
  /\ call' = [NoCall EXCEPT !.tool = tool, !.tab = t, !.at = "asked", !.site = Target(tool, t, p),
                            !.page = IF tool \in {"navigate", "tab_open"} THEN p ELSE Unloaded]
  /\ UNCHANGED <<arrived, actedOn>> /\ Still
Decide ==
  /\ call.at = "asked" /\ \/ Goes("approved")
                          \/ Ends("refused", FALSE)
  /\ UNCHANGED <<arrived, actedOn>> /\ Still

(* resolveVerifiedDispatchTarget: the approval is not carried over to another origin. *)
AnyOrigin == call.tab \in Opened
SameTarget ==
  \/ call.tool = "tab_open"
  \/ /\ call.tab \in Opened /\ Target(call.tool, call.tab, call.page) = call.site
FinalCheck ==
  /\ call.at = "approved"
  /\ \/ SameTarget /\ Goes("checked") /\ actedOn' = Target(call.tool, call.tab, call.page)
     \/ ~SameTarget /\ Ends("changed", FALSE) /\ UNCHANGED actedOn
  /\ UNCHANGED arrived /\ Still

(* ------------------------------ doing ------------------------------ *)

Sends(w, t) ==
  /\ window' = w
  /\ call' = [call EXCEPT !.at = "sent", !.tab = t, !.before = window[t].url]
  /\ arrived' = FALSE /\ UNCHANGED <<actedOn, moves>>

Gone ==
  /\ call.at = "checked" /\ call.tool # "tab_open" /\ call.tab \notin Opened
  /\ Ends("failed", FALSE) /\ UNCHANGED <<arrived, actedOn>> /\ Still

Ready(tool) == call.at = "checked" /\ call.tool = tool /\ call.tab \in Opened

Navigate ==
  /\ Ready("navigate")
  /\ \/ /\ window[call.tab].url = call.page /\ Ends("there", FALSE)
        /\ UNCHANGED <<arrived, actedOn>> /\ Still
     \/ /\ window[call.tab].url # call.page
        /\ Sends(Start(window, call.tab, call.page), call.tab) /\ UNCHANGED shown

(* An open tab with exactly this address is used again, loading or not.              *)
OpenTab ==
  /\ call.at = "checked" /\ call.tool = "tab_open"
  /\ LET same == {t \in Opened : window[t].url = call.page}
     IN \/ \E t \in same : call' = [call EXCEPT !.at = "reusing", !.tab = t]
                           /\ UNCHANGED <<arrived, actedOn>> /\ Still
        \/ /\ same = {}
           /\ \E t \in ToolTab \ Opened :
                /\ Sends([window EXCEPT ![t] = [Closed EXCEPT !.open = TRUE, !.going = call.page]], t)
                /\ UNCHANGED shown

FocusTab ==
  /\ Ready("tab_focus") /\ Ends("done", TRUE) /\ shown' = call.tab
  /\ UNCHANGED <<window, arrived, actedOn, moves>>

(* clearTarget, then tabs.remove.                                                    *)
CloseTab ==
  /\ Ready("tab_close") /\ Without(call.tab) # {} /\ Ends("done", TRUE)
  /\ window' = [window EXCEPT ![call.tab] = Closed]
  /\ shown' \in IF shown = call.tab THEN Without(call.tab) ELSE {shown}
  /\ UNCHANGED <<arrived, actedOn, moves>>

(* goBack and goForward; a history with nothing in it rejects.                        *)
GoBack ==
  /\ Ready("go_back")
  /\ \/ \E p \in Page : Sends(Start(window, call.tab, p), call.tab) /\ UNCHANGED shown
     \/ Ends("failed", FALSE) /\ UNCHANGED <<arrived, actedOn>> /\ Still

(* The page may answer a script or a key by going somewhere.                         *)
ActsOnPage ==
  /\ Ready("run_javascript") \/ Ready("press_key")
  /\ \E p \in Page \cup {window[call.tab].going} :
       Sends(Start(window, call.tab, p), call.tab) /\ UNCHANGED shown

(* The browser has answered: what loads is waited for, a script has its value, and a  *)
(* key is followed only when the page is seen to change.                              *)
Answered ==
  /\ call.at = "sent"
  /\ \/ call.tool \in {"navigate", "tab_open", "go_back"} /\ Goes("loading")
     \/ call.tool = "run_javascript" /\ (Ends("done", TRUE) \/ Ends("failed", FALSE))
     \/ /\ call.tool = "press_key"
        /\ \/ call.tab \notin Opened /\ Ends("failed", FALSE)
           \/ /\ call.tab \in Opened
              /\ IF Loading(call.tab) \/ window[call.tab].url # call.before
                 THEN Goes("loading") ELSE Ends("done", TRUE)
  /\ UNCHANGED <<arrived, actedOn>> /\ Still

(* waitForTabLoad: a tab that is gone is not waited for either.                       *)
Loaded ==
  /\ call.at \in {"loading", "reusing"} /\ (call.tab \in Opened => ~Loading(call.tab))
  /\ \/ call.at = "loading" /\ call.tool # "go_back" /\ Goes("verify")
     \/ call.tool = "go_back" /\ Ends("done", TRUE)
     \/ call.at = "reusing" /\ Ends("reused", FALSE)
  /\ UNCHANGED <<arrived, actedOn>> /\ Still

(* The address the tab has now against the one it was sent to.                        *)
AnyAddress == call.tab \in Opened
CameThrough == call.tab \in Opened /\ window[call.tab].url = call.page
Verify ==
  /\ call.at = "verify"
  /\ \/ call.tab \notin Opened /\ Ends("failed", FALSE)
     \/ call.tool = "press_key" /\ call.tab \in Opened /\ Ends("done", TRUE)
     \/ call.tool # "press_key" /\ CameThrough /\ Ends("verified", TRUE)
     \/ call.tool # "press_key" /\ call.tab \in Opened /\ ~CameThrough /\ Ends("uncertain", TRUE)
  /\ UNCHANGED <<arrived, actedOn>> /\ Still

(* The deadline of the tool or an interruption, wherever it waits: only the wait for  *)
(* the browser's own answer says that something may have happened.                    *)
Cut ==
  /\ call.at \in {"checked", "sent", "loading", "reusing"} /\ Ends("cut", call.at = "sent")
  /\ UNCHANGED <<arrived, actedOn>> /\ Still

ToolNext ==
  \/ \E t \in ToolTab :
       \/ Commits(t) \/ UserCloses(t) \/ UserShows(t)
       \/ \E p \in Page : GoesTo(t, p)
       \/ \E p \in Page, tool \in Tool : Issue(tool, t, p)
  \/ Decide \/ FinalCheck \/ Gone \/ Navigate \/ OpenTab \/ FocusTab \/ CloseTab \/ GoBack
  \/ ActsOnPage \/ Answered \/ Loaded \/ Verify \/ Cut

ToolSpec == ToolInit /\ [][ToolNext]_toolVars

(* ------------------------------ what holds ------------------------------ *)

Spot == Page \cup {Unloaded}
ToolTypeOK ==
  /\ window \in [ToolTab -> [url : Spot, going : Spot, open : BOOLEAN]]
  /\ shown \in Opened /\ arrived \in BOOLEAN /\ actedOn \in Site \cup {Unloaded}
  /\ call \in [tool : Tool \cup {"none"}, tab : ToolTab, page : Spot,
               site : Site \cup {Unloaded}, before : Spot, effect : BOOLEAN,
               at : {"idle", "asked", "approved", "checked", "sent", "loading", "reusing", "verify",
                     "refused", "changed", "failed", "there", "reused", "done", "verified",
                     "uncertain", "cut"}]
  /\ moves \in 0 .. MaxUserMoves

(* While the card of a call is open the user and the pages go on: a call passes its    *)
(* last check only on the origin the user was asked about; and a navigation is         *)
(* reported as verified only when the tab has come to that very address after it was    *)
(* dispatched, however it was redirected, closed or sent elsewhere meanwhile.          *)
CallsAsShown ==
  /\ call.at \in {"checked", "sent", "loading", "verify", "verified", "uncertain", "done"} =>
       call.tool = "tab_open" \/ actedOn = call.site
  /\ call.at = "verified" => arrived
================================================================================
