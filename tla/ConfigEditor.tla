--------------------------- MODULE ConfigEditor ---------------------------
(***************************************************************************)
(* The life of a draft on the configuration page of the web panel:         *)
(* ConfigContext.jsx, which loads the configuration, keeps the draft and   *)
(* saves it, config/index.jsx, which shows a spinner instead of the tabs   *)
(* while it loads, the tabs that edit whole sections (BasicTab, CacheTab,  *)
(* FirewallTab, DhcpTab), and the two requests of web/api.rs behind them.  *)
(*                                                                         *)
(* Several pages are open in as many windows.  A request is answered, or   *)
(* fails, at any time after it was sent, in any order; what the user does  *)
(* meanwhile is limited only by what the page shows.  The buttons to take  *)
(* back all edits (reload) stay usable during a save: then two loads of a  *)
(* page are under way at once.                                             *)
(*                                                                         *)
(* A section of the configuration is Null (firewall, dhcp.v4, dhcp.v6 and  *)
(* dhcp.ra may be) or a record of its enable switch and of a mark that     *)
(* stands for everything else in it: the number of the edit it is from.    *)
(***************************************************************************)
EXTENDS Integers, Sequences, FiniteSets

CONSTANTS
    Page,      \* windows with the configuration page
    Section,   \* sections of the configuration
    Optional,  \* those that may be null, with an enable switch
    Null, Nobody,
    MaxEdits,  \* bound: edits of the user
    MaxCalls   \* bound: requests

ASSUME SectionAssumption == Optional \subseteq Section
ASSUME NobodyAssumption == Nobody \notin Page
ASSUME BoundAssumption == MaxEdits \in Nat /\ MaxCalls \in Nat

VARIABLES
    past,      \* the server's configurations, the one in force last
    calls,     \* requests under way
    open,      \* the page is mounted
    draft,     \* its configuration; Null before the first load
    loading, saving, dirty, error,
    edits,     \* edits so far
    made,      \* requests so far
    \* kept for the properties only:
    shown,     \* the version of the configuration the page loaded last
    crossed,   \* that load was asked for while another request was under way
    sent,      \* the version its last save that was answered made
    fresh      \* an edit was made outside of a save, and nothing was asked for since

pageVars == <<open, draft, loading, saving, dirty, error>>
histVars == <<shown, crossed, sent, fresh>>
vars == <<past, calls, pageVars, edits, made, histVars>>

\* EMPTY_FW, EMPTY_V4, EMPTY_V6 and EMPTY_RA have mark 0, as the server's file.
Value == [on : BOOLEAN, mark : Nat]
Config == [Section -> Value \cup {Null}]
Version == DOMAIN past
InForce == past[Len(past)]

Call == [id : Nat, page : Page \cup {Nobody}, kind : {"get", "put"},
         bySave : BOOLEAN, crossing : BOOLEAN,
         state : {"sent", "done", "refused"},
         config : Config \cup {Null}, version : Nat]

Of(p) == {c \in calls : c.page = p}

\* The server's file: the sections that may be null are, or are disabled.
FirstConfigs ==
    {c \in [Section -> {Null, [on |-> TRUE, mark |-> 0], [on |-> FALSE, mark |-> 0]}] :
        \A s \in Section : IF s \in Optional THEN c[s] = Null \/ ~c[s].on
                           ELSE c[s] # Null /\ c[s].on}

Init ==
    /\ \E c \in FirstConfigs : past = <<c>>
    /\ calls = {}
    /\ open = [p \in Page |-> FALSE]
    /\ draft = [p \in Page |-> Null]
    /\ loading = [p \in Page |-> FALSE]
    /\ saving = [p \in Page |-> FALSE]
    /\ dirty = [p \in Page |-> FALSE]
    /\ error = [p \in Page |-> FALSE]
    /\ edits = 0
    /\ made = 0
    /\ shown = [p \in Page |-> 0]
    /\ crossed = [p \in Page |-> FALSE]
    /\ sent = [p \in Page |-> 0]
    /\ fresh = [p \in Page |-> FALSE]

---------------------------------------------------------------------------
(* Requests *)

Get(p, bySave, crossing) ==
    [id |-> made + 1, page |-> p, kind |-> "get", bySave |-> bySave,
     crossing |-> crossing, state |-> "sent", config |-> Null, version |-> 0]

Put(p) ==
    [id |-> made + 1, page |-> p, kind |-> "put", bySave |-> FALSE,
     crossing |-> FALSE, state |-> "sent", config |-> draft[p], version |-> 0]

\* A request, the user's or one that follows from it; the bound is the user's.
NewCall == made' = made + 1
UserCall == made < MaxCalls /\ NewCall

\* A request, and what the server made of it.
Served(c, state, config, version) ==
    [id |-> c.id, page |-> c.page, kind |-> c.kind, bySave |-> c.bySave,
     crossing |-> c.crossing, state |-> state, config |-> config, version |-> version]

\* The server answers with the configuration in force.
ServeGet(c) ==
    /\ c \in calls /\ c.kind = "get" /\ c.state = "sent"
    /\ calls' = (calls \ {c}) \cup {Served(c, "done", InForce, Len(past))}
    /\ UNCHANGED <<past, pageVars, edits, made, histVars>>

\* It takes the configuration over, or refuses it and changes nothing.
ServePut(c) ==
    /\ c \in calls /\ c.kind = "put" /\ c.state = "sent"
    /\ \/ /\ past' = Append(past, c.config)
          /\ calls' = (calls \ {c}) \cup {Served(c, "done", c.config, Len(past) + 1)}
       \/ /\ calls' = (calls \ {c}) \cup {Served(c, "refused", c.config, 0)}
          /\ UNCHANGED past
    /\ UNCHANGED <<pageVars, edits, made, histVars>>

---------------------------------------------------------------------------
(* The page comes and goes *)

\* It is mounted and loads.
Open(p) ==
    /\ ~open[p]
    /\ UserCall
    /\ calls' = calls \cup {Get(p, FALSE, FALSE)}
    /\ open' = [open EXCEPT ![p] = TRUE]
    /\ loading' = [loading EXCEPT ![p] = TRUE]
    /\ UNCHANGED <<past, draft, saving, dirty, error, edits, histVars>>

\* What is left of a page that goes: a save under way reaches the server,
\* its answer nobody.
Orphaned(p) ==
    {c \in calls : c.page # p}
        \cup {[c EXCEPT !.page = Nobody] : c \in {d \in Of(p) : d.kind = "put" /\ d.state = "sent"}}

\* It is unmounted, with all its state.
Gone(p) ==
    /\ open' = [open EXCEPT ![p] = FALSE]
    /\ draft' = [draft EXCEPT ![p] = Null]
    /\ loading' = [loading EXCEPT ![p] = FALSE]
    /\ saving' = [saving EXCEPT ![p] = FALSE]
    /\ dirty' = [dirty EXCEPT ![p] = FALSE]
    /\ error' = [error EXCEPT ![p] = FALSE]
    /\ shown' = [shown EXCEPT ![p] = 0]
    /\ crossed' = [crossed EXCEPT ![p] = FALSE]
    /\ sent' = [sent EXCEPT ![p] = 0]
    /\ fresh' = [fresh EXCEPT ![p] = FALSE]

\* The user goes to another page of the panel, or closes the window.
Leave(p) ==
    /\ open[p]
    /\ calls' = Orphaned(p)
    /\ Gone(p)
    /\ UNCHANGED <<past, edits, made>>

\* A request is answered with 401: the panel shows the login page instead.
Unauthorized(c) ==
    /\ c \in calls /\ c.page # Nobody /\ c.state = "sent"
    /\ calls' = Orphaned(c.page) \ {[c EXCEPT !.page = Nobody]}
    /\ Gone(c.page)
    /\ UNCHANGED <<past, edits, made>>

---------------------------------------------------------------------------
(* load *)

\* A load ends: the spinner goes, whatever other load is under way; a save that
\* waited for this one is over.
LoadEnds(c) ==
    /\ calls' = calls \ {c}
    /\ loading' = [loading EXCEPT ![c.page] = FALSE]
    /\ saving' = IF c.bySave THEN [saving EXCEPT ![c.page] = FALSE] ELSE saving
    /\ UNCHANGED <<past, open, edits, made, sent>>

\* The draft is replaced by what was loaded.
Loaded(c) ==
    /\ c \in calls /\ c.page # Nobody /\ c.kind = "get" /\ c.state = "done"
    /\ LoadEnds(c)
    /\ draft' = [draft EXCEPT ![c.page] = c.config]
    /\ dirty' = [dirty EXCEPT ![c.page] = FALSE]
    /\ error' = [error EXCEPT ![c.page] = FALSE]
    /\ shown' = [shown EXCEPT ![c.page] = c.version]
    /\ crossed' = [crossed EXCEPT ![c.page] = c.crossing]
    /\ fresh' = [fresh EXCEPT ![c.page] = FALSE]

\* Mutant of LoadFails: the message is left out.
LoadFailsSilently(c) ==
    /\ c \in calls /\ c.page # Nobody /\ c.kind = "get"
    /\ LoadEnds(c)
    /\ UNCHANGED <<draft, dirty, error, shown, crossed, fresh>>

\* The request or its answer is lost, or the server fails.
LoadFails(c) ==
    /\ c \in calls /\ c.page # Nobody /\ c.kind = "get"
    /\ LoadEnds(c)
    /\ error' = [error EXCEPT ![c.page] = TRUE]
    /\ UNCHANGED <<draft, dirty, shown, crossed, fresh>>

---------------------------------------------------------------------------
(* What the user does *)

\* The tabs are there: nothing loads, and there was something to load.
Usable(p) == open[p] /\ ~loading[p] /\ draft[p] # Null

\* update and updateSection.
Edit(p, s, value) ==
    /\ Usable(p)
    /\ edits < MaxEdits
    /\ edits' = edits + 1
    /\ draft' = [draft EXCEPT ![p] = [@ EXCEPT ![s] = value]]
    /\ dirty' = [dirty EXCEPT ![p] = TRUE]
    /\ fresh' = [fresh EXCEPT ![p] = @ \/ ~saving[p]]
    /\ UNCHANGED <<past, calls, open, loading, saving, error, made, shown, crossed, sent>>

\* Any field of a section: it is shown once the section is there and enabled.
EditField(p, s) ==
    /\ Usable(p) /\ draft[p][s] # Null /\ draft[p][s].on
    /\ Edit(p, s, [draft[p][s] EXCEPT !.mark = edits + 1])

\* Mutant of Toggle: only the switch is written.
ToggleOnly(p, s) ==
    /\ Usable(p)
    /\ Edit(p, s, [on |-> IF draft[p][s] = Null THEN TRUE ELSE ~draft[p][s].on])

\* The switch of a section: one that is null starts from the tab's defaults.
Toggle(p, s) ==
    /\ Usable(p)
    /\ LET section == IF draft[p][s] = Null THEN [on |-> FALSE, mark |-> 0] ELSE draft[p][s]
       IN Edit(p, s, [section EXCEPT !.on = ~@])

\* Mutant of Reload: it can be pressed while the page loads.
ReloadAnytime(p) ==
    /\ open[p] /\ dirty[p]
    /\ UserCall
    /\ calls' = calls \cup {Get(p, FALSE, Of(p) # {})}
    /\ loading' = [loading EXCEPT ![p] = TRUE]
    /\ fresh' = [fresh EXCEPT ![p] = FALSE]
    /\ UNCHANGED <<past, open, draft, saving, dirty, error, edits, shown, crossed, sent>>

\* The buttons to take back all edits, there as soon as there are any.
Reload(p) ==
    /\ Usable(p) /\ dirty[p]
    /\ UserCall
    /\ calls' = calls \cup {Get(p, FALSE, Of(p) # {})}
    /\ loading' = [loading EXCEPT ![p] = TRUE]
    /\ fresh' = [fresh EXCEPT ![p] = FALSE]
    /\ UNCHANGED <<past, open, draft, saving, dirty, error, edits, shown, crossed, sent>>

\* The draft as the user sees it is sent. The bar with the button comes into
\* view with the first edit; the button is disabled during a save.
Save(p) ==
    /\ Usable(p) /\ dirty[p] /\ ~saving[p]
    /\ UserCall
    /\ calls' = calls \cup {Put(p)}
    /\ saving' = [saving EXCEPT ![p] = TRUE]
    /\ fresh' = [fresh EXCEPT ![p] = FALSE]
    /\ UNCHANGED <<past, open, draft, loading, dirty, error, edits, shown, crossed, sent>>

---------------------------------------------------------------------------
(* save, when its request is answered *)

\* Mutant of Saved: the page does not load again.
SavedOnly(c) ==
    /\ c \in calls /\ c.page # Nobody /\ c.kind = "put" /\ c.state = "done"
    /\ NewCall
    /\ calls' = calls \ {c}
    /\ dirty' = [dirty EXCEPT ![c.page] = FALSE]
    /\ saving' = [saving EXCEPT ![c.page] = FALSE]
    /\ sent' = [sent EXCEPT ![c.page] = c.version]
    /\ UNCHANGED <<past, open, draft, loading, error, edits, shown, crossed, fresh>>

\* The page counts as clean, and loads what the server made of it. The edits
\* made while the request was under way go with this load.
Saved(c) ==
    /\ c \in calls /\ c.page # Nobody /\ c.kind = "put" /\ c.state = "done"
    /\ NewCall
    /\ calls' = (calls \ {c}) \cup {Get(c.page, TRUE, FALSE)}
    /\ dirty' = [dirty EXCEPT ![c.page] = FALSE]
    /\ loading' = [loading EXCEPT ![c.page] = TRUE]
    /\ sent' = [sent EXCEPT ![c.page] = c.version]
    /\ UNCHANGED <<past, open, draft, saving, error, edits, shown, crossed, fresh>>

\* Mutant of SaveFails: the button stays disabled.
SaveFailsForGood(c) ==
    /\ c \in calls /\ c.page # Nobody /\ c.kind = "put"
    /\ calls' = calls \ {c}
    /\ UNCHANGED <<past, open, draft, loading, saving, dirty, error, edits, made, histVars>>

\* The configuration is refused, or the request or its answer is lost: the
\* server may have it or not.
SaveFails(c) ==
    /\ c \in calls /\ c.page # Nobody /\ c.kind = "put"
    /\ calls' = calls \ {c}
    /\ saving' = [saving EXCEPT ![c.page] = FALSE]
    /\ UNCHANGED <<past, open, draft, loading, dirty, error, edits, made, histVars>>

\* The answer to a save whose page is gone.
Unheard(c) ==
    /\ c \in calls /\ c.page = Nobody /\ c.state # "sent"
    /\ calls' = calls \ {c}
    /\ UNCHANGED <<past, pageVars, edits, made, histVars>>

Serve(c) == ServeGet(c) \/ ServePut(c)

Answer(c) ==
    \/ Loaded(c)
    \/ LoadFails(c)
    \/ Saved(c)
    \/ SaveFails(c)
    \/ Unheard(c)

User(p) ==
    \/ Open(p)
    \/ Leave(p)
    \/ \E s \in Section : EditField(p, s)
    \/ \E s \in Optional : Toggle(p, s)
    \/ Reload(p)
    \/ Save(p)

Next ==
    \/ \E p \in Page : User(p)
    \/ \E c \in calls : Serve(c) \/ Answer(c) \/ Unauthorized(c)

Spec == Init /\ [][Next]_vars

\* The server answers every request it gets, and the browser ends every request
\* with an answer or an error: nothing is said of how long it takes, the panel
\* itself has no time limit.
FairSpec == Spec /\ \A p \in Page : WF_vars(\E c \in Of(p) : Answer(c)) /\ WF_vars(\E c \in Of(p) : Serve(c))

---------------------------------------------------------------------------
(* Properties *)

\* The state has the form the code gives it: a section is null or has all its
\* fields (the tabs spread the old section or their defaults under the field
\* that is set, FirewallTab.jsx:18-20, DhcpTab.jsx:79).
TypeOK ==
    /\ past \in Seq(Config) /\ past # <<>>
    /\ calls \subseteq Call
    /\ open \in [Page -> BOOLEAN]
    /\ draft \in [Page -> Config \cup {Null}]
    /\ loading \in [Page -> BOOLEAN]
    /\ saving \in [Page -> BOOLEAN]
    /\ dirty \in [Page -> BOOLEAN]
    /\ error \in [Page -> BOOLEAN]
    /\ edits \in Nat /\ made \in Nat
    /\ shown \in [Page -> Nat]
    /\ crossed \in [Page -> BOOLEAN]
    /\ sent \in [Page -> Nat]
    /\ fresh \in [Page -> BOOLEAN]

Clean(p) == Usable(p) /\ ~dirty[p] /\ ~error[p]

\* A page without unsaved edits and without an error shows a configuration
\* that was in force (load and save, ConfigContext.jsx:41-54 and 81-99), whichever
\* way saves, reloads and edits met. A save whose load failed is the exception
\* the error stands for: its page counts as clean with edits nobody saved.
CleanIsServed ==
    \A p \in Page : Clean(p) => shown[p] \in Version /\ draft[p] = past[shown[p]]

\* What a page shows after a save is not older than that save, unless the user
\* asked for a reload while a request was under way, as the buttons of index.jsx:56
\* and 90 let him during a save: the two loads may end in either order.
OwnSaveShown ==
    \A p \in Page : Clean(p) /\ ~crossed[p] => shown[p] >= sent[p]

\* An edit made while no save was under way is never overwritten by a load from
\* before it (load, ConfigContext.jsx:41-54), but for one the user asked for
\* while another request was under way.
EditsKept ==
    \A p \in Page : fresh[p] => \A c \in Of(p) : c.kind = "get" /\ c.crossing

\* A save ends, well or not, and the page can be used again; no answer leaves it
\* with the spinner for good.
Settles ==
    \A p \in Page : /\ saving[p] ~> ~saving[p]
                    /\ loading[p] ~> ~loading[p]
=============================================================================
