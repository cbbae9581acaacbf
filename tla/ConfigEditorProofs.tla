------------------------- MODULE ConfigEditorProofs -------------------------
(***************************************************************************)
(* Proofs about ConfigEditor, for any pages, sections and numbers of edits *)
(* and requests: what a configuration page shows when saves, reloads and   *)
(* edits of any number of windows meet.                                    *)
(*                                                                         *)
(* That a page never falls behind its own save rests on what the buttons   *)
(* allow: at most one request of a page is part of a save (OneSave), and   *)
(* a load that was asked for on its own has the page to itself until it    *)
(* ends (LoadAlone), so that none is under way when a save is answered.    *)
(***************************************************************************)
EXTENDS ConfigEditor, TLAPS

\* A request that is part of a save: the save itself, or the load behind it.
Own(c) == c.kind = "put" \/ c.bySave

\* A save carries a configuration.
PutsCarry == \A c \in calls : c.kind = "put" => c.config \in Config

\* Answers tell what was in force when they were given.
AnswersHold ==
    \A c \in calls : c.state = "done" =>
        /\ c.version \in 1..Len(past)
        /\ c.kind = "get" => c.config = past[c.version]

\* A page that is not mounted has no draft and no requests.
ClosedIsBlank ==
    \A p \in Page : ~open[p] =>
        /\ draft[p] = Null /\ ~saving[p] /\ ~fresh[p]
        /\ \A c \in calls : c.page # p

\* A page has one save at a time, and counts as saving then.
OneSave ==
    \A c \in calls : c.page \in Page /\ Own(c) =>
        /\ saving[c.page]
        /\ \A d \in calls : d.page = c.page /\ Own(d) => d = c

\* A load that is no save's, and was asked for alone, is alone until it ends.
LoadAlone ==
    \A c \in calls : c.page \in Page /\ ~Own(c) /\ ~c.crossing =>
        /\ loading[c.page]
        /\ \A d \in calls : d.page = c.page => d = c

\* Only edits outside of a save count as kept.
SavingIsStale == \A p \in Page : saving[p] => ~fresh[p]

\* Saves that were answered are in the server's past.
SentIsPast == \A p \in Page : sent[p] <= Len(past)

\* Loads not crossed by others bring nothing older than the page's last save.
LoadsAreNew ==
    \A c \in calls :
        c.page \in Page /\ c.kind = "get" /\ c.state = "done" /\ ~c.crossing =>
            c.version >= sent[c.page]

IInv ==
    /\ TypeOK
    /\ PutsCarry /\ AnswersHold /\ ClosedIsBlank /\ OneSave /\ LoadAlone
    /\ SavingIsStale /\ SentIsPast /\ LoadsAreNew
    /\ CleanIsServed /\ OwnSaveShown /\ EditsKept

---------------------------------------------------------------------------
(* Requests as records *)

\* The fields of a request have the types Call gives them.
LEMMA CallParts ==
    ASSUME NEW c \in Call
    PROVE  /\ c.id \in Nat /\ c.page \in Page \cup {Nobody} /\ c.kind \in {"get", "put"}
           /\ c.bySave \in BOOLEAN /\ c.crossing \in BOOLEAN
           /\ c.state \in {"sent", "done", "refused"}
           /\ c.config \in Config \cup {Null} /\ c.version \in Nat
           /\ c = [id |-> c.id, page |-> c.page, kind |-> c.kind, bySave |-> c.bySave,
                   crossing |-> c.crossing, state |-> c.state, config |-> c.config,
                   version |-> c.version]
<1> HIDE DEF Config
<1> QED
  BY DEF Call

\* What save() sends.
LEMMA PutParts ==
    ASSUME made \in Nat, NEW p \in Page, draft[p] \in Config, NEW d, d = Put(p)
    PROVE  /\ d \in Call
           /\ d.page = p /\ d.kind = "put" /\ ~d.bySave /\ d.state = "sent"
           /\ d.config \in Config
<1> HIDE DEF Config
<1>1. /\ d.page = p /\ d.kind = "put" /\ d.bySave = FALSE /\ d.state = "sent"
      /\ d.config = draft[p]
  BY DEF Put
<1>2. d \in Call
  BY DEF Put, Call
<1>3. QED
  BY <1>1, <1>2

\* A save whose page is gone is the same save, with nobody to tell.
LEMMA OrphanParts ==
    ASSUME NEW c \in Call, NEW d, d = [c EXCEPT !.page = Nobody]
    PROVE  /\ d \in Call
           /\ d.page = Nobody /\ d.kind = c.kind /\ d.state = c.state /\ d.config = c.config
<1> HIDE DEF Config
<1>1. c = [id |-> c.id, page |-> c.page, kind |-> c.kind, bySave |-> c.bySave,
           crossing |-> c.crossing, state |-> c.state, config |-> c.config,
           version |-> c.version]
  BY CallParts
<1>2. d = [id |-> c.id, page |-> Nobody, kind |-> c.kind, bySave |-> c.bySave,
           crossing |-> c.crossing, state |-> c.state, config |-> c.config,
           version |-> c.version]
  BY <1>1
<1>3. /\ d.page = Nobody /\ d.kind = c.kind /\ d.state = c.state /\ d.config = c.config
  BY <1>2
<1>4. d \in Call
  BY <1>2, CallParts DEF Call
<1>5. QED
  BY <1>3, <1>4

\* A configuration the server takes over joins its past, and changes none of it.
LEMMA PastGrows ==
    ASSUME past \in Seq(Config), past # <<>>, NEW x \in Config, past' = Append(past, x)
    PROVE  /\ past' \in Seq(Config) /\ past' # <<>>
           /\ Len(past) \in Nat /\ Len(past') = Len(past) + 1
           /\ Version = 1..Len(past) /\ Version' = 1..(Len(past) + 1)
           /\ \A i \in 1..Len(past) : past'[i] = past[i]
           /\ past'[Len(past) + 1] = x
<1> HIDE DEF Config
<1> QED
  BY DEF Version

\* The configuration in force is one of the server's past.
LEMMA PastHasOne ==
    ASSUME past \in Seq(Config), past # <<>>
    PROVE  /\ Len(past) \in Nat /\ Len(past) >= 1
           /\ Version = 1..Len(past) /\ InForce \in Config
           /\ InForce = past[Len(past)]
<1> HIDE DEF Config
<1> QED
  BY DEF Version, InForce

---------------------------------------------------------------------------
(* Steps *)

\* The first configuration, and no page.
LEMMA InvInit == Init => IInv
<1> SUFFICES ASSUME Init PROVE IInv
  OBVIOUS
<1>1. PICK f \in FirstConfigs : past = <<f>>
  BY DEF Init
<1>2. f \in Config
  <2>1. [on |-> TRUE, mark |-> 0] \in Value /\ [on |-> FALSE, mark |-> 0] \in Value
    BY DEF Value
  <2>2. QED
    BY <1>1, <2>1 DEF FirstConfigs, Config
<1>3. past \in Seq(Config) /\ past # <<>> /\ Len(past) = 1
  BY <1>1, <1>2
<1>4. TypeOK
  BY <1>3 DEF Init, TypeOK
<1>5. PutsCarry /\ AnswersHold /\ ClosedIsBlank /\ OneSave /\ LoadAlone /\ LoadsAreNew
  BY DEF Init, PutsCarry, AnswersHold, ClosedIsBlank, OneSave, LoadAlone, LoadsAreNew
<1>6. SavingIsStale /\ SentIsPast /\ CleanIsServed /\ OwnSaveShown /\ EditsKept
  BY <1>3 DEF Init, SavingIsStale, SentIsPast, CleanIsServed, OwnSaveShown, EditsKept, Clean, Usable
<1>7. QED
  BY <1>4, <1>5, <1>6 DEF IInv

\* A page goes, with all its requests but the saves that nobody hears of.
LEMMA GoneStep ==
    ASSUME IInv, NEW p \in Page, Gone(p), calls' \subseteq Orphaned(p),
           UNCHANGED <<past, edits, made>>
    PROVE  IInv'
<1> USE DEF IInv
<1>1. \A d \in calls' :
           \/ d \in calls /\ d.page # p
           \/ d \in Call /\ d.page = Nobody /\ d.kind = "put" /\ d.state = "sent" /\ d.config \in Config
  BY OrphanParts DEF TypeOK, PutsCarry, Orphaned, Of
<1>2. p # Nobody /\ Nobody \notin Page
  BY NobodyAssumption
<1>3. Len(past) \in Nat
  BY PastHasOne DEF TypeOK
<1>4. TypeOK'
  BY <1>1, <1>2 DEF TypeOK, Gone
<1>5. PutsCarry'
  BY <1>1, <1>2, <1>3 DEF PutsCarry, TypeOK, Gone
<1>6. AnswersHold'
  BY <1>1, <1>2, <1>3 DEF AnswersHold, TypeOK, Gone
<1>7. ClosedIsBlank'
  BY <1>1, <1>2, <1>3 DEF ClosedIsBlank, TypeOK, Gone
<1>8. OneSave'
  BY <1>1, <1>2, <1>3 DEF OneSave, Own, TypeOK, Gone
<1>9. LoadAlone'
  BY <1>1, <1>2, <1>3 DEF LoadAlone, Own, TypeOK, Gone
<1>10. SavingIsStale'
  BY <1>1, <1>2, <1>3 DEF SavingIsStale, TypeOK, Gone
<1>11. SentIsPast'
  BY <1>1, <1>2, <1>3 DEF SentIsPast, TypeOK, Gone
<1>12. LoadsAreNew'
  BY <1>1, <1>2, <1>3 DEF LoadsAreNew, Own, OneSave, LoadAlone, SentIsPast, AnswersHold, TypeOK, Gone
<1>13. CleanIsServed'
  BY <1>1, <1>2, <1>3 DEF CleanIsServed, Clean, Usable, Version, TypeOK, Gone
<1>14. OwnSaveShown'
  BY <1>1, <1>2, <1>3 DEF OwnSaveShown, Clean, Usable, TypeOK, Gone
<1>15. EditsKept'
  BY <1>1, <1>2, <1>3 DEF EditsKept, Of, TypeOK, Gone
<1>16. QED
  BY <1>4, <1>5, <1>6, <1>7, <1>8, <1>9, <1>10, <1>11, <1>12, <1>13, <1>14, <1>15

\* A section is set: the page is dirty.
LEMMA EditStep ==
    ASSUME IInv, NEW p \in Page, NEW s \in Section, NEW v \in Value, Edit(p, s, v)
    PROVE  IInv'
<1> USE DEF IInv
<1>1. draft[p] \in Config /\ [draft[p] EXCEPT ![s] = v] \in Config
  BY DEF TypeOK, Edit, Usable, Config
<1>2. draft' \in [Page -> Config \cup {Null}]
  BY <1>1 DEF TypeOK, Edit
<1>3. ~saving[p] => \A c \in calls : c.page = p => c.kind = "get" /\ c.crossing
  BY DEF Edit, Usable, LoadAlone, OneSave, Own, TypeOK, Call
<1>4. fresh'[p] => fresh[p] \/ ~saving[p]
  BY DEF Edit, TypeOK
<1>5. \A q \in Page : q # p => fresh'[q] = fresh[q]
  BY DEF Edit, TypeOK
<1>6. TypeOK'
  BY <1>2 DEF TypeOK, Edit
<1>7. PutsCarry'
  BY <1>3 DEF PutsCarry, TypeOK, Edit, Usable
<1>8. AnswersHold'
  BY <1>3 DEF AnswersHold, TypeOK, Edit, Usable
<1>9. ClosedIsBlank'
  BY <1>3 DEF ClosedIsBlank, TypeOK, Edit, Usable
<1>10. OneSave'
  BY <1>3 DEF OneSave, Own, TypeOK, Edit, Usable
<1>11. LoadAlone'
  BY <1>3 DEF LoadAlone, Own, TypeOK, Edit, Usable
<1>12. SavingIsStale'
  BY <1>3 DEF SavingIsStale, TypeOK, Edit, Usable
<1>13. SentIsPast'
  BY <1>3 DEF SentIsPast, TypeOK, Edit, Usable
<1>14. LoadsAreNew'
  BY <1>3 DEF LoadsAreNew, Own, OneSave, LoadAlone, SentIsPast, AnswersHold, TypeOK, Edit, Usable
<1>15. CleanIsServed'
  BY <1>3 DEF CleanIsServed, Clean, Usable, Version, TypeOK, Edit
<1>16. OwnSaveShown'
  BY <1>3 DEF OwnSaveShown, Clean, Usable, TypeOK, Edit
<1>17. EditsKept'
  BY <1>3, <1>4, <1>5 DEF EditsKept, Of, TypeOK, Edit, Usable
<1>18. QED
  BY <1>6, <1>7, <1>8, <1>9, <1>10, <1>11, <1>12, <1>13, <1>14, <1>15, <1>16, <1>17

\* A page is mounted and loads: it has no other request.
LEMMA OpenStep ==
    ASSUME IInv, NEW p \in Page, Open(p)
    PROVE  IInv'
<1> USE DEF IInv
<1>1. PICK d : d = Get(p, FALSE, FALSE)
  OBVIOUS
<1>2. d.page = p /\ d.kind = "get" /\ ~d.bySave /\ ~d.crossing /\ d.state = "sent"
  BY <1>1 DEF Get
<1>3. calls' = calls \cup {d}
  BY <1>1 DEF Open
<1>4. d \in Call
  BY <1>1 DEF Get, Call, TypeOK
<1>5. /\ open' \in [Page -> BOOLEAN] /\ loading' \in [Page -> BOOLEAN]
      /\ made' \in Nat
  BY DEF TypeOK, Open, UserCall, NewCall
<1>6. UNCHANGED <<past, draft, saving, dirty, error, edits, histVars>>
  BY DEF Open
<1>7. TypeOK'
  BY <1>3, <1>4, <1>5, <1>6 DEF TypeOK, histVars
<1>8. PutsCarry'
  BY <1>2, <1>3 DEF PutsCarry, TypeOK, Open, UserCall, NewCall, histVars
<1>9. AnswersHold'
  BY <1>2, <1>3 DEF AnswersHold, TypeOK, Open, UserCall, NewCall, histVars
<1>10. ClosedIsBlank'
  BY <1>2, <1>3 DEF ClosedIsBlank, TypeOK, Open, UserCall, NewCall, histVars
<1>11. OneSave'
  BY <1>2, <1>3 DEF OneSave, Own, TypeOK, Open, UserCall, NewCall, histVars
<1>12. LoadAlone'
  BY <1>2, <1>3 DEF LoadAlone, Own, TypeOK, Open, UserCall, NewCall, histVars, ClosedIsBlank
<1>13. SavingIsStale'
  BY <1>2, <1>3 DEF SavingIsStale, TypeOK, Open, UserCall, NewCall, histVars
<1>14. SentIsPast'
  BY <1>2, <1>3 DEF SentIsPast, TypeOK, Open, UserCall, NewCall, histVars
<1>15. LoadsAreNew'
  BY <1>2, <1>3 DEF LoadsAreNew, Own, OneSave, LoadAlone, SentIsPast, AnswersHold, TypeOK, Open, UserCall, NewCall, histVars
<1>16. CleanIsServed'
  BY <1>2, <1>3 DEF CleanIsServed, Clean, Usable, Version, TypeOK, Open, UserCall, NewCall, histVars
<1>17. OwnSaveShown'
  BY <1>2, <1>3 DEF OwnSaveShown, Clean, Usable, TypeOK, Open, UserCall, NewCall, histVars
<1>18. EditsKept'
  BY <1>2, <1>3, ZenonT(30) DEF EditsKept, Of, TypeOK, Open, UserCall, NewCall, histVars, ClosedIsBlank
<1>19. QED
  BY <1>7, <1>8, <1>9, <1>10, <1>11, <1>12, <1>13, <1>14, <1>15, <1>16, <1>17, <1>18

\* A reload that finds the page with another request under way is marked so.
LEMMA ReloadStep ==
    ASSUME IInv, NEW p \in Page, Reload(p)
    PROVE  IInv'
<1> USE DEF IInv
<1>1. PICK d : d = Get(p, FALSE, Of(p) # {})
  OBVIOUS
<1>2. d.page = p /\ d.kind = "get" /\ ~d.bySave /\ d.state = "sent"
  BY <1>1 DEF Get
<1>3. calls' = calls \cup {d}
  BY <1>1 DEF Reload
<1>4. ~d.crossing => \A c \in calls : c.page # p
  BY <1>1 DEF Get, Of
<1>5. d \in Call
  BY <1>1 DEF Get, Call, TypeOK
<1>6. /\ loading' \in [Page -> BOOLEAN] /\ fresh' \in [Page -> BOOLEAN]
      /\ made' \in Nat
  BY DEF TypeOK, Reload, UserCall, NewCall
<1>7. UNCHANGED <<past, open, draft, saving, dirty, error, edits, shown, crossed, sent>>
  BY DEF Reload
<1>8. TypeOK'
  BY <1>3, <1>5, <1>6, <1>7 DEF TypeOK
<1>9. PutsCarry'
  BY <1>2, <1>3, <1>4 DEF PutsCarry, TypeOK, Reload, UserCall, NewCall, Usable
<1>10. AnswersHold'
  BY <1>2, <1>3, <1>4 DEF AnswersHold, TypeOK, Reload, UserCall, NewCall, Usable
<1>11. ClosedIsBlank'
  BY <1>2, <1>3, <1>4 DEF ClosedIsBlank, TypeOK, Reload, UserCall, NewCall, Usable
<1>12. OneSave'
  BY <1>2, <1>3, <1>4 DEF OneSave, Own, TypeOK, Reload, UserCall, NewCall, Usable
<1>13. LoadAlone'
  BY <1>2, <1>3, <1>4 DEF LoadAlone, Own, TypeOK, Reload, UserCall, NewCall, Usable
<1>14. SavingIsStale'
  BY <1>2, <1>3, <1>4 DEF SavingIsStale, TypeOK, Reload, UserCall, NewCall, Usable
<1>15. SentIsPast'
  BY <1>2, <1>3, <1>4 DEF SentIsPast, TypeOK, Reload, UserCall, NewCall, Usable
<1>16. LoadsAreNew'
  BY <1>2, <1>3, <1>4 DEF LoadsAreNew, Own, OneSave, LoadAlone, SentIsPast, AnswersHold, TypeOK, Reload, UserCall, NewCall, Usable
<1>17. CleanIsServed'
  BY <1>2, <1>3, <1>4 DEF CleanIsServed, Clean, Usable, Version, TypeOK, Reload, UserCall, NewCall
<1>18. OwnSaveShown'
  BY <1>2, <1>3, <1>4 DEF OwnSaveShown, Clean, Usable, TypeOK, Reload, UserCall, NewCall
<1>19. EditsKept'
  BY <1>2, <1>3, <1>4 DEF EditsKept, Of, TypeOK, Reload, UserCall, NewCall, Usable
<1>20. QED
  BY <1>8, <1>9, <1>10, <1>11, <1>12, <1>13, <1>14, <1>15, <1>16, <1>17, <1>18, <1>19

\* A save is sent: no request of a save and no load with the page to itself is under way.
LEMMA SaveStep ==
    ASSUME IInv, NEW p \in Page, Save(p)
    PROVE  IInv'
<1> USE DEF IInv
<1>1. PICK d : d = Put(p)
  OBVIOUS
<1>2. draft[p] \in Config
  BY DEF TypeOK, Save, Usable
<1>3. /\ d \in Call
      /\ d.page = p /\ d.kind = "put" /\ ~d.bySave /\ d.state = "sent"
      /\ d.config \in Config
  BY <1>1, <1>2, PutParts DEF TypeOK
<1>4. calls' = calls \cup {d}
  BY <1>1 DEF Save
<1>5. TypeOK'
  BY <1>3, <1>4 DEF TypeOK, Save, UserCall, NewCall
<1>6. PutsCarry'
  BY <1>3, <1>4 DEF PutsCarry, TypeOK, Save, UserCall, NewCall, Usable
<1>7. AnswersHold'
  BY <1>3, <1>4 DEF AnswersHold, TypeOK, Save, UserCall, NewCall, Usable
<1>8. ClosedIsBlank'
  BY <1>3, <1>4 DEF ClosedIsBlank, TypeOK, Save, UserCall, NewCall, Usable
<1>9. OneSave'
  BY <1>3, <1>4 DEF OneSave, Own, TypeOK, Save, UserCall, NewCall, Usable
<1>10. LoadAlone'
  BY <1>3, <1>4 DEF LoadAlone, Own, TypeOK, Save, UserCall, NewCall, Usable, OneSave
<1>11. SavingIsStale'
  BY <1>3, <1>4 DEF SavingIsStale, TypeOK, Save, UserCall, NewCall, Usable
<1>12. SentIsPast'
  BY <1>3, <1>4 DEF SentIsPast, TypeOK, Save, UserCall, NewCall, Usable
<1>13. LoadsAreNew'
  BY <1>3, <1>4 DEF LoadsAreNew, Own, OneSave, LoadAlone, SentIsPast, AnswersHold, TypeOK, Save, UserCall, NewCall, Usable
<1>14. CleanIsServed'
  BY <1>3, <1>4 DEF CleanIsServed, Clean, Usable, Version, TypeOK, Save, UserCall, NewCall
<1>15. OwnSaveShown'
  BY <1>3, <1>4 DEF OwnSaveShown, Clean, Usable, TypeOK, Save, UserCall, NewCall
<1>16. EditsKept'
  BY <1>3, <1>4 DEF EditsKept, Of, TypeOK, Save, UserCall, NewCall, Usable
<1>17. QED
  BY <1>5, <1>6, <1>7, <1>8, <1>9, <1>10, <1>11, <1>12, <1>13, <1>14, <1>15, <1>16

\* A load is answered with the configuration in force.
LEMMA ServeGetStep ==
    ASSUME IInv, NEW c \in calls, ServeGet(c)
    PROVE  IInv'
<1> USE DEF IInv
<1>1. PICK d : d = Served(c, "done", InForce, Len(past))
  OBVIOUS
<1>2. Len(past) \in Nat /\ Len(past) >= 1 /\ InForce \in Config /\ InForce = past[Len(past)]
  BY PastHasOne DEF TypeOK
<1>3. c \in Call /\ c.kind = "get"
  BY DEF TypeOK, ServeGet
<1>4. /\ d.page = c.page /\ d.kind = "get" /\ d.bySave = c.bySave
      /\ d.crossing = c.crossing /\ d.state = "done"
      /\ d.config = InForce /\ d.version = Len(past)
  BY <1>1, <1>3 DEF Served
<1>5. calls' = (calls \ {c}) \cup {d}
  BY <1>1 DEF ServeGet
<1>6. d \in Call
  BY <1>1, <1>2, <1>3, CallParts DEF Served, Call
<1>7. Own(d) <=> Own(c)
  BY <1>3, <1>4 DEF Own
<1>8. \A e \in calls : (Own(e))' = Own(e)
  BY DEF Own
<1>9. TypeOK'
  BY <1>5, <1>6 DEF TypeOK, ServeGet, pageVars, histVars
<1>10. PutsCarry'
  BY <1>2, <1>3, <1>4, <1>5 DEF PutsCarry, TypeOK, ServeGet, pageVars, histVars
<1>11. AnswersHold'
  BY <1>2, <1>3, <1>4, <1>5 DEF AnswersHold, TypeOK, ServeGet, pageVars, histVars
<1>12. ClosedIsBlank'
  BY <1>2, <1>3, <1>4, <1>5 DEF ClosedIsBlank, TypeOK, ServeGet, pageVars, histVars
<1>13. OneSave'
  BY <1>2, <1>3, <1>4, <1>5 DEF OneSave, Own, TypeOK, ServeGet, pageVars, histVars
<1>14. LoadAlone'
  BY <1>2, <1>3, <1>4, <1>5 DEF LoadAlone, Own, TypeOK, ServeGet, pageVars, histVars
<1>15. SavingIsStale'
  BY <1>2, <1>3, <1>4, <1>5 DEF SavingIsStale, TypeOK, ServeGet, pageVars, histVars
<1>16. SentIsPast'
  BY <1>2, <1>3, <1>4, <1>5 DEF SentIsPast, TypeOK, ServeGet, pageVars, histVars
<1>17. LoadsAreNew'
  BY <1>2, <1>3, <1>4, <1>5 DEF LoadsAreNew, Own, OneSave, LoadAlone, SentIsPast, AnswersHold, TypeOK, ServeGet, pageVars, histVars
<1>18. CleanIsServed'
  BY <1>2, <1>3, <1>4, <1>5 DEF CleanIsServed, Clean, Usable, Version, TypeOK, ServeGet, pageVars, histVars
<1>19. OwnSaveShown'
  BY <1>2, <1>3, <1>4, <1>5 DEF OwnSaveShown, Clean, Usable, TypeOK, ServeGet, pageVars, histVars
<1>20. EditsKept'
  BY <1>2, <1>3, <1>4, <1>5 DEF EditsKept, Of, TypeOK, ServeGet, pageVars, histVars
<1>21. QED
  BY <1>9, <1>10, <1>11, <1>12, <1>13, <1>14, <1>15, <1>16, <1>17, <1>18, <1>19, <1>20

\* A save is taken over.
LEMMA TakenStep ==
    ASSUME IInv, NEW c \in calls, c.kind = "put", past' = Append(past, c.config),
           calls' = (calls \ {c}) \cup {Served(c, "done", c.config, Len(past) + 1)},
           UNCHANGED <<pageVars, edits, made, histVars>>
    PROVE  IInv'
<1> USE DEF IInv
<1>1. PICK d : d = Served(c, "done", c.config, Len(past) + 1)
  OBVIOUS
<1>2. c \in Call /\ c.config \in Config
  BY DEF TypeOK, PutsCarry
<1>3. /\ past' \in Seq(Config) /\ past' # <<>>
      /\ Len(past) \in Nat /\ Len(past') = Len(past) + 1
      /\ Version = 1..Len(past) /\ Version' = 1..(Len(past) + 1)
      /\ \A i \in 1..Len(past) : past'[i] = past[i]
  BY <1>2, PastGrows DEF TypeOK
<1>4. /\ d.page = c.page /\ d.kind = "put" /\ d.bySave = c.bySave
      /\ d.crossing = c.crossing /\ d.state = "done"
      /\ d.config = c.config /\ d.version = Len(past) + 1
  BY <1>1 DEF Served
<1>5. calls' = (calls \ {c}) \cup {d}
  BY <1>1
<1>6. d \in Call
  BY <1>1, <1>2, <1>3, CallParts DEF Served, Call
<1>7. TypeOK'
  BY <1>3, <1>5, <1>6 DEF TypeOK, pageVars, histVars
<1>8. PutsCarry'
  BY <1>2, <1>3, <1>4, <1>5 DEF PutsCarry, TypeOK, pageVars, histVars
<1>9. AnswersHold'
  BY <1>2, <1>3, <1>4, <1>5 DEF AnswersHold, TypeOK, pageVars, histVars
<1>10. ClosedIsBlank'
  BY <1>2, <1>3, <1>4, <1>5 DEF ClosedIsBlank, TypeOK, pageVars, histVars
<1>11. OneSave'
  BY <1>2, <1>3, <1>4, <1>5 DEF OneSave, Own, TypeOK, pageVars, histVars
<1>12. LoadAlone'
  BY <1>2, <1>3, <1>4, <1>5 DEF LoadAlone, Own, TypeOK, pageVars, histVars
<1>13. SavingIsStale'
  BY <1>2, <1>3, <1>4, <1>5 DEF SavingIsStale, TypeOK, pageVars, histVars
<1>14. SentIsPast'
  BY <1>2, <1>3, <1>4, <1>5 DEF SentIsPast, TypeOK, pageVars, histVars
<1>15. LoadsAreNew'
  BY <1>2, <1>3, <1>4, <1>5 DEF LoadsAreNew, Own, OneSave, LoadAlone, SentIsPast, AnswersHold, TypeOK, pageVars, histVars
<1>16. CleanIsServed'
  BY <1>2, <1>3, <1>4, <1>5 DEF CleanIsServed, Clean, Usable, Version, TypeOK, pageVars, histVars
<1>17. OwnSaveShown'
  BY <1>2, <1>3, <1>4, <1>5 DEF OwnSaveShown, Clean, Usable, TypeOK, pageVars, histVars
<1>18. EditsKept'
  BY <1>2, <1>3, <1>4, <1>5 DEF EditsKept, Of, TypeOK, pageVars, histVars
<1>19. QED
  BY <1>7, <1>8, <1>9, <1>10, <1>11, <1>12, <1>13, <1>14, <1>15, <1>16, <1>17, <1>18

\* A save is refused.
LEMMA RefusedStep ==
    ASSUME IInv, NEW c \in calls, c.kind = "put",
           calls' = (calls \ {c}) \cup {Served(c, "refused", c.config, 0)},
           UNCHANGED <<past, pageVars, edits, made, histVars>>
    PROVE  IInv'
<1> USE DEF IInv
<1>1. PICK d : d = Served(c, "refused", c.config, 0)
  OBVIOUS
<1>2. c \in Call /\ c.config \in Config
  BY DEF TypeOK, PutsCarry
<1>3. /\ d.page = c.page /\ d.kind = "put" /\ d.bySave = c.bySave
      /\ d.crossing = c.crossing /\ d.state = "refused"
      /\ d.config = c.config /\ d.version = 0
  BY <1>1 DEF Served
<1>4. calls' = (calls \ {c}) \cup {d}
  BY <1>1
<1>5. d \in Call
  BY <1>1, <1>2, CallParts DEF Served, Call
<1>6. TypeOK'
  BY <1>4, <1>5 DEF TypeOK, pageVars, histVars
<1>7. PutsCarry'
  BY <1>2, <1>3, <1>4 DEF PutsCarry, TypeOK, pageVars, histVars
<1>8. AnswersHold'
  BY <1>2, <1>3, <1>4 DEF AnswersHold, TypeOK, pageVars, histVars
<1>9. ClosedIsBlank'
  BY <1>2, <1>3, <1>4 DEF ClosedIsBlank, TypeOK, pageVars, histVars
<1>10. OneSave'
  BY <1>2, <1>3, <1>4 DEF OneSave, Own, TypeOK, pageVars, histVars
<1>11. LoadAlone'
  BY <1>2, <1>3, <1>4 DEF LoadAlone, Own, TypeOK, pageVars, histVars
<1>12. SavingIsStale'
  BY <1>2, <1>3, <1>4 DEF SavingIsStale, TypeOK, pageVars, histVars
<1>13. SentIsPast'
  BY <1>2, <1>3, <1>4 DEF SentIsPast, TypeOK, pageVars, histVars
<1>14. LoadsAreNew'
  BY <1>2, <1>3, <1>4 DEF LoadsAreNew, Own, OneSave, LoadAlone, SentIsPast, AnswersHold, TypeOK, pageVars, histVars
<1>15. CleanIsServed'
  BY <1>2, <1>3, <1>4 DEF CleanIsServed, Clean, Usable, Version, TypeOK, pageVars, histVars
<1>16. OwnSaveShown'
  BY <1>2, <1>3, <1>4 DEF OwnSaveShown, Clean, Usable, TypeOK, pageVars, histVars
<1>17. EditsKept'
  BY <1>2, <1>3, <1>4 DEF EditsKept, Of, TypeOK, pageVars, histVars
<1>18. QED
  BY <1>6, <1>7, <1>8, <1>9, <1>10, <1>11, <1>12, <1>13, <1>14, <1>15, <1>16, <1>17

\* The draft is replaced by an answer.
LEMMA LoadedStep ==
    ASSUME IInv, NEW c \in calls, Loaded(c)
    PROVE  IInv'
<1> USE DEF IInv
<1>1. c \in Call /\ c.page \in Page
  BY CallParts DEF TypeOK, Loaded
<1>2. c.config \in Config \cup {Null} /\ c.version \in Nat /\ c.crossing \in BOOLEAN
  BY <1>1, CallParts
<1>3. Len(past) \in Nat /\ Version = 1..Len(past)
  BY PastHasOne DEF TypeOK
<1>4. TypeOK'
  BY <1>1, <1>2 DEF TypeOK, Loaded, LoadEnds
<1>5. PutsCarry'
  BY <1>1, <1>2, <1>3 DEF PutsCarry, TypeOK, Loaded, LoadEnds
<1>6. AnswersHold'
  BY <1>1, <1>2, <1>3 DEF AnswersHold, TypeOK, Loaded, LoadEnds
<1>7. ClosedIsBlank'
  BY <1>1, <1>2, <1>3 DEF ClosedIsBlank, TypeOK, Loaded, LoadEnds
<1>8. OneSave'
  BY <1>1, <1>2, <1>3 DEF OneSave, Own, TypeOK, Loaded, LoadEnds
<1>9. LoadAlone'
  BY <1>1, <1>2, <1>3 DEF LoadAlone, Own, TypeOK, Loaded, LoadEnds
<1>10. SavingIsStale'
  BY <1>1, <1>2, <1>3 DEF SavingIsStale, TypeOK, Loaded, LoadEnds
<1>11. SentIsPast'
  BY <1>1, <1>2, <1>3 DEF SentIsPast, TypeOK, Loaded, LoadEnds
<1>12. LoadsAreNew'
  BY <1>1, <1>2, <1>3 DEF LoadsAreNew, Own, OneSave, LoadAlone, SentIsPast, AnswersHold, TypeOK, Loaded, LoadEnds
<1>13. CleanIsServed'
  BY <1>1, <1>2, <1>3 DEF CleanIsServed, Clean, Usable, Version, TypeOK, Loaded, LoadEnds, AnswersHold
<1>14. OwnSaveShown'
  BY <1>1, <1>2, <1>3 DEF OwnSaveShown, Clean, Usable, TypeOK, Loaded, LoadEnds, LoadsAreNew
<1>15. EditsKept'
  BY <1>1, <1>2, <1>3 DEF EditsKept, Of, TypeOK, Loaded, LoadEnds
<1>16. QED
  BY <1>4, <1>5, <1>6, <1>7, <1>8, <1>9, <1>10, <1>11, <1>12, <1>13, <1>14, <1>15

\* A load fails: the page has an error.
LEMMA LoadFailsStep ==
    ASSUME IInv, NEW c \in calls, LoadFails(c)
    PROVE  IInv'
<1> USE DEF IInv
<1>1. c \in Call /\ c.page \in Page
  BY CallParts DEF TypeOK, LoadFails
<1>2. TypeOK'
  BY <1>1 DEF TypeOK, LoadFails, LoadEnds
<1>3. PutsCarry'
  BY <1>1 DEF PutsCarry, TypeOK, LoadFails, LoadEnds
<1>4. AnswersHold'
  BY <1>1 DEF AnswersHold, TypeOK, LoadFails, LoadEnds
<1>5. ClosedIsBlank'
  BY <1>1 DEF ClosedIsBlank, TypeOK, LoadFails, LoadEnds
<1>6. OneSave'
  BY <1>1 DEF OneSave, Own, TypeOK, LoadFails, LoadEnds
<1>7. LoadAlone'
  BY <1>1 DEF LoadAlone, Own, TypeOK, LoadFails, LoadEnds
<1>8. SavingIsStale'
  BY <1>1 DEF SavingIsStale, TypeOK, LoadFails, LoadEnds
<1>9. SentIsPast'
  BY <1>1 DEF SentIsPast, TypeOK, LoadFails, LoadEnds
<1>10. LoadsAreNew'
  BY <1>1 DEF LoadsAreNew, Own, OneSave, LoadAlone, SentIsPast, AnswersHold, TypeOK, LoadFails, LoadEnds
<1>11. CleanIsServed'
  BY <1>1 DEF CleanIsServed, Clean, Usable, Version, TypeOK, LoadFails, LoadEnds
<1>12. OwnSaveShown'
  BY <1>1 DEF OwnSaveShown, Clean, Usable, TypeOK, LoadFails, LoadEnds
<1>13. EditsKept'
  BY <1>1 DEF EditsKept, Of, TypeOK, LoadFails, LoadEnds
<1>14. QED
  BY <1>2, <1>3, <1>4, <1>5, <1>6, <1>7, <1>8, <1>9, <1>10, <1>11, <1>12, <1>13

\* A save is answered: no load that could end the spinner is under way but those that cross it.
LEMMA SavedStep ==
    ASSUME IInv, NEW c \in calls, Saved(c)
    PROVE  IInv'
<1> USE DEF IInv
<1>1. c \in Call /\ c.page \in Page
  BY CallParts DEF TypeOK, Saved
<1>2. PICK d : d = Get(c.page, TRUE, FALSE)
  OBVIOUS
<1>3. d.page = c.page /\ d.kind = "get" /\ d.bySave /\ ~d.crossing /\ d.state = "sent"
  BY <1>2 DEF Get
<1>4. calls' = (calls \ {c}) \cup {d}
  BY <1>2 DEF Saved
<1>5. c.version \in 1..Len(past) /\ Len(past) \in Nat
  BY PastHasOne DEF TypeOK, AnswersHold, Saved
<1>6. saving[c.page] /\ ~fresh[c.page]
  BY <1>1 DEF OneSave, Own, Saved, SavingIsStale
<1>7. \A e \in calls : e.page = c.page /\ e # c => ~Own(e) /\ e.crossing
  BY <1>1 DEF OneSave, LoadAlone, Own, Saved, TypeOK, Call
<1>8. d \in Call
  BY <1>1, <1>2 DEF Get, Call, TypeOK
<1>9. /\ dirty' \in [Page -> BOOLEAN] /\ loading' \in [Page -> BOOLEAN]
      /\ sent' \in [Page -> Nat] /\ made' \in Nat
  BY <1>1, <1>5 DEF TypeOK, Saved, NewCall
<1>10. UNCHANGED <<past, open, draft, saving, error, edits, shown, crossed, fresh>>
  BY DEF Saved
<1>11. open[c.page]
  BY <1>1 DEF ClosedIsBlank
<1>12. TypeOK'
  BY <1>4, <1>8, <1>9, <1>10 DEF TypeOK
<1>13. PutsCarry'
  BY <1>1, <1>3, <1>4, <1>5, <1>6, <1>7 DEF PutsCarry, TypeOK, Saved, NewCall
<1>14. AnswersHold'
  BY <1>1, <1>3, <1>4, <1>5, <1>6, <1>7 DEF AnswersHold, TypeOK, Saved, NewCall
<1>15. ClosedIsBlank'
  BY <1>1, <1>3, <1>4, <1>10, <1>11 DEF ClosedIsBlank
<1>16. OneSave'
  BY <1>1, <1>3, <1>4, <1>5, <1>6, <1>7 DEF OneSave, Own, TypeOK, Saved, NewCall
<1>17. LoadAlone'
  BY <1>1, <1>3, <1>4, <1>5, <1>6, <1>7 DEF LoadAlone, Own, TypeOK, Saved, NewCall
<1>18. SavingIsStale'
  BY <1>1, <1>3, <1>4, <1>5, <1>6, <1>7 DEF SavingIsStale, TypeOK, Saved, NewCall
<1>19. SentIsPast'
  BY <1>1, <1>3, <1>4, <1>5, <1>6, <1>7 DEF SentIsPast, TypeOK, Saved, NewCall
<1>20. LoadsAreNew'
  BY <1>1, <1>3, <1>4, <1>5, <1>6, <1>7 DEF LoadsAreNew, Own, OneSave, LoadAlone, SentIsPast, AnswersHold, TypeOK, Saved, NewCall
<1>21. CleanIsServed'
  BY <1>1, <1>3, <1>4, <1>5, <1>6, <1>7 DEF CleanIsServed, Clean, Usable, Version, TypeOK, Saved, NewCall
<1>22. OwnSaveShown'
  BY <1>1, <1>3, <1>4, <1>5, <1>6, <1>7 DEF OwnSaveShown, Clean, Usable, TypeOK, Saved, NewCall
<1>23. EditsKept'
  BY <1>1, <1>3, <1>4, <1>5, <1>6, <1>7 DEF EditsKept, Of, TypeOK, Saved, NewCall
<1>24. QED
  BY <1>12, <1>13, <1>14, <1>15, <1>16, <1>17, <1>18, <1>19, <1>20, <1>21, <1>22, <1>23

\* A save is refused or lost.
LEMMA SaveFailsStep ==
    ASSUME IInv, NEW c \in calls, SaveFails(c)
    PROVE  IInv'
<1> USE DEF IInv
<1>1. c \in Call /\ c.page \in Page
  BY CallParts DEF TypeOK, SaveFails
<1>2. TypeOK'
  BY <1>1 DEF TypeOK, SaveFails, histVars
<1>3. PutsCarry'
  BY <1>1 DEF PutsCarry, TypeOK, SaveFails, histVars
<1>4. AnswersHold'
  BY <1>1 DEF AnswersHold, TypeOK, SaveFails, histVars
<1>5. ClosedIsBlank'
  BY <1>1 DEF ClosedIsBlank, TypeOK, SaveFails, histVars
<1>6. OneSave'
  BY <1>1 DEF OneSave, Own, TypeOK, SaveFails, histVars
<1>7. LoadAlone'
  BY <1>1 DEF LoadAlone, Own, TypeOK, SaveFails, histVars
<1>8. SavingIsStale'
  BY <1>1 DEF SavingIsStale, TypeOK, SaveFails, histVars
<1>9. SentIsPast'
  BY <1>1 DEF SentIsPast, TypeOK, SaveFails, histVars
<1>10. LoadsAreNew'
  BY <1>1 DEF LoadsAreNew, Own, OneSave, LoadAlone, SentIsPast, AnswersHold, TypeOK, SaveFails, histVars
<1>11. CleanIsServed'
  BY <1>1 DEF CleanIsServed, Clean, Usable, Version, TypeOK, SaveFails, histVars
<1>12. OwnSaveShown'
  BY <1>1 DEF OwnSaveShown, Clean, Usable, TypeOK, SaveFails, histVars
<1>13. EditsKept'
  BY <1>1 DEF EditsKept, Of, TypeOK, SaveFails, histVars
<1>14. QED
  BY <1>2, <1>3, <1>4, <1>5, <1>6, <1>7, <1>8, <1>9, <1>10, <1>11, <1>12, <1>13

\* Nobody hears the answer.
LEMMA UnheardStep ==
    ASSUME IInv, NEW c \in calls, Unheard(c)
    PROVE  IInv'
<1> USE DEF IInv
<1>1. TypeOK'
  BY DEF TypeOK, Unheard, pageVars, histVars
<1>2. PutsCarry'
  BY DEF PutsCarry, TypeOK, Unheard, pageVars, histVars
<1>3. AnswersHold'
  BY DEF AnswersHold, TypeOK, Unheard, pageVars, histVars
<1>4. ClosedIsBlank'
  BY DEF ClosedIsBlank, TypeOK, Unheard, pageVars, histVars
<1>5. OneSave'
  BY DEF OneSave, Own, TypeOK, Unheard, pageVars, histVars
<1>6. LoadAlone'
  BY DEF LoadAlone, Own, TypeOK, Unheard, pageVars, histVars
<1>7. SavingIsStale'
  BY DEF SavingIsStale, TypeOK, Unheard, pageVars, histVars
<1>8. SentIsPast'
  BY DEF SentIsPast, TypeOK, Unheard, pageVars, histVars
<1>9. LoadsAreNew'
  BY DEF LoadsAreNew, Own, OneSave, LoadAlone, SentIsPast, AnswersHold, TypeOK, Unheard, pageVars, histVars
<1>10. CleanIsServed'
  BY DEF CleanIsServed, Clean, Usable, Version, TypeOK, Unheard, pageVars, histVars
<1>11. OwnSaveShown'
  BY DEF OwnSaveShown, Clean, Usable, TypeOK, Unheard, pageVars, histVars
<1>12. EditsKept'
  BY DEF EditsKept, Of, TypeOK, Unheard, pageVars, histVars
<1>13. QED
  BY <1>1, <1>2, <1>3, <1>4, <1>5, <1>6, <1>7, <1>8, <1>9, <1>10, <1>11, <1>12

\* Nothing changes.
LEMMA StutterStep ==
    ASSUME IInv, UNCHANGED vars
    PROVE  IInv'
<1> USE DEF IInv
<1>1. TypeOK'
  BY DEF TypeOK, vars, pageVars, histVars
<1>2. PutsCarry'
  BY DEF PutsCarry, TypeOK, vars, pageVars, histVars
<1>3. AnswersHold'
  BY DEF AnswersHold, TypeOK, vars, pageVars, histVars
<1>4. ClosedIsBlank'
  BY DEF ClosedIsBlank, TypeOK, vars, pageVars, histVars
<1>5. OneSave'
  BY DEF OneSave, Own, TypeOK, vars, pageVars, histVars
<1>6. LoadAlone'
  BY DEF LoadAlone, Own, TypeOK, vars, pageVars, histVars
<1>7. SavingIsStale'
  BY DEF SavingIsStale, TypeOK, vars, pageVars, histVars
<1>8. SentIsPast'
  BY DEF SentIsPast, TypeOK, vars, pageVars, histVars
<1>9. LoadsAreNew'
  BY DEF LoadsAreNew, Own, OneSave, LoadAlone, SentIsPast, AnswersHold, TypeOK, vars, pageVars, histVars
<1>10. CleanIsServed'
  BY DEF CleanIsServed, Clean, Usable, Version, TypeOK, vars, pageVars, histVars
<1>11. OwnSaveShown'
  BY DEF OwnSaveShown, Clean, Usable, TypeOK, vars, pageVars, histVars
<1>12. EditsKept'
  BY DEF EditsKept, Of, TypeOK, vars, pageVars, histVars
<1>13. QED
  BY <1>1, <1>2, <1>3, <1>4, <1>5, <1>6, <1>7, <1>8, <1>9, <1>10, <1>11, <1>12

---------------------------------------------------------------------------
(* Theorems *)

\* Whatever a user, the server or the network does keeps the invariant.
LEMMA InvStep == IInv /\ [Next]_vars => IInv'
<1> SUFFICES ASSUME IInv, [Next]_vars PROVE IInv'
  OBVIOUS
<1>1. ASSUME NEW p \in Page, User(p) PROVE IInv'
  <2>1. CASE Open(p)
    BY <2>1, OpenStep
  <2>2. CASE Leave(p)
    BY <2>2, GoneStep DEF Leave
  <2>3. ASSUME NEW s \in Section, EditField(p, s) PROVE IInv'
    <3>1. [draft[p][s] EXCEPT !.mark = edits + 1] \in Value
      BY <2>3 DEF EditField, Usable, IInv, TypeOK, Config, Value
    <3>2. QED
      BY <2>3, <3>1, EditStep DEF EditField
  <2>4. ASSUME NEW s \in Optional, Toggle(p, s) PROVE IInv'
    <3>1. s \in Section
      BY SectionAssumption
    <3> DEFINE section == IF draft[p][s] = Null THEN [on |-> FALSE, mark |-> 0] ELSE draft[p][s]
    <3>2. section \in Value
      BY <2>4, <3>1 DEF Toggle, Usable, IInv, TypeOK, Config, Value
    <3>3. [section EXCEPT !.on = ~@] \in Value
      BY <3>2 DEF Value
    <3>4. Edit(p, s, [section EXCEPT !.on = ~@])
      BY <2>4 DEF Toggle
    <3>5. QED
      BY <3>1, <3>3, <3>4, EditStep
  <2>5. CASE Reload(p)
    BY <2>5, ReloadStep
  <2>6. CASE Save(p)
    BY <2>6, SaveStep
  <2>7. QED
    BY <1>1, <2>1, <2>2, <2>3, <2>4, <2>5, <2>6 DEF User
<1>2. ASSUME NEW c \in calls, Serve(c) PROVE IInv'
  <2>1. CASE ServeGet(c)
    BY <2>1, ServeGetStep
  <2>2. CASE ServePut(c)
    BY <2>2, TakenStep, RefusedStep DEF ServePut
  <2>3. QED
    BY <1>2, <2>1, <2>2 DEF Serve
<1>3. ASSUME NEW c \in calls, Answer(c) PROVE IInv'
  BY <1>3, LoadedStep, LoadFailsStep, SavedStep, SaveFailsStep, UnheardStep DEF Answer
<1>4. ASSUME NEW c \in calls, Unauthorized(c) PROVE IInv'
  <2>1. c.page \in Page
    BY <1>4, CallParts DEF Unauthorized, IInv, TypeOK
  <2>2. QED
    BY <1>4, <2>1, GoneStep DEF Unauthorized
<1>5. CASE UNCHANGED vars
  BY <1>5, StutterStep
<1>6. QED
  BY <1>1, <1>2, <1>3, <1>4, <1>5 DEF Next

\* The inductive invariant holds of every execution of the panel and its server.
THEOREM Invariance == Spec => []IInv
<1>1. IInv /\ [Next]_vars => IInv'
  BY InvStep
<1>2. QED
  BY <1>1, InvInit, PTL DEF Spec

\* Drafts, loads and the server's configurations have every field of every
\* section, or no section at all, whichever tab edited them.
THEOREM TypeCorrect == Spec => []TypeOK
<1>1. IInv => TypeOK
  BY DEF IInv
<1>2. QED
  BY <1>1, Invariance, PTL

\* A page without unsaved edits and without an error shows a configuration that
\* was in force: load and save never leave it clean with a draft nobody saved.
THEOREM CleanPagesAreServed == Spec => []CleanIsServed
<1>1. IInv => CleanIsServed
  BY DEF IInv
<1>2. QED
  BY <1>1, Invariance, PTL

\* After a save a page shows that save or what came after it, but for reloads the
\* user crossed it with.
THEOREM OwnSavesAreShown == Spec => []OwnSaveShown
<1>1. IInv => OwnSaveShown
  BY DEF IInv
<1>2. QED
  BY <1>1, Invariance, PTL

\* No load from before an edit overwrites it, but for reloads the user crossed.
THEOREM EditsAreKept == Spec => []EditsKept
<1>1. IInv => EditsKept
  BY DEF IInv
<1>2. QED
  BY <1>1, Invariance, PTL
=============================================================================
