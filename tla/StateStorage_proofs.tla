------------------------- MODULE StateStorage_proofs -------------------------
(***************************************************************************)
(* The state storages, for any operators, clusters, keys, kinds of storage *)
(* and bounds: type correctness, what is shown and used, what a file may   *)
(* lose, and that every storage implements StateRegister.                  *)
(***************************************************************************)
EXTENDS StateStorage, TLAPS

USE StorageAssumption

(* What a query may return is a state that was saved, or that there is none. *)
LEMMA LatestType ==
  ASSUME TypeOK, NEW c \in Named
  PROVE  /\ Found(c) \subseteq saved
         /\ Latest(c) \subseteq State \cup {NoState}
         /\ Latest(c) # {}
         /\ \A s \in Latest(c) : Resources(s) \in SUBSET Keys /\ Serial(s) \in Nat
<1>1. Found(c) \subseteq saved
  BY DEF TypeOK, AllKinds, Found, FoundInFile, FoundInTable, Newest, Rows, FoundInS3, FoundInOSS,
         FoundAtURL
<1>2. Latest(c) \subseteq State \cup {NoState} /\ Latest(c) # {}
  BY <1>1 DEF TypeOK, Latest
<1>3. \A s \in Latest(c) : Resources(s) \in SUBSET Keys /\ Serial(s) \in Nat
  BY <1>2 DEF Resources, Serial, State
<1> QED BY <1>1, <1>2, <1>3

(* A command starts with an empty session. *)
LEMMA IdleType == Idle \in Session
BY DEF Idle, Session, Named

(* A save is a state. *)
LEMMA SavedType ==
  ASSUME NEW s \in Session, NEW t \in Nat
  PROVE  /\ Saved(s, t) \in State
         /\ Saved(s, t).cluster = s.cluster
         /\ Saved(s, t).serial = s.serial
         /\ Saved(s, t).resources = s.index
         /\ Saved(s, t).created = t
BY DEF Saved, Session, State

(* What a place has beside the state it is given. *)
LEMMA KeptType ==
  ASSUME TypeOK, NEW c \in Named
  PROVE  /\ Kept(c) \subseteq saved
         /\ kind = "http" => \A s \in Kept(c) : s.cluster # c
         /\ kind \notin {"db", "http"} => Kept(c) = {}
BY DEF TypeOK, AllKinds, Kept, KeptByTable, KeptByURL

(* Putting a state leaves the place as it must be. *)
LEMMA PutType ==
  ASSUME TypeOK, NEW new \in State, Put(new)
  PROVE  /\ saved' \subseteq State
         /\ saved' # {}
         /\ kind # "db" =>
              \A s, t \in saved' : s = t \/ (kind = "http" /\ s.cluster # t.cluster)
<1>1. new.cluster \in Named
  BY DEF State
<1>2. saved' = Kept(new.cluster) \cup {new}
  BY DEF Put
<1>3. Kept(new.cluster) \subseteq saved
  BY <1>1, KeptType
<1>4. saved' \subseteq State /\ saved' # {}
  BY <1>2, <1>3 DEF TypeOK
<1>5. ASSUME kind # "db", NEW s \in saved', NEW t \in saved'
      PROVE  s = t \/ (kind = "http" /\ s.cluster # t.cluster)
  <2>1. CASE kind # "http"
    BY <1>1, <1>2, <1>5, <2>1, KeptType
  <2>2. CASE kind = "http"
    BY <1>1, <1>2, <1>3, <1>5, <2>2, KeptType DEF TypeOK
  <2> QED BY <2>1, <2>2
<1> QED BY <1>4, <1>5

(* The types hold at the start. *)
LEMMA TypeInit == Init => TypeOK
<1> SUFFICES ASSUME Init PROVE TypeOK
  OBVIOUS
<1>1. session \in [Operators -> Session] /\ pc \in [Operators -> Labels]
  BY IdleType DEF Init, Labels
<1>2. commands \in 0..MaxCommands /\ lost \in 0..MaxLost
  BY DEF Init
<1> QED BY <1>1, <1>2 DEF Init, TypeOK

(* A write that is cut off leaves a file, whole if it was. *)
LEMMA CutOffType ==
  ASSUME TypeOK, NEW o \in Operators, CutOff(o)
  PROVE  /\ UNCHANGED <<kind, saved, births>>
         /\ file' \in {"empty", "whole", "garbled"}
         /\ file' = "whole" => file = "whole"
         /\ cut' \in BOOLEAN
BY DEF CutOff, TypeOK

(* Every step of a command keeps them. *)
LEMMA TypeStep ==
  ASSUME TypeOK, NEW o \in Operators, Step(o)
  PROVE  TypeOK'
<1>0. session[o] \in Session /\ session[o].cluster \in Named /\ session[o].spec \in SUBSET Keys
  BY DEF TypeOK, Session
<1>t. CreateTime(o) \in Nat
  <2>1. session[o].created \in Nat /\ births \in Nat
    BY <1>0 DEF Session, TypeOK
  <2> QED BY <2>1 DEF CreateTime
<1>1. ASSUME NEW c \in Named, NEW spec \in SUBSET Keys, Preview(o, c, spec) PROVE TypeOK'
  <2>1. PICK state \in Latest(c) : session' = [session EXCEPT ![o] =
            [Idle EXCEPT !.cluster = c, !.spec = spec, !.seen = Resources(state)]]
    BY <1>1 DEF Preview
  <2>2. [Idle EXCEPT !.cluster = c, !.spec = spec, !.seen = Resources(state)] \in Session
    BY IdleType, LatestType DEF Session
  <2>3. session' \in [Operators -> Session]
    BY <2>1, <2>2 DEF TypeOK
  <2>4. commands' \in 0..MaxCommands
    BY <1>1 DEF Preview, TypeOK
  <2> QED BY <1>1, <2>3, <2>4 DEF Preview, Goto, Unsaved, TypeOK, Labels
<1>2. CASE Cancel(o)
  BY <1>2, IdleType DEF Cancel, End, Goto, Unsaved, TypeOK, Labels
<1>3. CASE InitStates(o)
  <2>1. PICK state \in Latest(session[o].cluster) : session' = [session EXCEPT
         ![o].prior = Resources(state),
         ![o].index = Resources(state),
         ![o].left = Resources(state) \cup session[o].spec,
         ![o].serial = Serial(state)]
    BY <1>3 DEF InitStates, InitFrom
  <2>2. Resources(state) \in SUBSET Keys /\ Serial(state) \in Nat
    BY <1>0, LatestType
  <2>3. session' \in [Operators -> Session]
    BY <1>0, <2>1, <2>2 DEF TypeOK, Session
  <2> QED BY <1>3, <2>3 DEF InitStates, InitFrom, Goto, Unsaved, TypeOK, Labels
<1>4. CASE ReadFails(o)
  BY <1>4, IdleType DEF ReadFails, End, Goto, Unsaved, TypeOK, Labels
<1>5. ASSUME NEW k \in Keys, UpdateState(o, k) PROVE TypeOK'
  <2>1. session' \in [Operators -> Session]
    BY <1>0, <1>5 DEF UpdateState, TypeOK, Session
  <2> QED BY <1>5, <2>1 DEF UpdateState, Goto, Unsaved, TypeOK, Labels
<1>6. CASE PutState(o)
  <2>1. Saved(session[o], CreateTime(o)) \in State
    BY <1>0, <1>t, SavedType
  <2> QED BY <1>6, <2>1, PutType DEF PutState, Goto, TypeOK, Labels
<1>7. CASE ReadOld(o)
  <2>1. PICK old \in Latest(session[o].cluster) :
          IF old = NoState
          THEN /\ session' = [session EXCEPT ![o].created = births + 1]
               /\ births' = births + 1
          ELSE /\ session' = [session EXCEPT ![o].created = old.created]
               /\ UNCHANGED births
    BY <1>7 DEF ReadOld
  <2>2. old # NoState => old.created \in Nat
    BY <1>0, LatestType DEF State
  <2>3. session' \in [Operators -> Session] /\ births' \in Nat
    BY <1>0, <2>1, <2>2 DEF TypeOK, Session
  <2> QED BY <1>7, <2>3 DEF ReadOld, Goto, TypeOK, Labels
<1>8. CASE Truncate(o)
  BY <1>8 DEF Truncate, Goto, TypeOK, Labels
<1>9. CASE Write(o)
  <2>1. Saved(session[o], CreateTime(o)) \in State
    BY <1>0, <1>t, SavedType
  <2> QED BY <1>9, <2>1, PutType DEF Write, Goto, TypeOK, Labels
<1>10. CASE SaveFails(o)
  <2>1. CutOff(o) /\ pc' = [pc EXCEPT ![o] = "work"] /\ UNCHANGED <<session, raced, commands>>
    BY <1>10 DEF SaveFails, Fails, Goto
  <2>2. lost' \in 0..MaxLost
    BY <1>10 DEF SaveFails, Fails, TypeOK
  <2>3. file' = "whole" => saved' # {}
    BY <2>1, CutOffType DEF TypeOK
  <2> QED BY <2>1, <2>2, <2>3, CutOffType DEF TypeOK, Labels
<1>11. CASE Finish(o)
  BY <1>11, IdleType DEF Finish, End, Goto, Unsaved, TypeOK, Labels
<1>12. CASE Crash(o)
  <2>1. /\ CutOff(o) /\ pc' = [pc EXCEPT ![o] = "idle"]
        /\ session' = [session EXCEPT ![o] = Idle] /\ UNCHANGED <<raced, commands>>
    BY <1>12 DEF Crash, End, Goto
  <2>2. lost' \in 0..MaxLost
    BY <1>12 DEF Crash, TypeOK
  <2>3. file' = "whole" => saved' # {}
    BY <2>1, CutOffType DEF TypeOK
  <2> QED BY <2>1, <2>2, <2>3, CutOffType, IdleType DEF TypeOK, Labels
<1> QED
  BY <1>1, <1>2, <1>3, <1>4, <1>5, <1>6, <1>7, <1>8, <1>9, <1>10, <1>11, <1>12
  DEF Step, Progress

(* Every state and step of the specification keeps its types. *)
THEOREM TypeCorrect == Spec => []TypeOK
<1>1. TypeOK /\ [Next]_vars => TypeOK'
  <2> SUFFICES ASSUME TypeOK, [Next]_vars PROVE TypeOK'
    OBVIOUS
  <2>1. CASE UNCHANGED vars
    BY <2>1 DEF vars, TypeOK
  <2>2. CASE Next
    BY <2>1, <2>2, TypeStep DEF Next, Rest
  <2> QED BY <2>1, <2>2
<1> QED BY TypeInit, <1>1, PTL DEF Spec

-----------------------------------------------------------------------------
(* While commands do not overlap, a query that need not choose finds one   *)
(* state at most.                                                          *)
LEMMA FoundIsOne ==
  ASSUME TypeOK, TableInv, ~raced, NEW c \in Named, ~Ambiguous(c),
         NEW s \in Found(c), NEW t \in Found(c)
  PROVE  s = t
<1>0. s \in saved /\ t \in saved
  BY LatestType
<1>1. CASE kind = "db"
  <2>1. s.serial \in Nat /\ t.serial \in Nat
    BY <1>0 DEF TypeOK, State
  <2>2. s \in Newest(Rows(c)) /\ t \in Newest(Rows(c))
    BY <1>1 DEF Found, FoundInTable
  <2>3. s.serial = t.serial
    BY <2>1, <2>2 DEF Newest
  <2>4. s.cluster = t.cluster
    BY <1>0, <1>1, <2>2 DEF Newest, Rows, Ambiguous
  <2> QED BY <1>0, <1>1, <2>3, <2>4 DEF TableInv
<1>2. CASE kind = "http"
  BY <1>0, <1>2 DEF TypeOK, Found, FoundAtURL
<1>3. CASE kind \notin {"db", "http"}
  BY <1>0, <1>3 DEF TypeOK
<1> QED BY <1>1, <1>2, <1>3

LEMMA LatestIsOne ==
  ASSUME TypeOK, TableInv, ~raced, NEW c \in Named, ~Ambiguous(c)
  PROVE  \E s \in State \cup {NoState} : Latest(c) = {s}
<1>1. CASE Found(c) = {}
  BY <1>1 DEF Latest
<1>2. CASE Found(c) # {}
  <2>1. PICK s \in Found(c) : TRUE
    BY <1>2
  <2>2. Found(c) = {s}
    BY <2>1, FoundIsOne
  <2> QED BY <1>2, <2>2, LatestType DEF Latest
<1> QED BY <1>1, <1>2

(* What is found depends on the place only. *)
LEMMA SamePlace ==
  ASSUME UNCHANGED <<kind, saved, file>>
  PROVE  /\ FoundInFile' = FoundInFile
         /\ \A c : /\ Found(c)' = Found(c)
                   /\ Latest(c)' = Latest(c)
                   /\ Rivals(c)' = Rivals(c)
                   /\ Ambiguous(c)' = Ambiguous(c)
                   /\ Rows(c)' = Rows(c)
                   /\ Newest(Rows(c))' = Newest(Rows(c))
<1>1. /\ FoundInFile' = FoundInFile /\ FoundInS3' = FoundInS3 /\ FoundInOSS' = FoundInOSS
  BY DEF FoundInFile, FoundInS3, FoundInOSS
<1>2. ASSUME NEW c
      PROVE  /\ Rows(c)' = Rows(c)
             /\ Newest(Rows(c))' = Newest(Rows(c))
             /\ FoundAtURL(c)' = FoundAtURL(c)
             /\ Ambiguous(c)' = Ambiguous(c)
  BY DEF Rows, Newest, FoundAtURL, Ambiguous
<1>3. ASSUME NEW c
      PROVE  /\ Found(c)' = Found(c)
             /\ Latest(c)' = Latest(c)
             /\ Rivals(c)' = Rivals(c)
  <2>1. FoundInTable(c)' = FoundInTable(c)
    BY <1>2 DEF FoundInTable
  <2>2. Found(c)' = Found(c)
    BY <1>1, <1>2, <2>1 DEF Found
  <2> QED BY <1>2, <2>2 DEF Latest, Rivals
<1> QED BY <1>1, <1>2, <1>3

(* A save adds its own state to those that remain. *)
LEMMA PutPlace ==
  ASSUME TypeOK, NEW c \in Named, NEW new \in State, new.cluster = c, Put(new), kind' = kind
  PROVE  /\ kind = "db" => saved' = saved \cup {new}
         /\ kind = "http" => \A s \in saved' : s = new \/ (s \in saved /\ s.cluster # c)
         /\ kind = "http" => \A s \in saved : s.cluster # c => s \in saved'
         /\ kind \notin {"db", "http"} => saved' = {new}
         /\ new \in saved'
BY DEF TypeOK, AllKinds, Put, Kept, KeptByTable, KeptByURL

(* A command that does not overlap is alone, before and after its step. *)
LEMMA Alone ==
  ASSUME TypeOK, OneAtATime, NEW o \in Operators, Step(o), ~raced'
  PROVE  /\ ~raced
         /\ kind' = kind
         /\ \A p \in Operators \ {o} : pc[p] = "idle" /\ pc'[p] = "idle"
         /\ pc' = [pc EXCEPT ![o] = pc'[o]]
<1>0. ASSUME NEW c \in Named, NEW spec \in SUBSET Keys, Preview(o, c, spec)
      PROVE  ~raced /\ kind' = kind
  <2>1. raced' = (raced \/ \E p \in Operators \ {o} : pc[p] # "idle")
    BY <1>0 DEF Preview
  <2>2. kind' = kind
    BY <1>0 DEF Preview, Unsaved
  <2> QED BY <2>1, <2>2
<1>1. ~raced /\ kind' = kind
  <2>1. CASE Cancel(o) \/ InitStates(o) \/ ReadFails(o) \/ Crash(o)
    <3>1. raced' = raced /\ kind' = kind
      BY <2>1 DEF Cancel, InitStates, InitFrom, ReadFails, Crash, CutOff, Unsaved
    <3> QED BY <3>1
  <2>2. CASE Progress(o)
    <3>1. raced' = raced /\ kind' = kind
      BY <2>2 DEF Progress, UpdateState, PutState, ReadOld, Truncate, Write, SaveFails, Fails,
                  CutOff, Finish, Unsaved
    <3> QED BY <3>1
  <2> QED BY <1>0, <2>1, <2>2 DEF Step
<1>2. \E l : pc' = [pc EXCEPT ![o] = l]
  BY DEF Step, Preview, Cancel, InitStates, InitFrom, ReadFails, Progress, UpdateState, PutState,
         ReadOld, Truncate, Write, SaveFails, Finish, Crash, Goto, End
<1>3. pc' = [pc EXCEPT ![o] = pc'[o]] /\ \A p \in Operators \ {o} : pc'[p] = pc[p]
  BY <1>2 DEF TypeOK
<1>4. \A p \in Operators \ {o} : pc[p] = "idle"
  <2>1. CASE pc[o] # "idle"
    BY <1>1, <2>1 DEF OneAtATime
  <2>2. CASE pc[o] = "idle"
    <3>1. PICK c \in Named, spec \in SUBSET Keys : Preview(o, c, spec)
      BY <2>2 DEF Step, Cancel, InitStates, InitFrom, ReadFails, Progress, UpdateState, PutState,
         ReadOld, Truncate, Write, SaveFails, Fails, Finish, Crash
    <3> QED BY <3>1 DEF Preview
  <2> QED BY <2>1, <2>2
<1> QED BY <1>1, <1>3, <1>4

-----------------------------------------------------------------------------
(* The parts of the invariant hold at the start. *)
LEMMA StorageInit == Init => StorageInv
<1> SUFFICES ASSUME Init PROVE StorageInv
  OBVIOUS
<1>1. TypeOK
  BY TypeInit
<1>2. LostOnlyInWrites /\ OneAtATime
  BY DEF Init, LostOnlyInWrites, OneAtATime
<1>3. TableInv
  BY DEF Init, TableInv, Rows
<1>4. TimesInv
  BY DEF Init, TimesInv, Idle
<1>5. \A o \in Operators : SessionInv(o)
  BY DEF Init, SessionInv, Working, Saving
<1> QED BY <1>1, <1>2, <1>3, <1>4, <1>5 DEF StorageInv

(* A session that is over, or that waits for its user, promises little. *)
LEMMA IdleSession ==
  ASSUME NEW o \in Operators, pc'[o] = "idle"
  PROVE  SessionInv(o)'
BY DEF SessionInv, Working, Saving

(* What a preview shows is what the query of its session still finds. *)
LEMMA PreviewSession ==
  ASSUME StorageInv, ~raced, NEW o \in Operators, NEW c \in Named, NEW spec \in SUBSET Keys,
         Preview(o, c, spec)
  PROVE  SessionInv(o)'
<1> USE DEF StorageInv
<1>1. PICK state \in Latest(c) : session' = [session EXCEPT ![o] =
          [Idle EXCEPT !.cluster = c, !.spec = spec, !.seen = Resources(state)]]
  BY DEF Preview
<1>2. pc'[o] = "confirm" /\ session'[o].cluster = c /\ session'[o].seen = Resources(state)
  BY <1>1 DEF Preview, Goto, TypeOK, Idle
<1>3. UNCHANGED <<kind, saved, file>>
  BY DEF Preview, Unsaved
<1>4. Latest(c)' = Latest(c) /\ Ambiguous(c)' = Ambiguous(c)
  BY <1>3, SamePlace
<1>5. ASSUME ~Ambiguous(c), NEW s \in Latest(c) PROVE Resources(s) = Resources(state)
  BY <1>1, <1>5, LatestIsOne
<1>6. \A s : Resources(s)' = Resources(s)
  BY DEF Resources
<1>7. ASSUME ~Ambiguous(session[o].cluster)', NEW s \in Latest(session[o].cluster)'
      PROVE  Resources(s)' = session'[o].seen
  BY <1>2, <1>4, <1>5, <1>6, <1>7
<1> QED BY <1>2, <1>7 DEF SessionInv, Working, Saving

(* An operation starts from what its user was shown, with the serial of the *)
(* newest state.                                                            *)
LEMMA InitSession ==
  ASSUME StorageInv, ~raced, NEW o \in Operators, SessionInv(o), InitStates(o)
  PROVE  SessionInv(o)'
<1> USE DEF StorageInv
<1>0. session[o] \in Session /\ session[o].cluster \in Named
  BY DEF TypeOK, Session
<1>c. PICK c \in Named : c = session[o].cluster
  BY <1>0
<1>1. PICK state \in Latest(c) : session' = [session EXCEPT
         ![o].prior = Resources(state),
         ![o].index = Resources(state),
         ![o].left = Resources(state) \cup session[o].spec,
         ![o].serial = Serial(state)]
  BY <1>c DEF InitStates, InitFrom
<1>2. /\ pc[o] = "confirm" /\ pc'[o] = "work"
      /\ session'[o].cluster = c /\ session'[o].seen = session[o].seen
      /\ session'[o].prior = Resources(state) /\ session'[o].serial = Serial(state)
  BY <1>c, <1>0, <1>1 DEF InitStates, InitFrom, Goto, TypeOK, Session
<1>3. UNCHANGED <<kind, saved, file>>
  BY <1>c DEF InitStates, InitFrom, Unsaved
<1>4. Rivals(c)' = Rivals(c) /\ Ambiguous(c)' = Ambiguous(c)
  BY <1>c, <1>3, SamePlace
<1>5. ~Ambiguous(c) => session'[o].prior = session'[o].seen
  BY <1>c, <1>1, <1>2 DEF SessionInv
<1>6. ASSUME NEW s \in Rivals(c) PROVE s.serial <= Serial(state)
  <2>1. CASE kind = "db"
    <3>1. Found(c) # {} /\ Found(c) = Newest(Rows(c)) /\ s \in Rows(c)
      BY <1>c, <1>0, <1>6, <2>1 DEF Rivals, TableInv, Found, FoundInTable
    <3>2. state \in Newest(Rows(c)) /\ state \in State
      BY <1>c, <1>0, <1>1, <3>1, LatestType DEF Latest, TypeOK
    <3>3. state # NoState
      BY <1>c, <3>2, NoStateAssumption
    <3> QED BY <1>c, <3>1, <3>2, <3>3 DEF Newest, Serial
  <2>2. CASE kind # "db"
    <3>1. s \in Found(c) /\ ~Ambiguous(c)
      BY <1>c, <1>6, <2>2 DEF Rivals, Ambiguous
    <3>2. state \in Found(c)
      BY <1>c, <1>1, <3>1 DEF Latest
    <3>3. state = s /\ state \in State
      BY <1>c, <1>0, <3>1, <3>2, FoundIsOne, LatestType DEF TypeOK
    <3>4. state # NoState /\ state.serial \in Nat
      BY <1>c, <3>3, NoStateAssumption DEF State
    <3> QED BY <1>c, <3>3, <3>4 DEF Serial
  <2> QED BY <1>c, <2>1, <2>2
<1> QED BY <1>c, <1>2, <1>4, <1>5, <1>6 DEF SessionInv, Working, Saving

(* A new serial number is above that of every state of the query. *)
LEMMA UpdateSession ==
  ASSUME StorageInv, ~raced, NEW o \in Operators, NEW k \in Keys, SessionInv(o), UpdateState(o, k)
  PROVE  SessionInv(o)'
<1> USE DEF StorageInv
<1>0. session[o] \in Session /\ session[o].cluster \in Named
  BY DEF TypeOK, Session
<1>c. PICK c \in Named : c = session[o].cluster
  BY <1>0
<1>1. /\ pc[o] = "work" /\ pc'[o] \in {"old", "put"}
      /\ session'[o].cluster = c /\ session'[o].seen = session[o].seen
      /\ session'[o].prior = session[o].prior
      /\ session'[o].serial = session[o].serial + 1
  BY <1>c, <1>0 DEF UpdateState, Goto, TypeOK, Session
<1>2. UNCHANGED <<kind, saved, file>>
  BY <1>c DEF UpdateState, Unsaved
<1>3. Rivals(c)' = Rivals(c) /\ Ambiguous(c)' = Ambiguous(c)
  BY <1>c, <1>2, SamePlace
<1>4. Rivals(c) \subseteq State
  BY <1>c, <1>0, LatestType DEF Rivals, Rows, TypeOK
<1>5. ASSUME NEW s \in Rivals(c) PROVE s.serial < session[o].serial + 1
  BY <1>c, <1>0, <1>1, <1>4 DEF SessionInv, Working, State, Session
<1>6. ASSUME NEW s \in Rivals(c) PROVE s.serial <= session[o].serial + 1
  BY <1>c, <1>0, <1>4, <1>5 DEF State, Session
<1> QED BY <1>c, <1>1, <1>3, <1>5, <1>6 DEF SessionInv, Working

(* A save that fails leaves the number used up. *)
LEMMA FailSession ==
  ASSUME StorageInv, ~raced, NEW o \in Operators, SessionInv(o), SaveFails(o)
  PROVE  SessionInv(o)'
<1> USE DEF StorageInv
<1>0. session[o] \in Session /\ session[o].cluster \in Named
  BY DEF TypeOK, Session
<1>c. PICK c \in Named : c = session[o].cluster
  BY <1>0
<1>1. /\ Saving(o) /\ pc'[o] = "work" /\ session' = session
      /\ kind' = kind /\ saved' = saved /\ file' \in {file, "garbled"}
      /\ pc[o] = "write" => kind = "local"
      /\ pc[o] # "write" => file' = file
  BY <1>c DEF SaveFails, Fails, CutOff, Goto, TypeOK, Saving
<1>2. Rivals(c)' \subseteq Rivals(c) /\ Ambiguous(c)' = Ambiguous(c)
  <2>1. CASE file' = file
    BY <1>1, <2>1, SamePlace
  <2>2. CASE file' # file
    <3>1. kind = "local" /\ file' = "garbled"
      BY <1>1, <2>2
    <3>2. Rivals(c)' = {}
      BY <1>1, <3>1 DEF Rivals, Found, FoundInFile
    <3> QED BY <1>1, <3>2 DEF Ambiguous
  <2> QED BY <2>1, <2>2
<1> QED BY <1>c, <1>1, <1>2 DEF SessionInv, Working, Saving

(* The time of creation is that of the file. *)
LEMMA ReadOldSession ==
  ASSUME StorageInv, ~raced, NEW o \in Operators, SessionInv(o), ReadOld(o)
  PROVE  SessionInv(o)'
<1> USE DEF StorageInv
<1>0. session[o] \in Session /\ session[o].cluster \in Named
  BY DEF TypeOK, Session
<1>c. PICK c \in Named : c = session[o].cluster
  BY <1>0
<1>1. PICK old \in Latest(c) :
          IF old = NoState
          THEN /\ session' = [session EXCEPT ![o].created = births + 1]
               /\ births' = births + 1
          ELSE /\ session' = [session EXCEPT ![o].created = old.created]
               /\ UNCHANGED births
  BY <1>c DEF ReadOld
<1>2. /\ pc[o] = "old" /\ pc'[o] = "truncate"
      /\ session'[o].cluster = c /\ session'[o].seen = session[o].seen
      /\ session'[o].prior = session[o].prior /\ session'[o].serial = session[o].serial
      /\ old # NoState => session'[o].created = old.created
  BY <1>c, <1>0, <1>1 DEF ReadOld, Goto, TypeOK, Session
<1>3. UNCHANGED <<kind, saved, file>>
  BY <1>c DEF ReadOld
<1>4. Rivals(c)' = Rivals(c) /\ Ambiguous(c)' = Ambiguous(c) /\ FoundInFile' = FoundInFile
  BY <1>c, <1>3, SamePlace
<1>5. kind = "local"
  BY <1>c, <1>2 DEF TypeOK
<1>6. ASSUME NEW s \in FoundInFile PROVE s.created = session'[o].created
  <2>1. Found(c) = FoundInFile
    BY <1>c, <1>5 DEF Found
  <2>2. old \in Found(c) /\ ~Ambiguous(c)
    BY <1>c, <1>1, <1>5, <1>6, <2>1 DEF Latest, Ambiguous
  <2>3. old = s /\ old \in State
    BY <1>c, <1>0, <1>6, <2>1, <2>2, FoundIsOne, LatestType DEF TypeOK
  <2> QED BY <1>c, <1>2, <2>3, NoStateAssumption
<1> QED BY <1>c, <1>2, <1>4, <1>6 DEF SessionInv, Working, Saving

(* An empty file has no rivals. *)
LEMMA TruncateSession ==
  ASSUME StorageInv, ~raced, NEW o \in Operators, SessionInv(o), Truncate(o)
  PROVE  SessionInv(o)'
<1> USE DEF StorageInv
<1>c. PICK c \in Named : c = session[o].cluster
  BY DEF TypeOK, Session
<1>1. /\ pc[o] = "truncate" /\ pc'[o] = "write" /\ session' = session
      /\ kind = "local" /\ kind' = "local" /\ file' = "empty"
  BY <1>c DEF Truncate, Goto, TypeOK
<1>2. Rivals(c)' = {}
  BY <1>c, <1>1 DEF Rivals, Found, FoundInFile
<1>3. ~Ambiguous(c)
  BY <1>c, <1>1 DEF Ambiguous
<1> QED BY <1>c, <1>1, <1>2, <1>3 DEF SessionInv, Working, Saving

(* What a save does, to what any query finds: the query of the session     *)
(* finds the new state and no other.                                       *)
LEMMA PutFound ==
  ASSUME StorageInv, ~raced, NEW o \in Operators, SessionInv(o), Saving(o),
         NEW c \in Named, session[o].cluster = c, NEW new \in State, new.cluster = c,
         new.serial = session[o].serial, Put(new), kind' = kind,
         kind = "local" => file' = "whole"
  PROVE  /\ Found(c)' = {new}
         /\ \A s \in Rivals(c)' : s.serial <= new.serial
<1> USE DEF StorageInv
<1>1. /\ kind = "db" => saved' = saved \cup {new}
      /\ kind = "http" => \A s \in saved' : s = new \/ (s \in saved /\ s.cluster # c)
      /\ kind \notin {"db", "http"} => saved' = {new}
      /\ new \in saved'
  BY PutPlace
<1>2. new.serial \in Nat
  BY DEF State
<1>3. CASE kind = "db"
  <2>1. Rows(c)' = Rows(c) \cup {new}
    BY <1>1, <1>3 DEF Rows
  <2>2. \A s \in Rows(c) : s.serial < new.serial /\ s.serial \in Nat
    BY <1>3 DEF SessionInv, Rivals, Rows, TypeOK, State
  <2>3. ASSUME NEW s \in Rows(c) PROVE s.serial <= new.serial /\ ~(s.serial >= new.serial)
    BY <1>2, <2>2, <2>3
  <2>4. Newest(Rows(c))' = {new}
    BY <1>2, <2>1, <2>3 DEF Newest
  <2>5. Found(c)' = {new}
    BY <1>3, <2>4 DEF Found, FoundInTable
  <2> QED BY <1>2, <1>3, <2>1, <2>3, <2>5 DEF Rivals
<1>4. CASE kind # "db"
  <2>1. CASE kind = "http"
    <3>1. Found(c)' = {new}
      BY <1>1, <2>1 DEF Found, FoundAtURL
    <3> QED BY <1>2, <1>4, <3>1 DEF Rivals
  <2>2. CASE kind # "http"
    <3>1. Found(c)' = {new}
      BY <1>1, <1>4, <2>2 DEF Found, FoundInFile, FoundInS3, FoundInOSS, TypeOK, AllKinds
    <3> QED BY <1>2, <1>4, <3>1 DEF Rivals
  <2> QED BY <2>1, <2>2
<1> QED BY <1>3, <1>4

(* The state that an operator is about to save. *)
LEMMA NewState ==
  ASSUME TypeOK, TimesInv, NEW o \in Operators, PutState(o) \/ Write(o)
  PROVE  \E c \in Named : \E new \in State :
           /\ c = session[o].cluster /\ new.cluster = c
           /\ new.serial = session[o].serial
           /\ new = Saved(session[o], CreateTime(o))
           /\ Put(new)
           /\ kind' = kind /\ session' = session
           /\ pc[o] \in {"put", "write"} /\ pc'[o] = "work"
           /\ kind \notin {"local", "db"} => new.created = 0
           /\ kind = "local" => CreateTime(o) = session[o].created
           /\ kind = "local" => pc[o] = "write" /\ Write(o)
           /\ kind # "local" => pc[o] = "put" /\ PutState(o)
<1>1. session[o] \in Session /\ session[o].cluster \in Named /\ CreateTime(o) \in Nat
  BY DEF TypeOK, Session, CreateTime
<1>2. CASE PutState(o)
  <2>1. kind # "local" /\ (kind # "db" => CreateTime(o) = 0)
    BY <1>2 DEF PutState, TypeOK, TimesInv, CreateTime
  <2> QED BY <1>1, <1>2, <2>1, SavedType DEF PutState, Goto, TypeOK
<1>3. CASE Write(o)
  <2>1. kind = "local" /\ CreateTime(o) = session[o].created
    BY <1>3 DEF Write, TypeOK, CreateTime
  <2> QED BY <1>1, <1>3, <2>1, SavedType DEF Write, Goto, TypeOK
<1> QED BY <1>2, <1>3

(* After its save a session is not older than what its query finds. *)
LEMMA SaveSession ==
  ASSUME StorageInv, ~raced, NEW o \in Operators, SessionInv(o), PutState(o) \/ Write(o)
  PROVE  SessionInv(o)'
<1>0. TypeOK /\ TimesInv
  BY DEF StorageInv
<1>1. PICK c \in Named, new \in State :
           /\ c = session[o].cluster /\ new.cluster = c
           /\ new.serial = session[o].serial
           /\ Put(new)
           /\ kind' = kind /\ session' = session
           /\ pc[o] \in {"put", "write"} /\ pc'[o] = "work"
           /\ kind = "local" => pc[o] = "write" /\ Write(o)
  BY <1>0, NewState
<1>2. kind = "local" => file' = "whole"
  BY <1>1 DEF SessionInv, Write
<1>3. \A s \in Rivals(c)' : s.serial <= new.serial
  BY <1>1, <1>2, PutFound DEF Saving
<1>4. CASE kind # "db"
  <2>1. ~Ambiguous(c)
    BY <1>4 DEF Ambiguous
  <2> QED BY <1>1, <1>3, <2>1 DEF SessionInv, Working, Saving
<1>5. CASE kind = "db"
  <2>1. saved' = saved \cup {new}
    BY <1>0, <1>1, <1>5, PutPlace
  <2>2. ~Ambiguous(c)' => ~Ambiguous(c)
    BY <1>1, <1>5, <2>1 DEF Ambiguous
  <2> QED BY <1>1, <1>3, <2>2 DEF SessionInv, Working, Saving
<1> QED BY <1>4, <1>5

(* Each step of the only command at work keeps what its session promises. *)
LEMMA SessionStep ==
  ASSUME StorageInv, NEW o \in Operators, Step(o), ~raced'
  PROVE  \A p \in Operators : SessionInv(p)'
<1>1. ~raced /\ \A p \in Operators \ {o} : pc'[p] = "idle"
  BY Alone DEF StorageInv
<1>2. SessionInv(o)
  BY <1>1 DEF StorageInv
<1>3. \A p \in Operators \ {o} : SessionInv(p)'
  BY <1>1, IdleSession
<1>4. ASSUME NEW c \in Named, NEW spec \in SUBSET Keys, Preview(o, c, spec) PROVE SessionInv(o)'
  BY <1>1, <1>4, PreviewSession
<1>5. ASSUME Cancel(o) \/ ReadFails(o) \/ Finish(o) \/ Crash(o) PROVE SessionInv(o)'
  <2>1. pc'[o] = "idle"
    BY <1>5 DEF Cancel, ReadFails, Finish, Crash, End, Goto, StorageInv, TypeOK
  <2> QED BY <2>1, IdleSession
<1>6. ASSUME NEW k \in Keys, UpdateState(o, k) PROVE SessionInv(o)'
  BY <1>1, <1>2, <1>6, UpdateSession
<1>7. SessionInv(o)'
  BY <1>1, <1>2, <1>4, <1>5, <1>6, InitSession, SaveSession, ReadOldSession, TruncateSession,
     FailSession DEF Step, Progress
<1> QED BY <1>3, <1>7

-----------------------------------------------------------------------------
(* A step either saves or leaves what is saved alone, and creation times   *)
(* are for local files.                                                    *)
LEMMA SaveOrNot ==
  ASSUME TypeOK, NEW o \in Operators, Step(o)
  PROVE  \/ PutState(o) \/ Write(o)
         \/ /\ UNCHANGED <<kind, saved>>
            /\ kind # "local" => \A p \in Operators :
                 session'[p].created \in {session[p].created, 0}
<1>0. \A p \in Operators : session[p] \in Session
  BY DEF TypeOK
<1>1. ASSUME NEW c \in Named, NEW spec \in SUBSET Keys, Preview(o, c, spec)
      PROVE  /\ UNCHANGED <<kind, saved>>
             /\ \A p \in Operators : session'[p].created \in {session[p].created, 0}
  <2>1. PICK state \in Latest(c) : session' = [session EXCEPT ![o] =
            [Idle EXCEPT !.cluster = c, !.spec = spec, !.seen = Resources(state)]]
    BY <1>1 DEF Preview
  <2>2. \A p \in Operators : session'[p].created \in {session[p].created, 0}
    BY <2>1 DEF Idle, TypeOK
  <2> QED BY <1>1, <2>2 DEF Preview, Unsaved
<1>2. CASE InitStates(o)
  <2>1. PICK state \in Latest(session[o].cluster) : session' = [session EXCEPT
         ![o].prior = Resources(state),
         ![o].index = Resources(state),
         ![o].left = Resources(state) \cup session[o].spec,
         ![o].serial = Serial(state)]
    BY <1>2 DEF InitStates, InitFrom
  <2>2. \A p \in Operators : session'[p].created = session[p].created
    BY <1>0, <2>1 DEF TypeOK, Session
  <2> QED BY <1>2, <2>2 DEF InitStates, InitFrom, Unsaved
<1>3. ASSUME Cancel(o) \/ ReadFails(o) \/ Finish(o) \/ Crash(o)
      PROVE  /\ UNCHANGED <<kind, saved>>
             /\ \A p \in Operators : session'[p].created \in {session[p].created, 0}
  BY <1>3 DEF Cancel, ReadFails, Finish, Crash, CutOff, End, Unsaved, Idle, TypeOK
<1>4. ASSUME NEW k \in Keys, UpdateState(o, k)
      PROVE  /\ UNCHANGED <<kind, saved>>
             /\ \A p \in Operators : session'[p].created = session[p].created
  BY <1>0, <1>4 DEF UpdateState, Unsaved, TypeOK, Session
<1>5. ASSUME ReadOld(o) PROVE UNCHANGED <<kind, saved>> /\ kind = "local"
  BY <1>5 DEF ReadOld, TypeOK
<1>6. ASSUME Truncate(o) \/ SaveFails(o) PROVE UNCHANGED <<kind, saved, session>>
  BY <1>6 DEF Truncate, SaveFails, Fails, CutOff
<1> QED BY <1>1, <1>2, <1>3, <1>4, <1>5, <1>6 DEF Step, Progress

LEMMA TimesStep ==
  ASSUME TypeOK, TimesInv, NEW o \in Operators, Step(o)
  PROVE  TimesInv'
<1>1. CASE PutState(o) \/ Write(o)
  <2>1. PICK c \in Named, new \in State :
           /\ new.cluster = c /\ Put(new)
           /\ kind' = kind /\ session' = session
           /\ kind \notin {"local", "db"} => new.created = 0
    BY <1>1, NewState
  <2>2. \A s \in saved' : s \in saved \/ s = new
    BY <2>1, KeptType DEF Put
  <2> QED BY <2>1, <2>2 DEF TimesInv
<1>2. CASE ~(PutState(o) \/ Write(o))
  <2>1. /\ UNCHANGED <<kind, saved>>
        /\ kind # "local" => \A p \in Operators :
             session'[p].created \in {session[p].created, 0}
    BY <1>2, SaveOrNot
  <2> QED BY <2>1 DEF TimesInv
<1> QED BY <1>1, <1>2

(* A table that grows keeps a newest row, and, as long as commands do not  *)
(* overlap, no two rows of a cluster with one serial.                      *)
LEMMA TableStep ==
  ASSUME StorageInv, NEW o \in Operators, Step(o)
  PROVE  TableInv'
<1>0. TypeOK /\ TimesInv /\ TableInv
  BY DEF StorageInv
<1>1. CASE PutState(o) \/ Write(o)
  <2>1. PICK c \in Named, new \in State :
           /\ c = session[o].cluster /\ new.cluster = c
           /\ new.serial = session[o].serial
           /\ Put(new)
           /\ kind' = kind /\ session' = session
           /\ pc[o] \in {"put", "write"}
    BY <1>0, <1>1, NewState
  <2>2. SUFFICES ASSUME kind = "db" PROVE TableInv'
    BY <2>1 DEF TableInv
  <2>3. saved' = saved \cup {new} /\ kind' = "db"
    BY <1>0, <2>1, <2>2, PutPlace
  <2>4. ASSUME NEW d \in Named, Rows(d)' # {} PROVE Newest(Rows(d))' # {}
    <3>1. CASE Rows(d)' = Rows(d)
      <4>1. Rows(d) # {} /\ Newest(Rows(d)) # {}
        BY <1>0, <2>2, <2>4, <3>1 DEF TableInv
      <4> QED BY <3>1, <4>1 DEF Newest
    <3>2. CASE Rows(d)' = Rows(d) \cup {new}
      <4>1. \A s \in Rows(d) : s.serial \in Nat
        BY <1>0 DEF Rows, TypeOK, State
      <4>2. new.serial \in Nat
        BY DEF State
      <4>3. CASE Rows(d) = {}
        <5>1. new \in Newest(Rows(d))'
          BY <3>2, <4>2, <4>3 DEF Newest
        <5> QED BY <5>1
      <4>4. CASE Rows(d) # {}
        <5>1. PICK top \in Newest(Rows(d)) : TRUE
          BY <1>0, <2>2, <4>4 DEF TableInv
        <5>2. top \in Rows(d) /\ \A s \in Rows(d) : top.serial >= s.serial
          BY <5>1 DEF Newest
        <5>3. CASE new.serial >= top.serial
          <6>1. \A s \in Rows(d) : new.serial >= s.serial
            BY <4>1, <4>2, <5>2, <5>3
          <6>2. new \in Newest(Rows(d))'
            BY <3>2, <4>2, <6>1 DEF Newest
          <6> QED BY <6>2
        <5>4. CASE ~(new.serial >= top.serial)
          <6>1. top.serial >= new.serial
            BY <4>1, <4>2, <5>2, <5>4
          <6>2. top \in Newest(Rows(d))'
            BY <3>2, <5>2, <6>1 DEF Newest
          <6> QED BY <6>2
        <5> QED BY <5>3, <5>4
      <4> QED BY <4>3, <4>4
    <3>3. Rows(d)' = Rows(d) \/ Rows(d)' = Rows(d) \cup {new}
      BY <2>3 DEF Rows
    <3> QED BY <3>1, <3>2, <3>3
  <2>5. ASSUME ~raced', NEW s \in saved', NEW t \in saved',
               s.cluster = t.cluster, s.serial = t.serial
        PROVE  s = t
    <3>1. ~raced /\ SessionInv(o)
      BY <2>5, Alone DEF StorageInv
    <3>2. \A u \in saved : u.cluster = c => u.serial < new.serial
      BY <2>1, <2>2, <3>1 DEF SessionInv, Saving, Rivals, Rows
    <3>3. \A u \in saved : u.serial \in Nat
      BY <1>0 DEF TypeOK, State
    <3>4. \A u \in saved : u.cluster = new.cluster => u.serial # new.serial
      BY <2>1, <3>2, <3>3
    <3>5. s \in saved /\ t \in saved => s = t
      BY <1>0, <2>2, <2>5, <3>1 DEF TableInv
    <3> QED BY <2>3, <2>5, <3>4, <3>5
  <2> QED BY <2>4, <2>5 DEF TableInv
<1>2. CASE ~(PutState(o) \/ Write(o))
  <2>1. UNCHANGED <<kind, saved>>
    BY <1>0, <1>2, SaveOrNot
  <2>2. \A c \in Named : Rows(c)' = Rows(c)
    BY <2>1 DEF Rows
  <2>3. \A c \in Named : Newest(Rows(c))' = Newest(Rows(c))
    BY <2>2 DEF Newest
  <2>4. ~raced' => ~raced
    BY Alone DEF StorageInv
  <2> QED BY <1>0, <2>1, <2>2, <2>3, <2>4 DEF TableInv
<1> QED BY <1>1, <1>2

(* A file is empty while it is written, or since a write was cut off. *)
LEMMA LostStep ==
  ASSUME StorageInv, NEW o \in Operators, Step(o)
  PROVE  LostOnlyInWrites'
<1>0. TypeOK /\ TypeOK' /\ LostOnlyInWrites
  BY TypeStep DEF StorageInv
<1>1. ASSUME NEW c \in Named, NEW spec \in SUBSET Keys, Preview(o, c, spec)
      PROVE  /\ UNCHANGED <<kind, saved, file, cut>>
             /\ pc[o] # "write" /\ pc' = [pc EXCEPT ![o] = "confirm"]
  BY <1>1 DEF Preview, Unsaved, Goto
<1>2. ASSUME Cancel(o) \/ InitStates(o) \/ ReadFails(o) \/ (\E k \in Keys : UpdateState(o, k))
               \/ ReadOld(o) \/ Finish(o)
      PROVE  /\ UNCHANGED <<kind, saved, file, cut>>
             /\ pc[o] # "write" /\ \E l : pc' = [pc EXCEPT ![o] = l]
  BY <1>2 DEF Cancel, InitStates, InitFrom, ReadFails, UpdateState, ReadOld, Finish, End, Goto,
     Unsaved
<1>3. ASSUME UNCHANGED <<kind, saved, file, cut>>,
             pc[o] # "write", \E l : pc' = [pc EXCEPT ![o] = l]
      PROVE  LostOnlyInWrites'
  <2>1. \A p \in Operators : pc[p] = "write" => pc'[p] = "write"
    BY <1>0, <1>3 DEF TypeOK
  <2>2. ~raced' => ~raced
    BY Alone DEF StorageInv
  <2> QED BY <1>0, <1>3, <2>1, <2>2 DEF LostOnlyInWrites
<1>4. ASSUME SaveFails(o) \/ Crash(o) PROVE LostOnlyInWrites'
  <2>1. /\ UNCHANGED <<kind, saved, raced>> /\ \E l : pc' = [pc EXCEPT ![o] = l]
        /\ pc[o] = "write" => cut'
        /\ pc[o] # "write" => UNCHANGED <<cut, file>>
    BY <1>4 DEF SaveFails, Fails, Crash, CutOff, End, Goto
  <2>2. pc[o] # "write" => \A p \in Operators : pc[p] = "write" => pc'[p] = "write"
    BY <1>0, <2>1 DEF TypeOK
  <2> QED BY <1>0, <2>1, <2>2 DEF LostOnlyInWrites
<1>6. ASSUME PutState(o) PROVE LostOnlyInWrites'
  <2>1. UNCHANGED <<file, cut, raced, kind>> /\ kind # "local"
    BY <1>0, <1>6 DEF PutState, TypeOK
  <2> QED BY <1>0, <2>1 DEF LostOnlyInWrites
<1>7. ASSUME Truncate(o) PROVE LostOnlyInWrites'
  BY <1>0, <1>7 DEF Truncate, Goto, TypeOK, LostOnlyInWrites
<1>8. ASSUME Write(o) PROVE LostOnlyInWrites'
  <2>1. file' # "empty" /\ (file = "empty" => file' = "whole")
    BY <1>8 DEF Write
  <2>2. ASSUME ~raced' PROVE file = "empty"
    <3>1. SessionInv(o)
      BY <2>2, Alone DEF StorageInv
    <3> QED BY <1>8, <3>1 DEF SessionInv, Write
  <2> QED BY <2>1, <2>2 DEF LostOnlyInWrites
<1> QED BY <1>1, <1>2, <1>3, <1>4, <1>6, <1>7, <1>8 DEF Step, Progress

(* The invariant is inductive. *)
LEMMA StorageStep == StorageInv /\ [Next]_vars => StorageInv'
<1> SUFFICES ASSUME StorageInv, [Next]_vars PROVE StorageInv'
  OBVIOUS
<1>1. CASE UNCHANGED vars
  <2>0. /\ UNCHANGED <<kind, saved, file>> /\ pc' = pc /\ session' = session
        /\ raced' = raced
    BY <1>1 DEF vars
  <2>1. TypeOK' /\ LostOnlyInWrites' /\ OneAtATime' /\ TimesInv'
    BY <1>1 DEF vars, StorageInv, TypeOK, LostOnlyInWrites, OneAtATime, TimesInv
  <2>2. TableInv'
    BY <2>0, SamePlace DEF StorageInv, TableInv
  <2>3. ASSUME ~raced', NEW o \in Operators PROVE SessionInv(o)'
    <3>1. SessionInv(o)
      BY <2>0, <2>3 DEF StorageInv
    <3>2. PICK c : c = session[o].cluster
      OBVIOUS
    <3>3. /\ FoundInFile' = FoundInFile /\ Latest(c)' = Latest(c)
          /\ Rivals(c)' = Rivals(c) /\ Ambiguous(c)' = Ambiguous(c)
      BY <2>0, SamePlace
    <3> QED BY <2>0, <3>1, <3>2, <3>3 DEF SessionInv, Working, Saving, Resources
  <2> QED BY <2>1, <2>2, <2>3 DEF StorageInv
<1>2. ASSUME NEW o \in Operators, Step(o) PROVE StorageInv'
  <2>1. OneAtATime'
    BY <1>2, Alone DEF StorageInv, OneAtATime
  <2>2. TypeOK' /\ TimesInv'
    BY <1>2, TypeStep, TimesStep DEF StorageInv
  <2> QED BY <1>2, <2>1, <2>2, TableStep, LostStep, SessionStep DEF StorageInv
<1> QED BY <1>1, <1>2 DEF Next, Rest

LEMMA StorageInvariant == Spec => []StorageInv
BY StorageInit, StorageStep, PTL DEF Spec

-----------------------------------------------------------------------------
(* FileSystemState.Apply leaves no state, or one that cannot be parsed,    *)
(* only while a file is written, after a write that failed or whose        *)
(* command died in the middle, or, unreadable, when another wrote too.     *)
THEOREM LostOnlyInWritesHolds == Spec => []LostOnlyInWrites
<1>1. StorageInv => LostOnlyInWrites
  BY DEF StorageInv
<1> QED BY <1>1, StorageInvariant, PTL

(* "only destroy resources we managed": an operation works on the state    *)
(* that its preview showed, in every storage.                              *)
THEOREM ShownIsUsedHolds == Spec => []ShownIsUsed
<1>1. StorageInv => ShownIsUsed
  BY DEF StorageInv, ShownIsUsed, SessionInv, Working
<1> QED BY <1>1, StorageInvariant, PTL

(* GetLatestState returns what Apply has just saved, in every storage.     *)
THEOREM ReadsItsWritesHolds == Spec => ReadsItsWrites
<1> DEFINE Reads(o) ==
      /\ pc[o] \in {"put", "write"}
      /\ saved' # saved
      /\ pc'[o] = "work"
      /\ ~raced
      => Latest(session[o].cluster)' = {Saved(session[o], CreateTime(o))}
<1>1. ASSUME StorageInv, NEW p \in Operators, Step(p), NEW o \in Operators PROVE Reads(o)
  <2> SUFFICES ASSUME pc[o] \in {"put", "write"}, saved' # saved, pc'[o] = "work", ~raced
               PROVE  Latest(session[o].cluster)' = {Saved(session[o], CreateTime(o))}
    OBVIOUS
  <2>0. TypeOK /\ TimesInv /\ SessionInv(o)
    BY <1>1 DEF StorageInv
  <2>1. PutState(p) \/ Write(p)
    BY <1>1, <2>0, SaveOrNot
  <2>2. p = o
    BY <2>0, <2>1, <1>1 DEF PutState, Write, Goto, TypeOK, StorageInv, OneAtATime
  <2>3. PICK c \in Named, new \in State :
           /\ c = session[o].cluster /\ new.cluster = c
           /\ new.serial = session[o].serial
           /\ new = Saved(session[o], CreateTime(o))
           /\ Put(new)
           /\ kind' = kind /\ session' = session
           /\ kind = "local" => pc[o] = "write" /\ Write(o)
    BY <2>0, <2>1, <2>2, NewState
  <2>4. kind = "local" => file' = "whole"
    BY <2>0, <2>3 DEF SessionInv, Write
  <2>5. Found(c)' = {new}
    BY <1>1, <2>0, <2>3, <2>4, PutFound DEF Saving
  <2>6. Latest(c)' = {new}
    BY <2>5 DEF Latest
  <2> QED BY <2>3, <2>6
<1>2. StorageInv /\ [Next]_vars => [\A o \in Operators : Reads(o)]_vars
  BY <1>1 DEF Next, Rest
<1> QED BY <1>2, StorageInvariant, PTL DEF Spec, ReadsItsWrites

-----------------------------------------------------------------------------
(* The steps that the register takes as stutters touch no storage.         *)
LEMMA QuietStep ==
  ASSUME TypeOK, NEW o \in Operators, Step(o)
  PROVE  \/ PutState(o) \/ Truncate(o) \/ Write(o) \/ SaveFails(o) \/ Crash(o)
         \/ UNCHANGED <<kind, saved, file>> /\ pc[o] # "write" /\ pc'[o] # "write"
<1>1. ASSUME NEW c \in Named, NEW spec \in SUBSET Keys, Preview(o, c, spec)
      PROVE  UNCHANGED <<kind, saved, file>> /\ pc[o] # "write" /\ pc'[o] # "write"
  <2>1. pc[o] = "idle" /\ pc' = [pc EXCEPT ![o] = "confirm"] /\ UNCHANGED <<kind, saved, file>>
    BY <1>1 DEF Preview, Unsaved, Goto
  <2> QED BY <2>1 DEF TypeOK
<1>2. ASSUME NEW k \in Keys, UpdateState(o, k)
      PROVE  UNCHANGED <<kind, saved, file>> /\ pc[o] # "write" /\ pc'[o] # "write"
  BY <1>2 DEF UpdateState, Unsaved, Goto, TypeOK
<1>3. CASE Cancel(o) \/ InitStates(o) \/ ReadFails(o)
  BY <1>3 DEF Cancel, InitStates, InitFrom, ReadFails, End, Unsaved, Goto, TypeOK
<1>4. CASE ReadOld(o) \/ Finish(o)
  BY <1>4 DEF ReadOld, Finish, End, Unsaved, Goto, TypeOK
<1> QED BY <1>1, <1>2, <1>3, <1>4 DEF Step, Progress

(* A command that is alone sees the storage, or what it is writing. *)
LEMMA VisibleAlone ==
  ASSUME NEW o \in Operators, ~raced, ~raced',
         \A p \in Operators \ {o} : pc[p] = "idle" /\ pc'[p] = "idle"
  PROVE  /\ pc[o] # "write" => Visible = [c \in Clusters |-> Latest(c)]
         /\ pc'[o] # "write" => Visible' = [c \in Clusters |-> Latest(c)']
         /\ pc[o] = "write" =>
              Visible = [c \in Clusters |-> {Saved(session[o], session[o].created)}]
         /\ pc'[o] = "write" =>
              Visible' = [c \in Clusters |-> {Saved(session'[o], session'[o].created)}]
<1>1. /\ pc[o] # "write" => Writing = {}
      /\ pc'[o] # "write" => Writing' = {}
      /\ pc[o] = "write" => Writing = {o}
      /\ pc'[o] = "write" => Writing' = {o}
  BY DEF Writing
<1>2. pc[o] # "write" => Visible = [c \in Clusters |-> Latest(c)]
  BY <1>1 DEF Visible
<1>3. pc'[o] # "write" => Visible' = [c \in Clusters |-> Latest(c)']
  BY <1>1 DEF Visible
<1>4. pc[o] = "write" =>
        Visible = [c \in Clusters |-> {Saved(session[o], session[o].created)}]
  <2>1. Writing = {o} =>
          {Saved(session[p], session[p].created) : p \in Writing}
            = {Saved(session[o], session[o].created)}
    OBVIOUS
  <2> QED BY <1>1, <2>1 DEF Visible
<1>5. pc'[o] = "write" =>
        Visible' = [c \in Clusters |-> {Saved(session'[o], session'[o].created)}]
  <2>1. Writing' = {o} =>
          {Saved(session'[p], session'[p].created) : p \in Writing'}
            = {Saved(session'[o], session'[o].created)}
    OBVIOUS
  <2>2. pc'[o] = "write" =>
          Visible' = [c \in Clusters |-> {Saved(session'[p], session'[p].created) : p \in Writing'}]
    BY <1>1 DEF Visible, Saved
  <2> QED BY <1>1, <2>1, <2>2
<1> QED BY <1>2, <1>3, <1>4, <1>5

(* What a save may do to what is read from a cluster: nothing, or give it  *)
(* a newer state of the same birth, if the storage mixes the clusters up   *)
(* or the save is of that cluster.                                         *)
Replaced(d, c, new) ==
  /\ kind \in {"db", "http"} => d = c
  /\ Visible'[d] = {new}
  /\ \E old : Visible[d] = {old} /\ Register!Newer(new, old)

LEMMA SaveOrStutter ==
  ASSUME NEW c, NEW new, kind' = kind, raced' = raced,
         \A d \in Clusters : Visible'[d] = Visible[d] \/ Replaced(d, c, new)
  PROVE  Register!Next \/ UNCHANGED Register!vars
<1>1. /\ (kind \in {"db", "http"})' = (kind \in {"db", "http"})
      /\ (kind = "local")' = (kind = "local") /\ (kind # "db")' = (kind # "db")
  OBVIOUS
<1>2. CASE Visible' = Visible
  BY <1>1, <1>2 DEF Register!vars
<1>3. CASE Visible' # Visible
  <2>1. PICK d \in Clusters : Visible'[d] # Visible[d]
    BY <1>3 DEF Visible
  <2>2. ASSUME NEW e \in Clusters
        PROVE  \/ Visible'[e] = Visible[e]
               \/ /\ kind \in {"db", "http"} => e = d
                  /\ \E is \in Visible'[e], old \in Visible[e] :
                       /\ Visible'[e] = {is}
                       /\ Visible[e] = {old}
                       /\ Register!Newer(is, old)
    BY <2>1 DEF Replaced
  <2>3. Register!Save(d)
    BY <2>1, <2>2 DEF Register!Save
  <2> QED BY <1>1, <2>3 DEF Register!Next
<1> QED BY <1>2, <1>3

(* One state is read from a named cluster. *)
LEMMA OneRead ==
  ASSUME StorageInv, ~raced, NEW d \in Clusters
  PROVE  \E s \in State \cup {NoState} : Latest(d) = {s} /\ (s # NoState => s \in Found(d))
<1>1. d \in Named /\ ~Ambiguous(d)
  BY DEF Named, Ambiguous
<1>2. PICK s \in State \cup {NoState} : Latest(d) = {s}
  BY <1>1, LatestIsOne DEF StorageInv
<1>3. s # NoState => s \in Found(d)
  BY <1>2 DEF Latest
<1> QED BY <1>2, <1>3

(* A save of an object, a table or a URL is the register's. *)
LEMMA PutRegister ==
  ASSUME StorageInv, ~raced, ~raced', NEW o \in Operators, SessionInv(o), PutState(o),
         \A p \in Operators \ {o} : pc[p] = "idle" /\ pc'[p] = "idle"
  PROVE  Register!Next \/ UNCHANGED Register!vars
<1>0. TypeOK /\ TimesInv
  BY DEF StorageInv
<1>1. PICK c \in Named, new \in State :
           /\ c = session[o].cluster /\ new.cluster = c
           /\ new.serial = session[o].serial
           /\ Put(new)
           /\ kind' = kind
           /\ pc[o] = "put" /\ pc'[o] = "work"
           /\ kind # "local" /\ (kind # "db" => new.created = 0)
  <2>1. pc[o] = "put"
    BY DEF PutState
  <2> QED BY <1>0, <2>1, NewState DEF TypeOK
<1>2. Visible = [d \in Clusters |-> Latest(d)] /\ Visible' = [d \in Clusters |-> Latest(d)']
  BY <1>1, VisibleAlone
<1>3. Found(c)' = {new}
  BY <1>1, PutFound DEF Saving
<1>4. ASSUME NEW d \in Clusters PROVE Visible'[d] = Visible[d] \/ Replaced(d, c, new)
  <2>1. PICK old \in State \cup {NoState} : Latest(d) = {old} /\ (old # NoState => old \in Found(d))
    BY OneRead
  <2>2. d \in Named
    BY DEF Named
  <2>3. CASE kind \in {"db", "http"} /\ d # c
    <3>1. Found(d)' = Found(d)
      <4>1. CASE kind = "db"
        <5>1. Rows(d)' = Rows(d)
          BY <1>0, <1>1, <2>3, <4>1, PutPlace DEF Rows
        <5>2. Newest(Rows(d))' = Newest(Rows(d))
          BY <5>1 DEF Newest
        <5> QED BY <1>1, <4>1, <5>2 DEF Found, FoundInTable
      <4>2. CASE kind = "http"
        <5>1. FoundAtURL(d)' = FoundAtURL(d)
          BY <1>0, <1>1, <2>3, <4>2, PutPlace DEF FoundAtURL
        <5> QED BY <1>1, <4>2, <5>1 DEF Found
      <4> QED BY <2>3, <4>1, <4>2
    <3>2. Latest(d)' = Latest(d)
      BY <3>1 DEF Latest
    <3> QED BY <1>2, <3>2
  <2>4. CASE d = c
    <3>1. Latest(d)' = {new}
      BY <1>3, <2>4 DEF Latest
    <3>2. old # NoState => old \in Rivals(c)
      <4>1. Found(c) \subseteq Rivals(c)
        BY <1>1 DEF Rivals, Found, FoundInTable, Newest
      <4> QED BY <2>1, <2>4, <4>1
    <3>3. Register!Newer(new, old)
      BY <1>0, <1>1, <2>1, <2>2, <3>2, NoStateAssumption, LatestType
      DEF Register!Newer, SessionInv, Saving, TimesInv, State
    <3> QED BY <1>2, <2>1, <2>4, <3>1, <3>3 DEF Replaced
  <2>5. CASE kind \notin {"db", "http"}
    <3>1. Found(d) = saved /\ Found(c) = saved /\ Rivals(c) = saved
      BY <1>0, <1>1, <2>5 DEF TypeOK, AllKinds, Found, FoundInS3, FoundInOSS, Rivals
    <3>2. Found(d)' = {new}
      BY <1>0, <1>1, <1>3, <2>5 DEF TypeOK, AllKinds, Found, FoundInS3, FoundInOSS
    <3>3. Latest(d)' = {new}
      BY <3>2 DEF Latest
    <3>4. Register!Newer(new, old)
      BY <1>0, <1>1, <2>1, <3>1, NoStateAssumption
      DEF Register!Newer, SessionInv, Saving, TimesInv, State
    <3> QED BY <1>2, <2>1, <2>5, <3>3, <3>4 DEF Replaced
  <2> QED BY <2>3, <2>4, <2>5
<1>5. raced' = raced
  BY DEF PutState
<1> QED BY <1>1, <1>4, <1>5, SaveOrStutter

(* A file that is truncated takes its new state at once, for everybody. *)
LEMMA TruncateRegister ==
  ASSUME StorageInv, ~raced, ~raced', NEW o \in Operators, SessionInv(o), Truncate(o),
         \A p \in Operators \ {o} : pc[p] = "idle" /\ pc'[p] = "idle"
  PROVE  Register!Next \/ UNCHANGED Register!vars
<1>0. TypeOK
  BY DEF StorageInv
<1>1. /\ pc[o] = "truncate" /\ pc'[o] = "write" /\ session' = session
      /\ kind = "local" /\ kind' = kind /\ raced' = raced
  BY <1>0 DEF Truncate, Goto, TypeOK
<1>2. PICK new \in State : /\ new = Saved(session[o], session[o].created)
                           /\ new.serial = session[o].serial
                           /\ new.created = session[o].created
  <2>1. session[o] \in Session /\ session[o].created \in Nat
    BY <1>0 DEF TypeOK, Session
  <2> QED BY <2>1, SavedType
<1>3. Visible = [d \in Clusters |-> Latest(d)] /\ Visible' = [d \in Clusters |-> {new}]
  BY <1>1, <1>2, VisibleAlone
<1>4. ASSUME NEW d \in Clusters PROVE Replaced(d, session[o].cluster, new)
  <2>1. PICK old \in State \cup {NoState} : Latest(d) = {old} /\ (old # NoState => old \in Found(d))
    BY OneRead
  <2>2. Found(d) = FoundInFile /\ Rivals(session[o].cluster) = FoundInFile
    BY <1>1 DEF Found, Rivals
  <2>3. Register!Newer(new, old)
    BY <1>1, <1>2, <2>1, <2>2, NoStateAssumption
    DEF Register!Newer, SessionInv, Saving, State
  <2> QED BY <1>1, <1>3, <2>1, <2>3 DEF Replaced
<1> QED BY <1>1, <1>4, SaveOrStutter

(* The write that follows shows nothing new. *)
LEMMA WriteRegister ==
  ASSUME StorageInv, ~raced, ~raced', NEW o \in Operators, SessionInv(o), Write(o),
         \A p \in Operators \ {o} : pc[p] = "idle" /\ pc'[p] = "idle"
  PROVE  UNCHANGED Register!vars
<1>0. TypeOK /\ TimesInv
  BY DEF StorageInv
<1>1. PICK c \in Named, new \in State :
           /\ c = session[o].cluster /\ new.cluster = c
           /\ new.serial = session[o].serial
           /\ new = Saved(session[o], session[o].created)
           /\ Put(new)
           /\ kind' = kind /\ pc[o] \in {"put", "write"} /\ pc'[o] = "work"
  <2>1. kind = "local"
    BY <1>0 DEF Write, TypeOK
  <2> QED BY <1>0, <2>1, NewState
<1>2. pc[o] = "write" /\ kind = "local" /\ file' = "whole" /\ raced' = raced
  BY <1>0 DEF Write, TypeOK, SessionInv
<1>3. saved' = {new}
  BY <1>0, <1>1, <1>2, PutPlace
<1>4. \A d : Latest(d)' = {new}
  BY <1>1, <1>2, <1>3 DEF Latest, Found, FoundInFile
<1>5. Visible = [d \in Clusters |-> {new}] /\ Visible' = [d \in Clusters |-> Latest(d)']
  BY <1>1, <1>2, VisibleAlone
<1>6. Visible' = Visible
  BY <1>4, <1>5
<1> QED BY <1>1, <1>2, <1>6 DEF Register!vars

(* A save that fails and a command that dies lose nothing, unless a file   *)
(* was being written.                                                      *)
LEMMA CutRegister ==
  ASSUME StorageInv, ~raced, ~raced', NEW o \in Operators, SessionInv(o),
         SaveFails(o) \/ Crash(o),
         \A p \in Operators \ {o} : pc[p] = "idle" /\ pc'[p] = "idle"
  PROVE  Register!Next \/ UNCHANGED Register!vars
<1>0. TypeOK
  BY DEF StorageInv
<1>1. /\ UNCHANGED <<kind, saved>> /\ raced' = raced /\ pc'[o] # "write"
      /\ pc[o] = "write" => file' \in {file, "garbled"}
      /\ pc[o] # "write" => file' = file
  BY <1>0 DEF SaveFails, Fails, Crash, CutOff, End, Goto, TypeOK
<1>2. Visible' = [d \in Clusters |-> Latest(d)']
  BY <1>1, VisibleAlone
<1>3. CASE pc[o] # "write"
  <2>1. Visible = [d \in Clusters |-> Latest(d)]
    BY <1>3, VisibleAlone
  <2>2. \A d : Latest(d)' = Latest(d)
    BY <1>1, <1>3, SamePlace
  <2>3. Visible' = Visible
    BY <1>2, <2>1, <2>2
  <2> QED BY <1>1, <2>3 DEF Register!vars
<1>4. CASE pc[o] = "write"
  <2>1. kind = "local" /\ file' # "whole"
    BY <1>0, <1>1, <1>4 DEF TypeOK, SessionInv
  <2>2. \A d : Latest(d)' = {NoState}
    BY <1>1, <2>1 DEF Latest, Found, FoundInFile
  <2>3. \A d \in Clusters : Visible'[d] = {NoState}
    BY <1>2, <2>2
  <2>4. Register!Forget
    BY <1>1, <2>1, <2>3 DEF Register!Forget
  <2>5. /\ (kind \in {"db", "http"})' = (kind \in {"db", "http"})
        /\ (kind = "local")' = (kind = "local") /\ (kind # "db")' = (kind # "db")
    BY <1>1
  <2> QED BY <2>4, <2>5 DEF Register!Next
<1> QED BY <1>3, <1>4

(* Every step of a command is one of the register, or none of its business. *)
LEMMA RegisterStep ==
  ASSUME StorageInv, NEW o \in Operators, Step(o)
  PROVE  Register!Next \/ UNCHANGED Register!vars
<1>0. TypeOK /\ TimesInv
  BY DEF StorageInv
<1>1. kind' = kind
  <2>1. PutState(o) \/ Write(o) => kind' = kind
    BY DEF PutState, Write
  <2> QED BY <1>0, <2>1, SaveOrNot
<1>2. /\ (kind \in {"db", "http"})' = (kind \in {"db", "http"})
      /\ (kind = "local")' = (kind = "local") /\ (kind # "db")' = (kind # "db")
  BY <1>1
<1>3. CASE raced'
  BY <1>2, <1>3 DEF Register!Next, Register!Disturb
<1>4. CASE ~raced'
  <2>1. ~raced /\ \A p \in Operators \ {o} : pc[p] = "idle" /\ pc'[p] = "idle"
    BY <1>4, Alone DEF StorageInv
  <2>2. SessionInv(o)
    BY <2>1 DEF StorageInv
  <2>3. ASSUME UNCHANGED <<kind, saved, file>>, pc[o] # "write", pc'[o] # "write"
        PROVE  UNCHANGED Register!vars
    <3>1. Visible = [d \in Clusters |-> Latest(d)] /\ Visible' = [d \in Clusters |-> Latest(d)']
      BY <1>4, <2>1, <2>3, VisibleAlone
    <3>2. \A d : Latest(d)' = Latest(d)
      BY <2>3, SamePlace
    <3>3. Visible' = Visible
      BY <3>1, <3>2
    <3>4. raced' = raced
      <4>1. raced \in BOOLEAN /\ raced' \in BOOLEAN
        BY <1>0, TypeStep DEF TypeOK
      <4>2. raced = FALSE /\ raced' = FALSE
        BY <1>4, <2>1, <4>1
      <4> QED BY <4>2
    <3> QED BY <1>2, <3>3, <3>4 DEF Register!vars
  <2> QED BY <1>0, <1>4, <2>1, <2>2, <2>3, QuietStep, PutRegister, TruncateRegister,
             WriteRegister, CutRegister
<1> QED BY <1>3, <1>4

(* GetLatestState and Apply of the file, S3, OSS, database and HTTP        *)
(* storages are reads and saves of a register per cluster, as long as      *)
(* commands do not overlap.                                                *)
THEOREM StorageImplementsRegister == Spec => RegisterSpec
<1>1. Init => Register!Init
  <2> SUFFICES ASSUME Init PROVE Register!Init
    OBVIOUS
  <2>1. Writing = {} /\ saved = {}
    BY DEF Init, Writing
  <2>2. \A c : Found(c) = {}
    BY <2>1 DEF Init, Found, FoundInFile, FoundInTable, Newest, Rows, FoundInS3, FoundInOSS,
                FoundAtURL, AllKinds
  <2>3. Visible = [c \in Clusters |-> {NoState}]
    BY <2>1, <2>2 DEF Visible, Latest
  <2>4. raced = FALSE
    BY DEF Init
  <2> QED BY <2>3, <2>4 DEF Register!Init
<1>2. StorageInv /\ [Next]_vars => [Register!Next]_(Register!vars)
  <2> SUFFICES ASSUME StorageInv, [Next]_vars
               PROVE  Register!Next \/ UNCHANGED Register!vars
    OBVIOUS
  <2>1. CASE UNCHANGED vars
    <3>1. /\ UNCHANGED <<kind, saved, file>> /\ pc' = pc /\ session' = session /\ raced' = raced
      BY <2>1 DEF vars
    <3>2. \A d : Latest(d)' = Latest(d)
      BY <3>1, SamePlace
    <3>3. Writing' = Writing
      BY <3>1 DEF Writing
    <3>4. Visible' = Visible
      BY <3>1, <3>2, <3>3 DEF Visible, Saved
    <3> QED BY <3>1, <3>4 DEF Register!vars
  <2>2. CASE Next
    BY <2>1, <2>2, RegisterStep DEF Next, Rest
  <2> QED BY <2>1, <2>2
<1> QED BY <1>1, <1>2, StorageInvariant, PTL DEF Spec, RegisterSpec, Register!Spec
=============================================================================
