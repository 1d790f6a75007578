---------------------------- MODULE ReadingProofs ----------------------------
(***************************************************************************)
(* From an uploaded file to its rows, for any number of statements,        *)
(* accounts, days, pages, runs, answers and tries.  PdfStore: rows and     *)
(* files agree, and the retention sweep is exact.  OcrStage: a text is     *)
(* that of all its pages, and splits cut it between accounts.  LlmAttempt: *)
(* what was guessed is held, what is verified ties to printed balances,    *)
(* retries and costs are right, and what is repaired is what is wrong.     *)
(***************************************************************************)
EXTENDS PdfStore, OcrStage, LlmAttempt, FiniteFacts, SequenceTheorems

\* A request that is not an upload runs alone, and nobody splits a statement
\* whose PDF is gone.
Tidy == Mingle \subseteq {"upload"} /\ ~SplitPurged

\* The types of a request and of a row, as StoreTypeOK has them.
SlotType ==
    [kind : Request \cup {"none"}, pc : Pc \cup {"idle"}, stmt : Ids \cup {0},
     account : Owners \cup {0}, path : Paths, gone : BOOLEAN, left : 0..2,
     cutoff : 0..MaxDay, todo : SUBSET Paths, used : SUBSET Paths, missed : SUBSET Paths]

RowType ==
    [state : {"unused", "live", "deleted"}, account : Owners \cup {0}, whole : BOOLEAN,
     path : Paths, gone : BOOLEAN, born : Days, busy : BOOLEAN]

UploadPc == {"store", "insert", "restore"}

\* Requests about to remove or to use the file of their path, and those that
\* have just removed it.
Touching == {"insert", "restore", "refs", "discard"}
Flagging == {"flag", "purged"}

\* Only uploads go on beside one another.
Alone ==
    \A r, q \in Slots :
        r # q /\ slot[r].pc # "idle" /\ slot[q].pc # "idle" =>
            slot[r].kind = "upload" /\ slot[q].kind = "upload"

\* While an upload is under way its account has no other copy than those that
\* uploads of the same day insert, or the path it stores to will be read.
UploadOK(p) ==
    /\ p.pc \in UploadPc <=> p.kind = "upload"
    /\ p.pc \in {"insert", "restore"} => p.path = MonthOf(day)
    /\ p.pc = "insert" \/ (p.pc = "store" /\ ~p.gone) =>
          \A s \in Live : row[s].account = p.account =>
              row[s].whole /\ ~row[s].gone /\ row[s].path = MonthOf(day)
    /\ p.pc = "restore" \/ (p.pc = "store" /\ p.gone) =>
          (\E s \in Live : row[s].gone) \/ Holders(MonthOf(day)) # {}

\* Until the first accident a request's file is there when it is about to be
\* used, and not there any more when its statements are about to be flagged.
FileOK(p) ==
    accidents = 0 =>
        /\ p.pc \in {"insert", "restore", "spawn"} => file[p.path] # Never
        /\ p.pc \in Flagging => file[p.path] = Never

\* What a deletion has read is still so, and its file goes when nobody holds it.
RemovalOK(p) ==
    /\ p.pc = "drop" => /\ p.stmt \in Live
                        /\ p.path = row[p.stmt].path /\ p.gone = row[p.stmt].gone
    /\ p.pc = "discard" => Holders(p.path) = {}

\* The sweep has every old file on its list, knows every file in use, and
\* removes the file at hand only if it is neither new nor in use.
SweepOK(p) ==
    /\ p.pc = "inuse" => \A s \in Ids : Expired(s, p.cutoff) => row[s].path \in p.todo
    /\ p.pc \in {"next", "stat", "purge", "purged"} =>
          /\ \A s \in Ids : InUse(s, p.cutoff) => row[s].path \in p.used
          /\ \A s \in Ids : Expired(s, p.cutoff) =>
                \/ row[s].path \in p.todo \cup p.used \cup p.missed
                \/ file[row[s].path] >= p.cutoff
                \/ p.pc # "next" /\ row[s].path = p.path
    /\ p.pc \in {"stat", "purge"} => p.path \notin p.used
    /\ p.pc = "purge" => file[p.path] < p.cutoff

SlotOK(p) == UploadOK(p) /\ FileOK(p) /\ RemovalOK(p) /\ SweepOK(p)

\* Row numbers are given out in order.
Numbered == \A s, u \in Ids : row[s].state # "unused" /\ row[u].state = "unused" => s < u

\* Of two rows of an account on one path, one flagged and one not, the upload
\* finds the flagged one first.
FlaggedFirst ==
    \A s, t \in Live :
        /\ row[s].gone /\ ~row[t].gone
        /\ row[s].account = row[t].account /\ row[s].path = row[t].path
        => ~row[t].whole /\ (row[s].whole \/ s < t)

\* Until the first accident, flags and files agree but for what is under way.
InStep ==
    accidents = 0 =>
        /\ \A s \in Live : ~row[s].gone =>
              \/ Present(s)
              \/ \E r \in Slots : slot[r].pc \in Flagging /\ slot[r].path = row[s].path
        /\ \A p \in Paths : file[p] # Never =>
              \/ Holders(p) # {}
              \/ \E r \in Slots : slot[r].pc \in Touching /\ slot[r].path = p

\* The inductive invariant.
StoreInv ==
    /\ StoreTypeOK /\ Alone /\ (\A r \in Slots : SlotOK(slot[r]))
    /\ Numbered /\ FlaggedFirst /\ InStep

-----------------------------------------------------------------------------
(* Steps of one request that touch neither rows nor files. *)

\* What the assumption on the constants gives.
LEMMA StoreConstants ==
    /\ MaxStatements \in Nat /\ MaxDay \in Nat /\ MonthDays \in Nat \ {0} /\ Window \in Nat
    /\ 1 \in Days /\ 1 \in Paths
    /\ Owners \subseteq Nat \ {0} /\ Mingle \subseteq Request
<1>1. /\ MaxStatements \in Nat /\ MaxDay \in Nat \ {0} /\ MonthDays \in Nat \ {0} /\ Window \in Nat
      /\ Owners \subseteq Nat \ {0} /\ Mingle \subseteq Request
  BY StoreAssumption
<1>2. 1 \in Days
  BY <1>1 DEF Days
<1>3. MonthOf(1) = 1
  BY <1>1 DEF MonthOf
<1>4. 1 \in Paths
  BY <1>2, <1>3 DEF Paths
<1> QED BY <1>1, <1>2, <1>4

\* The type invariant in the names used here.
LEMMA StoreTypes ==
    StoreTypeOK <=>
        /\ day \in Days /\ file \in [Paths -> Days \cup {Never}] /\ row \in [Ids -> RowType]
        /\ slot \in [Slots -> SlotType] /\ accidents \in Nat
BY DEF StoreTypeOK, RowType, SlotType

\* The resting values are well typed.
LEMMA IdleTypes == Idle \in SlotType /\ NoRow \in RowType
BY StoreConstants DEF Idle, NoRow, SlotType, RowType

\* Whoever is not uploading is alone.
LEMMA NobodyElse ==
    ASSUME Alone, NEW r \in Slots, UploadOK(slot[r]),
           slot[r].pc \notin UploadPc \cup {"idle"}
    PROVE  \A q \in Slots : q # r => slot[q].pc = "idle"
BY DEF Alone, UploadOK

\* A request that rests promises nothing.
LEMMA RestingIsOK ==
    ASSUME NEW p, p.pc = "idle", p.kind # "upload"
    PROVE  SlotOK(p)
BY DEF SlotOK, UploadOK, FileOK, RemovalOK, SweepOK, UploadPc, Flagging

\* A request may begin beside uploads only if it is one.
LEMMA Begins ==
    ASSUME Tidy, NEW r \in Slots, NEW kind, Free(r, kind)
    PROVE  /\ slot[r].pc = "idle"
           /\ \A q \in Slots : slot[q].pc # "idle" => kind = "upload" /\ slot[q].kind = "upload"
BY DEF Tidy, Free

\* A step of one request that touches neither rows nor files.
LEMMA SlotStep ==
    ASSUME StoreInv, NEW r \in Slots, NEW p \in SlotType,
           UNCHANGED <<day, file, row>>, accidents' \in Nat, accidents <= accidents',
           slot' = [slot EXCEPT ![r] = p],
           p.pc # "idle" => \A q \in Slots :
              q # r /\ slot[q].pc # "idle" => p.kind = "upload" /\ slot[q].kind = "upload",
           SlotOK(p),
           accidents' = 0 =>
              /\ slot[r].pc \notin Flagging
              /\ slot[r].pc \in Touching =>
                    \/ file[slot[r].path] = Never \/ Holders(slot[r].path) # {}
                    \/ p.pc \in Touching /\ p.path = slot[r].path
    PROVE  StoreInv'
<1>0. StoreTypeOK /\ accidents \in Nat /\ slot \in [Slots -> SlotType]
  BY StoreTypes DEF StoreInv
<1>s. /\ slot'[r] = p /\ \A q \in Slots : q # r => slot'[q] = slot[q]
      /\ slot' \in [Slots -> SlotType]
  BY <1>0
<1>z. accidents' = 0 => accidents = 0
  BY <1>0
<1>1. StoreTypeOK'
  BY <1>0, <1>s DEF StoreTypeOK, SlotType
<1>2. Alone'
  BY <1>s DEF StoreInv, Alone
<1>3. ASSUME NEW q \in Slots PROVE SlotOK(slot[q])'
  <2>1. PICK x : x = slot'[q]
    OBVIOUS
  <2>2. SlotOK(x)
    BY <1>s, <2>1 DEF StoreInv
  <2>3. UploadOK(x)' /\ RemovalOK(x)' /\ SweepOK(x)'
    BY <2>2 DEF SlotOK, UploadOK, RemovalOK, SweepOK, Live, Holders, Expired, InUse
  <2>4. FileOK(x)'
    BY <2>2, <1>z DEF SlotOK, FileOK
  <2> QED BY <2>1, <2>3, <2>4 DEF SlotOK
<1>4. Numbered'
  BY DEF StoreInv, Numbered
<1>5. FlaggedFirst'
  BY DEF StoreInv, FlaggedFirst, Live
<1>6. InStep'
  <2> SUFFICES ASSUME accidents' = 0
               PROVE  /\ \A s \in Live : ~row[s].gone =>
                          \/ Present(s)
                          \/ \E q \in Slots : slot'[q].pc \in Flagging /\ slot'[q].path = row[s].path
                      /\ \A m \in Paths : file[m] # Never =>
                          \/ Holders(m) # {}
                          \/ \E q \in Slots : slot'[q].pc \in Touching /\ slot'[q].path = m
    BY DEF InStep, Live, Holders, Present
  <2>1. /\ \A s \in Live : ~row[s].gone =>
              \/ Present(s)
              \/ \E q \in Slots : slot[q].pc \in Flagging /\ slot[q].path = row[s].path
        /\ \A m \in Paths : file[m] # Never =>
              \/ Holders(m) # {}
              \/ \E q \in Slots : slot[q].pc \in Touching /\ slot[q].path = m
    BY <1>z DEF StoreInv, InStep
  <2>2. \A s \in Live : ~row[s].gone =>
              \/ Present(s)
              \/ \E q \in Slots : slot'[q].pc \in Flagging /\ slot'[q].path = row[s].path
    BY <2>1, <1>s
  <2>3. ASSUME NEW m \in Paths, file[m] # Never, Holders(m) = {}
        PROVE  \E q \in Slots : slot'[q].pc \in Touching /\ slot'[q].path = m
    BY <2>1, <2>3, <1>s
  <2> QED BY <2>2, <2>3
<1> QED BY <1>1, <1>2, <1>3, <1>4, <1>5, <1>6 DEF StoreInv

\* The same for a request that ends, or dies.
LEMMA EndStep ==
    ASSUME StoreInv, NEW r \in Slots,
           UNCHANGED <<day, file, row>>, accidents' \in Nat, accidents <= accidents',
           RequestEnds(r),
           accidents' = 0 =>
              /\ slot[r].pc \notin Flagging
              /\ slot[r].pc \in Touching =>
                    file[slot[r].path] = Never \/ Holders(slot[r].path) # {}
    PROVE  StoreInv'
<1>1. Idle \in SlotType /\ Idle.pc = "idle" /\ Idle.kind # "upload"
  BY IdleTypes DEF Idle
<1>2. SlotOK(Idle)
  BY <1>1, RestingIsOK
<1> QED BY <1>1, <1>2, SlotStep DEF RequestEnds

\* The look-up of an upload finds a row whenever the account has one.
LEMMA FindsOne ==
    ASSUME StoreTypeOK, NEW s \in Live
    PROVE  findByAccountAndHash(row[s].account) # {}
<1> DEFINE mine == {t \in Live : row[t].account = row[s].account}
           wholes == {t \in mine : row[t].whole}
<1>n. Live \in SUBSET Nat
  BY StoreConstants DEF Live, Ids
<1>1. mine \in SUBSET Nat /\ wholes \in SUBSET Nat /\ mine # {}
  BY <1>n
<1>2. CASE wholes # {}
  <2>1. PICK m \in wholes : \A k \in wholes : m <= k
    BY <1>1, <1>2, Smallest
  <2>2. m \in mine /\ \A t \in mine : ~(row[t].whole = row[m].whole /\ t < m)
    BY <2>1, <1>n
  <2>3. m \in mine /\ \A t \in mine : ~(row[t].whole /\ ~row[m].whole)
    BY <2>1
  <2> HIDE DEF wholes
  <2> QED BY <2>2, <2>3 DEF findByAccountAndHash
<1>3. CASE wholes = {}
  <2>1. PICK m \in mine : \A k \in mine : m <= k
    BY <1>1, Smallest
  <2>2. m \in mine /\ \A t \in mine : ~(t < m)
    BY <2>1, <1>n
  <2>3. \A t \in mine : ~row[t].whole
    BY <1>3
  <2> HIDE DEF wholes
  <2> QED BY <2>2, <2>3 DEF findByAccountAndHash
<1> QED BY <1>2, <1>3

\* An upload begins: its look-up tells it the truth about its account.
LEMMA StartUploadStep ==
    ASSUME StoreInv, Tidy, NEW r \in Slots, NEW a \in Owners, StartUpload(r, a)
    PROVE  StoreInv'
<1> DEFINE found == findByAccountAndHash(a) # {}
           p == [Idle EXCEPT !.kind = "upload", !.pc = "store", !.account = a, !.gone = found]
<1>0. StoreTypeOK /\ accidents \in Nat
  BY StoreTypes DEF StoreInv
<1>1. /\ slot' = [slot EXCEPT ![r] = p] /\ UNCHANGED <<day, file, row, accidents>>
      /\ Free(r, "upload") /\ \A s \in findByAccountAndHash(a) : row[s].gone
  BY DEF StartUpload
<1>2. /\ slot[r].pc = "idle"
      /\ \A q \in Slots : slot[q].pc # "idle" => slot[q].kind = "upload"
  BY <1>1, Begins
<1>3. found \in BOOLEAN
  OBVIOUS
<1>f. /\ found => \E s \in Live : row[s].gone
      /\ ~found => \A s \in Live : row[s].account # a
  <2>1. \A s \in findByAccountAndHash(a) : s \in Live
    BY DEF findByAccountAndHash
  <2>2. \A s \in Live : row[s].account = a => found
    BY <1>0, FindsOne
  <2> QED BY <1>1, <2>1, <2>2
<1> HIDE DEF found
<1>4. p \in SlotType /\ p.kind = "upload" /\ p.pc = "store" /\ p.account = a /\ p.gone = found
  BY <1>3, IdleTypes DEF Idle, SlotType, Request, Pc
<1> HIDE DEF p
<1>5. UploadOK(p)
  BY <1>4, <1>f DEF UploadOK, UploadPc
<1>6. SlotOK(p)
  BY <1>4, <1>5 DEF SlotOK, FileOK, RemovalOK, SweepOK, Flagging
<1>7. accidents' \in Nat /\ accidents <= accidents'
  BY <1>0, <1>1
<1>8. slot[r].pc \notin Flagging \cup Touching
  BY <1>2 DEF Flagging, Touching
<1> QED BY <1>1, <1>2, <1>4, <1>6, <1>7, <1>8, SlotStep

\* A deletion begins.
LEMMA StartRemovalSteps ==
    ASSUME StoreInv, Tidy, NEW r \in Slots, NEW s \in Ids, StartDeletePdf(r, s) \/ StartDelete(r, s)
    PROVE  StoreInv'
<1>0. StoreTypeOK /\ accidents \in Nat /\ row[s] \in RowType
  BY StoreTypes DEF StoreInv
<1>1. CASE StartDeletePdf(r, s)
  <2> DEFINE p == [Idle EXCEPT !.kind = "deletePdf", !.pc = "unlink", !.path = row[s].path]
  <2>1. slot' = [slot EXCEPT ![r] = p] /\ UNCHANGED <<day, file, row, accidents>>
    BY <1>1 DEF StartDeletePdf
  <2>2. slot[r].pc = "idle" /\ \A q \in Slots : slot[q].pc = "idle"
    BY <1>1, Begins DEF StartDeletePdf
  <2>3. p \in SlotType /\ p.kind = "deletePdf" /\ p.pc = "unlink"
    BY <1>0, IdleTypes DEF Idle, SlotType, RowType, Request, Pc
  <2> HIDE DEF p
  <2>4. SlotOK(p)
    BY <2>3 DEF SlotOK, UploadOK, FileOK, RemovalOK, SweepOK, Flagging, UploadPc
  <2>5. accidents' \in Nat /\ accidents <= accidents'
    BY <1>0, <2>1
  <2>6. slot[r].pc \notin Flagging \cup Touching
    BY <2>2 DEF Flagging, Touching
  <2> QED BY <2>1, <2>2, <2>3, <2>4, <2>5, <2>6, SlotStep
<1>2. CASE StartDelete(r, s)
  <2> DEFINE p == [Idle EXCEPT !.kind = "delete", !.pc = "drop", !.stmt = s,
                               !.path = row[s].path, !.gone = row[s].gone]
  <2>1. slot' = [slot EXCEPT ![r] = p] /\ UNCHANGED <<day, file, row, accidents>> /\ s \in Live
    BY <1>2 DEF StartDelete
  <2>2. slot[r].pc = "idle" /\ \A q \in Slots : slot[q].pc = "idle"
    BY <1>2, Begins DEF StartDelete
  <2>3. /\ p \in SlotType /\ p.kind = "delete" /\ p.pc = "drop"
        /\ p.stmt = s /\ p.path = row[s].path /\ p.gone = row[s].gone
    BY <1>0, IdleTypes DEF Idle, SlotType, RowType, Request, Pc
  <2> HIDE DEF p
  <2>4. SlotOK(p)
    BY <2>1, <2>3 DEF SlotOK, UploadOK, FileOK, RemovalOK, SweepOK, Flagging, UploadPc
  <2>5. accidents' \in Nat /\ accidents <= accidents'
    BY <1>0, <2>1
  <2>6. slot[r].pc \notin Flagging \cup Touching
    BY <2>2 DEF Flagging, Touching
  <2> QED BY <2>1, <2>2, <2>3, <2>4, <2>5, <2>6, SlotStep
<1> QED BY <1>1, <1>2

\* A sweep begins with every old file on its list.
LEMMA StartSweepStep ==
    ASSUME StoreInv, Tidy, NEW r \in Slots, StartSweep(r)
    PROVE  StoreInv'
<1> DEFINE old == {row[s].path : s \in {t \in Ids : Expired(t, day - Window)}}
           p == [Idle EXCEPT !.kind = "sweep", !.pc = "inuse", !.cutoff = day - Window, !.todo = old]
<1>0. StoreTypeOK /\ accidents \in Nat /\ day \in Days /\ \A s \in Ids : row[s] \in RowType
  BY StoreTypes DEF StoreInv
<1>1. slot' = [slot EXCEPT ![r] = p] /\ UNCHANGED <<day, file, row, accidents>> /\ day > Window
  BY DEF StartSweep
<1>2. slot[r].pc = "idle" /\ \A q \in Slots : slot[q].pc = "idle"
  BY Begins DEF StartSweep
<1>3. old \in SUBSET Paths
  BY <1>0 DEF RowType
<1>4. \A s \in Ids : Expired(s, day - Window) => row[s].path \in old
  OBVIOUS
<1> HIDE DEF old
<1>5. day - Window \in 0..MaxDay
  BY <1>0, <1>1, StoreConstants DEF Days
<1>6. /\ p \in SlotType /\ p.kind = "sweep" /\ p.pc = "inuse"
      /\ p.cutoff = day - Window /\ p.todo = old
  BY <1>3, <1>5, IdleTypes DEF Idle, SlotType, Request, Pc
<1> HIDE DEF p
<1>7. SlotOK(p)
  BY <1>4, <1>6 DEF SlotOK, UploadOK, FileOK, RemovalOK, SweepOK, Flagging, UploadPc
<1>8. accidents' \in Nat /\ accidents <= accidents'
  BY <1>0, <1>1
<1>9. slot[r].pc \notin Flagging \cup Touching
  BY <1>2 DEF Flagging, Touching
<1> QED BY <1>1, <1>2, <1>6, <1>7, <1>8, <1>9, SlotStep

\* A request that goes on alone, with what it knows so far.
LEMMA GoStep ==
    ASSUME StoreInv, NEW r \in Slots, NEW p \in SlotType,
           slot[r].pc # "idle", p.kind = slot[r].kind,
           UNCHANGED <<day, file, row>>, accidents' \in Nat, accidents <= accidents',
           slot' = [slot EXCEPT ![r] = p], SlotOK(p),
           accidents' = 0 =>
              /\ slot[r].pc \notin Flagging
              /\ slot[r].pc \in Touching =>
                    \/ file[slot[r].path] = Never \/ Holders(slot[r].path) # {}
                    \/ p.pc \in Touching /\ p.path = slot[r].path
    PROVE  StoreInv'
<1>1. \A q \in Slots : q # r /\ slot[q].pc # "idle" => p.kind = "upload" /\ slot[q].kind = "upload"
  BY DEF StoreInv, Alone
<1> QED BY <1>1, SlotStep

\* The parts of the invariant that most steps need.
LEMMA StoreFacts ==
    ASSUME StoreInv, NEW r \in Slots
    PROVE  /\ slot[r] \in SlotType /\ SlotOK(slot[r]) /\ accidents \in Nat
           /\ file \in [Paths -> Days \cup {Never}] /\ day \in Days
           /\ \A s \in Ids : row[s] \in RowType
BY StoreTypes DEF StoreInv

\* The file of a deleted statement is kept while another holds it.
LEMMA StillReferencedStep ==
    ASSUME StoreInv, NEW r \in Slots, StillReferenced(r)
    PROVE  StoreInv'
<1>0. /\ slot[r] \in SlotType /\ SlotOK(slot[r]) /\ accidents \in Nat
      /\ slot[r].pc = "refs" /\ UNCHANGED <<day, file, row, accidents>>
  BY StoreFacts DEF StillReferenced
<1>1. accidents' \in Nat /\ accidents <= accidents'
  BY <1>0
<1>2. CASE Holders(slot[r].path) = {}
  <2> DEFINE p == [slot[r] EXCEPT !.pc = "discard"]
  <2>1. /\ p \in SlotType /\ p.kind = slot[r].kind /\ p.pc = "discard" /\ p.path = slot[r].path
        /\ slot' = [slot EXCEPT ![r] = p]
    BY <1>0, <1>2 DEF StillReferenced, RequestGoes, SlotType, Pc
  <2> HIDE DEF p
  <2>2. SlotOK(p)
    BY <1>0, <1>2, <2>1 DEF SlotOK, UploadOK, FileOK, RemovalOK, SweepOK, Flagging, UploadPc
  <2>3. slot[r].pc \notin Flagging /\ p.pc \in Touching
    BY <1>0, <2>1 DEF Flagging, Touching
  <2> QED BY <1>0, <1>1, <2>1, <2>2, <2>3, GoStep
<1>3. CASE Holders(slot[r].path) # {}
  <2>1. RequestEnds(r) /\ slot[r].pc \notin Flagging
    BY <1>0, <1>3 DEF StillReferenced, Flagging
  <2> QED BY <1>0, <1>1, <1>3, <2>1, EndStep
<1> QED BY <1>2, <1>3

\* A sweep looks at files and rows, and removes nothing.
LEMMA SweepLookSteps ==
    ASSUME StoreInv, NEW r \in Slots,
           ReadInUse(r) \/ (\E m \in Paths : NextFile(r, m)) \/ storedSince(r) \/ EndSweep(r)
    PROVE  StoreInv'
<1>0. /\ slot[r] \in SlotType /\ SlotOK(slot[r]) /\ accidents \in Nat
      /\ \A s \in Ids : row[s] \in RowType
      /\ file \in [Paths -> Days \cup {Never}]
      /\ slot[r].pc \in {"inuse", "next", "stat"} /\ UNCHANGED <<day, file, row, accidents>>
  BY StoreFacts DEF ReadInUse, NextFile, storedSince, EndSweep
<1>1. /\ accidents' \in Nat /\ accidents <= accidents' /\ slot[r].pc # "idle"
      /\ slot[r].pc \notin Flagging \cup Touching
  BY <1>0 DEF Flagging, Touching
<1> USE DEF UploadPc
<1>2. CASE ReadInUse(r)
  <2> DEFINE busy == {row[s].path : s \in {t \in Ids : InUse(t, slot[r].cutoff)}}
             p == [slot[r] EXCEPT !.pc = "next", !.used = busy]
  <2>1. busy \in SUBSET Paths /\ \A s \in Ids : InUse(s, slot[r].cutoff) => row[s].path \in busy
    BY <1>0 DEF RowType
  <2>a. slot[r].pc = "inuse" /\ slot' = [slot EXCEPT ![r] = p]
    BY <1>0, <1>2 DEF ReadInUse, SlotType
  <2> HIDE DEF busy
  <2>2. /\ p \in SlotType /\ p.kind = slot[r].kind /\ p.pc = "next" /\ p.used = busy
        /\ p.todo = slot[r].todo /\ p.cutoff = slot[r].cutoff
    BY <1>0, <2>1 DEF SlotType, Pc
  <2> HIDE DEF p
  <2>3. SweepOK(p)
    BY <1>0, <2>a, <2>1, <2>2 DEF SlotOK, SweepOK
  <2>4. SlotOK(p)
    BY <1>0, <2>a, <2>2, <2>3 DEF SlotOK, UploadOK, FileOK, RemovalOK, Flagging
  <2> QED BY <1>0, <1>1, <2>a, <2>2, <2>4, GoStep
<1>3. CASE \E m \in Paths : NextFile(r, m)
  <2>m. PICK m \in Paths : NextFile(r, m)
    BY <1>3
  <2> DEFINE PC == IF m \in slot[r].used THEN "next" ELSE "stat"
             p == [slot[r] EXCEPT !.todo = @ \ {m}, !.path = m, !.pc = PC]
  <2>a. slot[r].pc = "next" /\ m \in slot[r].todo /\ slot' = [slot EXCEPT ![r] = p]
    BY <1>0, <2>m DEF NextFile, SlotType
  <2>1. PC \in {"next", "stat"} /\ (PC = "stat" <=> m \notin slot[r].used)
    OBVIOUS
  <2> HIDE DEF PC
  <2>2. /\ p \in SlotType /\ p.kind = slot[r].kind /\ p.pc = PC /\ p.used = slot[r].used
        /\ p.todo = slot[r].todo \ {m} /\ p.cutoff = slot[r].cutoff /\ p.path = m
        /\ p.missed = slot[r].missed
    BY <1>0, <2>1 DEF SlotType, Pc
  <2> HIDE DEF p
  <2>3. SweepOK(p)
    BY <1>0, <2>a, <2>1, <2>2 DEF SlotOK, SweepOK
  <2>4. SlotOK(p)
    BY <1>0, <2>a, <2>1, <2>2, <2>3 DEF SlotOK, UploadOK, FileOK, RemovalOK, Flagging
  <2> QED BY <1>0, <1>1, <2>a, <2>2, <2>4, GoStep
<1>4. CASE storedSince(r)
  <2> DEFINE PC == IF file[slot[r].path] >= slot[r].cutoff THEN "next" ELSE "purge"
             p == [slot[r] EXCEPT !.pc = PC]
  <2>a. slot[r].pc = "stat" /\ slot' = [slot EXCEPT ![r] = p]
    BY <1>0, <1>4 DEF storedSince, RequestGoes, SlotType
  <2>n. file[slot[r].path] \in Nat /\ slot[r].cutoff \in Nat
    BY <1>0, StoreConstants DEF SlotType, Days, Never
  <2>1. /\ PC \in {"next", "purge"}
        /\ PC = "next" => file[slot[r].path] >= slot[r].cutoff
        /\ PC = "purge" => file[slot[r].path] < slot[r].cutoff
    BY <2>n
  <2> HIDE DEF PC
  <2>2. /\ p \in SlotType /\ p.kind = slot[r].kind /\ p.pc = PC /\ p.used = slot[r].used
        /\ p.todo = slot[r].todo /\ p.cutoff = slot[r].cutoff /\ p.path = slot[r].path
        /\ p.missed = slot[r].missed
    BY <1>0, <2>1 DEF SlotType, Pc
  <2> HIDE DEF p
  <2>3. SweepOK(p)
    BY <1>0, <2>a, <2>1, <2>2 DEF SlotOK, SweepOK
  <2>4. SlotOK(p)
    BY <1>0, <2>a, <2>1, <2>2, <2>3 DEF SlotOK, UploadOK, FileOK, RemovalOK, Flagging
  <2> QED BY <1>0, <1>1, <2>a, <2>2, <2>4, GoStep
<1>5. CASE EndSweep(r)
  BY <1>0, <1>1, <1>5, EndStep DEF EndSweep
<1> QED BY <1>2, <1>3, <1>4, <1>5

\* A request dies.
LEMMA DieStep ==
    ASSUME StoreInv, NEW r \in Slots, Die(r)
    PROVE  StoreInv'
<1>1. accidents' \in Nat /\ accidents <= accidents' /\ accidents' # 0
  BY StoreFacts DEF Die
<1> QED BY <1>1, EndStep DEF Die

\* An unlink that fails, in any of the three places.
LEMMA FailedUnlinks ==
    ASSUME StoreInv, NEW r \in Slots, Stays(slot[r].path), UNCHANGED <<day, row>>,
           \/ RequestEnds(r)
           \/ /\ slot[r].pc = "purge"
              /\ slot' = [slot EXCEPT ![r].pc = "next", ![r].missed = @ \cup {slot[r].path}]
    PROVE  StoreInv'
<1>0. slot[r] \in SlotType /\ SlotOK(slot[r]) /\ accidents \in Nat
  BY StoreFacts
<1>1. accidents' \in Nat /\ accidents <= accidents' /\ accidents' # 0 /\ UNCHANGED file
  BY <1>0 DEF Stays
<1>2. CASE RequestEnds(r)
  BY <1>1, <1>2, EndStep
<1>3. CASE /\ slot[r].pc = "purge"
           /\ slot' = [slot EXCEPT ![r].pc = "next", ![r].missed = @ \cup {slot[r].path}]
  <2> DEFINE p == [slot[r] EXCEPT !.pc = "next", !.missed = @ \cup {slot[r].path}]
  <2>1. slot' = [slot EXCEPT ![r] = p]
    BY <1>0, <1>3 DEF SlotType
  <2>2. /\ p \in SlotType /\ p.kind = slot[r].kind /\ p.pc = "next" /\ p.used = slot[r].used
        /\ p.todo = slot[r].todo /\ p.cutoff = slot[r].cutoff /\ p.path = slot[r].path
        /\ p.missed = slot[r].missed \cup {slot[r].path}
    BY <1>0 DEF SlotType, Pc
  <2> HIDE DEF p
  <2>3. SweepOK(p)
    BY <1>0, <1>3, <2>2 DEF SlotOK, SweepOK
  <2>4. SlotOK(p)
    BY <1>0, <1>3, <2>2, <2>3 DEF SlotOK, UploadOK, FileOK, RemovalOK, Flagging, UploadPc
  <2> QED BY <1>1, <1>3, <2>1, <2>2, <2>4, GoStep
<1> QED BY <1>2, <1>3

-----------------------------------------------------------------------------
(* Unlinking, flagging, extraction and midnight. *)

\* A file is unlinked: its statements are flagged next, or there are none.
LEMMA RemovedStep ==
    ASSUME StoreInv, NEW r \in Slots, NEW p \in SlotType,
           Removed(slot[r].path), UNCHANGED <<day, row, accidents>>,
           slot' = [slot EXCEPT ![r] = p],
           \/ slot[r].pc = "discard" /\ p.pc = "idle" /\ p.kind # "upload"
           \/ /\ slot[r].pc = "unlink" /\ p.pc = "flag" /\ p.kind = slot[r].kind
              /\ p.path = slot[r].path
           \/ /\ slot[r].pc = "purge" /\ p.pc = "purged" /\ p.kind = slot[r].kind
              /\ p.path = slot[r].path /\ p.todo = slot[r].todo /\ p.cutoff = slot[r].cutoff
              /\ p.used = slot[r].used /\ p.missed = slot[r].missed
    PROVE  StoreInv'
<1>0. /\ slot[r] \in SlotType /\ SlotOK(slot[r]) /\ slot \in [Slots -> SlotType]
      /\ file \in [Paths -> Days \cup {Never}] /\ slot[r].path \in Paths
      /\ \A s \in Ids : row[s] \in RowType
  BY StoreFacts, StoreTypes DEF StoreInv, SlotType
<1>f. /\ file' \in [Paths -> Days \cup {Never}] /\ file'[slot[r].path] = Never
      /\ \A m \in Paths : m # slot[r].path => file'[m] = file[m]
  BY <1>0 DEF Removed
<1>s. /\ slot'[r] = p /\ slot' \in [Slots -> SlotType]
      /\ \A q \in Slots : q # r => slot'[q] = slot[q] /\ slot[q].pc = "idle"
  <2>1. UploadOK(slot[r]) /\ Alone /\ slot[r].pc \notin UploadPc \cup {"idle"}
    BY <1>0 DEF SlotOK, UploadPc, StoreInv
  <2>2. \A q \in Slots : q # r => slot[q].pc = "idle"
    BY <2>1, NobodyElse
  <2> QED BY <1>0, <2>2
<1>1. StoreTypeOK'
  BY <1>f, <1>s, StoreTypes DEF StoreInv, StoreTypeOK, SlotType
<1>2. Alone'
  BY <1>s DEF Alone
<1>3. SlotOK(p)'
  <2>1. UploadOK(p)'
    BY <1>0 DEF SlotOK, UploadOK, UploadPc
  <2>2. FileOK(p)'
    BY <1>f DEF FileOK, Flagging
  <2>3. RemovalOK(p)'
    BY DEF RemovalOK
  <2>4. SweepOK(p)'
    <3>1. CASE p.pc # "purged"
      BY <3>1 DEF SweepOK
    <3>2. CASE p.pc = "purged"
      <4>1. /\ \A s \in Ids : InUse(s, p.cutoff) => row[s].path \in p.used
            /\ \A s \in Ids : Expired(s, p.cutoff) =>
                \/ row[s].path \in p.todo \cup p.used \cup p.missed
                \/ file[row[s].path] >= p.cutoff
                \/ row[s].path = p.path
        BY <1>0, <3>2 DEF SlotOK, SweepOK
      <4>2. \A s \in Ids : row[s].path # p.path => file'[row[s].path] = file[row[s].path]
        BY <1>0, <1>f, <3>2 DEF RowType
      <4> QED BY <3>2, <4>1, <4>2 DEF SweepOK, InUse, Expired, Live
    <3> QED BY <3>1, <3>2
  <2> QED BY <2>1, <2>2, <2>3, <2>4 DEF SlotOK
<1>4. ASSUME NEW q \in Slots PROVE SlotOK(slot[q])'
  <2>1. CASE q = r
    <3>1. PICK x : x = slot'[q]
      OBVIOUS
    <3>2. x = p
      BY <1>s, <2>1, <3>1
    <3> QED BY <1>3, <3>1, <3>2
  <2>2. CASE q # r
    <3>1. slot'[q].pc = "idle" /\ slot'[q].kind # "upload"
      BY <1>s, <2>2 DEF StoreInv, SlotOK, UploadOK, UploadPc
    <3> QED BY <3>1 DEF SlotOK, UploadOK, FileOK, RemovalOK, SweepOK, UploadPc, Flagging
  <2> QED BY <2>1, <2>2
<1>5. Numbered' /\ FlaggedFirst'
  BY DEF StoreInv, Numbered, FlaggedFirst, Live
<1>6. InStep'
  <2> SUFFICES ASSUME accidents = 0
               PROVE  /\ \A s \in Live : ~row[s].gone =>
                          \/ file'[row[s].path] # Never
                          \/ \E q \in Slots : slot'[q].pc \in Flagging /\ slot'[q].path = row[s].path
                      /\ \A m \in Paths : file'[m] # Never => Holders(m) # {}
    BY DEF InStep, Live, Holders, Present
  <2>1. /\ \A s \in Live : ~row[s].gone => Present(s)
        /\ \A m \in Paths : file[m] # Never => Holders(m) # {} \/ slot[r].path = m
    BY <1>s DEF StoreInv, InStep, Flagging, Touching
  <2>2. ASSUME NEW s \in Live, ~row[s].gone, file'[row[s].path] = Never
        PROVE  \E q \in Slots : slot'[q].pc \in Flagging /\ slot'[q].path = row[s].path
    <3>1. row[s].path = slot[r].path
      BY <1>0, <1>f, <2>1, <2>2 DEF Present, Live, RowType
    <3>2. s \in Holders(slot[r].path)
      BY <2>2, <3>1 DEF Holders
    <3>3. slot[r].pc # "discard"
      BY <1>0, <3>2 DEF SlotOK, RemovalOK
    <3> QED BY <1>s, <3>1, <3>3 DEF Flagging
  <2> QED BY <1>f, <2>1, <2>2
<1> QED BY <1>1, <1>2, <1>4, <1>5, <1>6 DEF StoreInv

\* The statements of a file that has just been unlinked are flagged.
LEMMA FlagStep ==
    ASSUME StoreInv, NEW r \in Slots, FlagDeleted(r) \/ FlagPurged(r)
    PROVE  StoreInv'
<1>0. /\ slot[r] \in SlotType /\ SlotOK(slot[r]) /\ slot \in [Slots -> SlotType]
      /\ file \in [Paths -> Days \cup {Never}] /\ slot[r].path \in Paths
      /\ row \in [Ids -> RowType] /\ slot[r].pc \in Flagging
      /\ flagStatementsUsingPath(slot[r].path) /\ UNCHANGED <<day, file, accidents>>
  BY StoreFacts, StoreTypes DEF StoreInv, SlotType, FlagDeleted, FlagPurged, Flagging
<1>p. PICK p \in SlotType :
         /\ slot' = [slot EXCEPT ![r] = p]
         /\ \/ p.pc = "idle" /\ p.kind # "upload"
            \/ /\ slot[r].pc = "purged" /\ p.pc = "next" /\ p.kind = slot[r].kind
               /\ p.path = slot[r].path /\ p.todo = slot[r].todo /\ p.cutoff = slot[r].cutoff
               /\ p.used = slot[r].used /\ p.missed = slot[r].missed
  <2>1. CASE FlagDeleted(r)
    BY <2>1, IdleTypes DEF FlagDeleted, RequestEnds, Idle
  <2>2. CASE FlagPurged(r)
    <3> DEFINE p == [slot[r] EXCEPT !.pc = "next"]
    <3>1. /\ p \in SlotType /\ slot' = [slot EXCEPT ![r] = p]
          /\ slot[r].pc = "purged" /\ p.pc = "next" /\ p.kind = slot[r].kind
          /\ p.path = slot[r].path /\ p.todo = slot[r].todo /\ p.cutoff = slot[r].cutoff
          /\ p.used = slot[r].used /\ p.missed = slot[r].missed
      BY <1>0, <2>2 DEF FlagPurged, RequestGoes, SlotType, Pc
    <3> HIDE DEF p
    <3> QED BY <3>1
  <2> QED BY <2>1, <2>2
<1>s. /\ slot'[r] = p /\ slot' \in [Slots -> SlotType]
      /\ \A q \in Slots : q # r => slot'[q] = slot[q] /\ slot[q].pc = "idle"
  <2>1. UploadOK(slot[r]) /\ Alone /\ slot[r].pc \notin UploadPc \cup {"idle"}
    BY <1>0 DEF SlotOK, UploadPc, StoreInv, Flagging
  <2>2. \A q \in Slots : q # r => slot[q].pc = "idle"
    BY <2>1, NobodyElse
  <2> QED BY <1>0, <1>p, <2>2
<1>r. /\ row' \in [Ids -> RowType]
      /\ \A s \in Ids :
            /\ row'[s].state = row[s].state /\ row'[s].account = row[s].account
            /\ row'[s].whole = row[s].whole /\ row'[s].path = row[s].path
            /\ row'[s].born = row[s].born /\ row'[s].busy = row[s].busy
            /\ row'[s].gone <=> row[s].gone \/ s \in Holders(slot[r].path)
  <2>1. row' = [s \in Ids |-> IF s \in Holders(slot[r].path)
                             THEN [row[s] EXCEPT !.gone = TRUE] ELSE row[s]]
    BY <1>0 DEF flagStatementsUsingPath
  <2>2. ASSUME NEW s \in Ids, s \in Holders(slot[r].path)
        PROVE  /\ row'[s] \in RowType
               /\ row'[s].state = row[s].state /\ row'[s].account = row[s].account
               /\ row'[s].whole = row[s].whole /\ row'[s].path = row[s].path
               /\ row'[s].born = row[s].born /\ row'[s].busy = row[s].busy /\ row'[s].gone
    <3>1. row'[s] = [row[s] EXCEPT !.gone = TRUE] /\ row[s] \in RowType
      BY <1>0, <2>1, <2>2
    <3> QED BY <3>1 DEF RowType
  <2>3. \A s \in Ids : s \notin Holders(slot[r].path) => row'[s] = row[s]
    BY <2>1
  <2>4. row' \in [Ids -> RowType]
    <3>1. \A s \in Ids : row'[s] \in RowType
      BY <1>0, <2>2, <2>3
    <3> QED BY <2>1, <3>1
  <2> QED BY <2>2, <2>3, <2>4
<1>l. Live' = Live
  BY <1>r DEF Live
<1>h. /\ \A m \in Paths : m # slot[r].path => Holders(m)' = Holders(m)
      /\ \A s \in Live : ~row'[s].gone <=> ~row[s].gone /\ row[s].path # slot[r].path
  BY <1>r, <1>l DEF Holders, Live
<1>1. StoreTypeOK'
  <2>1. day' \in Days /\ accidents' \in Nat /\ file' \in [Paths -> Days \cup {Never}]
    BY <1>0, StoreFacts
  <2> QED BY <1>s, <1>r, <2>1 DEF StoreTypeOK, SlotType, RowType
<1>2. Alone'
  BY <1>s DEF Alone
<1>3. SlotOK(p)'
  <2>1. UploadOK(p)'
    BY <1>0, <1>p DEF SlotOK, UploadOK, UploadPc
  <2>2. FileOK(p)' /\ RemovalOK(p)'
    BY <1>p DEF FileOK, RemovalOK, Flagging
  <2>3. SweepOK(p)'
    <3>1. CASE p.pc = "idle"
      BY <3>1 DEF SweepOK
    <3>2. CASE p.pc = "next"
      <4>1. /\ \A s \in Ids : InUse(s, p.cutoff) => row[s].path \in p.used
            /\ \A s \in Ids : Expired(s, p.cutoff) =>
                \/ row[s].path \in p.todo \cup p.used \cup p.missed
                \/ file[row[s].path] >= p.cutoff
                \/ row[s].path = p.path
        BY <1>0, <1>p, <3>2 DEF SlotOK, SweepOK
      <4>2. \A s \in Ids : /\ InUse(s, p.cutoff)' => InUse(s, p.cutoff)
                           /\ Expired(s, p.cutoff)' => Expired(s, p.cutoff) /\ row[s].path # p.path
        BY <1>r, <1>l, <1>h, <1>p, <3>2 DEF InUse, Expired, Live
      <4> QED BY <1>0, <1>r, <3>2, <4>1, <4>2 DEF SweepOK
    <3> QED BY <1>p, <3>1, <3>2
  <2> QED BY <2>1, <2>2, <2>3 DEF SlotOK
<1>4. ASSUME NEW q \in Slots PROVE SlotOK(slot[q])'
  <2>1. CASE q = r
    <3>1. PICK x : x = slot'[q]
      OBVIOUS
    <3>2. x = p
      BY <1>s, <2>1, <3>1
    <3> QED BY <1>3, <3>1, <3>2
  <2>2. CASE q # r
    <3>1. slot'[q].pc = "idle" /\ slot'[q].kind # "upload"
      BY <1>s, <2>2 DEF StoreInv, SlotOK, UploadOK, UploadPc
    <3> QED BY <3>1 DEF SlotOK, UploadOK, FileOK, RemovalOK, SweepOK, UploadPc, Flagging
  <2> QED BY <2>1, <2>2
<1>5. Numbered'
  BY <1>r DEF StoreInv, Numbered
<1>6. FlaggedFirst'
  <2> SUFFICES ASSUME NEW s \in Live, NEW t \in Live, row'[s].gone, ~row'[t].gone,
                      row[s].account = row[t].account, row[s].path = row[t].path
               PROVE  ~row[t].whole /\ (row[s].whole \/ s < t)
    BY <1>r, <1>l DEF FlaggedFirst, Live
  <2>1. row[s].gone /\ ~row[t].gone
    BY <1>r, <1>h DEF Live, Holders
  <2> QED BY <2>1 DEF StoreInv, FlaggedFirst
<1>7. InStep'
  <2> SUFFICES ASSUME accidents = 0
               PROVE  /\ \A s \in Live : ~row'[s].gone => file[row[s].path] # Never
                      /\ \A m \in Paths : file[m] # Never => Holders(m)' # {}
    BY <1>0, <1>r, <1>l DEF InStep, Present, Live
  <2>1. /\ \A s \in Live : ~row[s].gone => Present(s) \/ row[s].path = slot[r].path
        /\ \A m \in Paths : file[m] # Never => Holders(m) # {}
        /\ file[slot[r].path] = Never
    BY <1>0, <1>s DEF StoreInv, InStep, Flagging, Touching, SlotOK, FileOK
  <2> QED BY <2>1, <1>h DEF Present
<1> QED BY <1>1, <1>2, <1>4, <1>5, <1>6, <1>7 DEF StoreInv

\* Rows whose extraction begins or ends.
LEMMA BusyStep ==
    ASSUME StoreInv, NEW s \in Ids, NEW b \in BOOLEAN,
           row' = [row EXCEPT ![s].busy = b], UNCHANGED <<day, file, accidents>>,
           b => \A r \in Slots : slot[r].pc = "idle",
           \/ UNCHANGED slot
           \/ \E r \in Slots, p \in SlotType :
                 /\ slot' = [slot EXCEPT ![r] = p]
                 /\ \A q \in Slots : slot[q].pc = "idle"
                 /\ p.pc = "spawn" /\ p.kind # "upload"
                 /\ accidents = 0 => file[p.path] # Never
    PROVE  StoreInv'
<1>0. /\ slot \in [Slots -> SlotType] /\ row \in [Ids -> RowType]
      /\ StoreTypeOK /\ \A r \in Slots : SlotOK(slot[r])
  BY StoreTypes DEF StoreInv
<1>r. /\ row' \in [Ids -> RowType]
      /\ \A t \in Ids :
            /\ row'[t].state = row[t].state /\ row'[t].account = row[t].account
            /\ row'[t].whole = row[t].whole /\ row'[t].path = row[t].path
            /\ row'[t].born = row[t].born /\ row'[t].gone = row[t].gone
            /\ row'[t].busy => row[t].busy \/ b
  BY <1>0 DEF RowType
<1>l. Live' = Live
  BY <1>r DEF Live
<1>h. \A m \in Paths : Holders(m)' = Holders(m)
  BY <1>r, <1>l DEF Holders, Live
<1>s. /\ slot' \in [Slots -> SlotType]
      /\ \A q \in Slots :
            \/ slot'[q] = slot[q]
            \/ /\ slot'[q].pc = "spawn" /\ slot'[q].kind # "upload"
               /\ accidents = 0 => file[slot'[q].path] # Never
      /\ \/ UNCHANGED slot
         \/ \A q \in Slots : slot[q].pc = "idle"
  BY <1>0
<1>1. StoreTypeOK'
  BY <1>0, <1>r, <1>s DEF StoreTypeOK, SlotType, RowType
<1>2. Alone'
  BY <1>0 DEF StoreInv, Alone
<1>3. ASSUME NEW q \in Slots PROVE SlotOK(slot[q])'
  <2>1. PICK x : x = slot'[q]
    OBVIOUS
  <2>t. x \in SlotType /\ MonthOf(day) \in Paths
    BY <1>0, <1>s, <2>1 DEF StoreTypeOK, Paths
  <2>2. CASE x = slot[q]
    <3>1. SlotOK(x)
      BY <1>0, <2>2
    <3>2. UploadOK(x)' /\ FileOK(x)' /\ RemovalOK(x)'
      BY <1>r, <1>l, <1>h, <2>t, <3>1 DEF SlotOK, UploadOK, FileOK, RemovalOK, Live, SlotType
    <3>3. SweepOK(x)'
      <4>1. CASE x.pc = "idle"
        BY <4>1 DEF SweepOK
      <4>2. CASE x.pc # "idle"
        <5>1. ~b
          BY <2>2, <4>2
        <5>2. \A t \in Ids : /\ InUse(t, x.cutoff)' => InUse(t, x.cutoff)
                             /\ Expired(t, x.cutoff)' => Expired(t, x.cutoff)
          BY <1>r, <1>l, <5>1 DEF InUse, Expired
        <5> QED BY <1>r, <3>1, <5>2 DEF SlotOK, SweepOK
      <4> QED BY <4>1, <4>2
    <3> QED BY <2>1, <3>2, <3>3 DEF SlotOK
  <2>3. CASE x # slot[q]
    <3>1. x.pc = "spawn" /\ x.kind # "upload" /\ (accidents = 0 => file[x.path] # Never)
      BY <1>s, <2>1, <2>3
    <3>2. SlotOK(x)'
      BY <3>1 DEF SlotOK, UploadOK, FileOK, RemovalOK, SweepOK, UploadPc, Flagging
    <3> QED BY <2>1, <3>2
  <2> QED BY <2>2, <2>3
<1>5. Numbered'
  BY <1>r DEF StoreInv, Numbered
<1>6. FlaggedFirst'
  BY <1>r, <1>l DEF StoreInv, FlaggedFirst, Live
<1>7. InStep'
  <2> SUFFICES ASSUME accidents = 0
               PROVE  /\ \A t \in Live : ~row[t].gone =>
                          \/ Present(t)
                          \/ \E q \in Slots : slot'[q].pc \in Flagging /\ slot'[q].path = row[t].path
                      /\ \A m \in Paths : file[m] # Never =>
                          \/ Holders(m) # {}
                          \/ \E q \in Slots : slot'[q].pc \in Touching /\ slot'[q].path = m
    BY <1>r, <1>l, <1>h DEF InStep, Present, Live
  <2>1. CASE UNCHANGED slot
    BY <2>1 DEF StoreInv, InStep
  <2>2. CASE \A q \in Slots : slot[q].pc = "idle"
    BY <2>2 DEF StoreInv, InStep, Flagging, Touching
  <2> QED BY <1>s, <2>1, <2>2
<1> QED BY <1>1, <1>2, <1>3, <1>5, <1>6, <1>7 DEF StoreInv

\* Extractions begin and end.
LEMMA ExtractionSteps ==
    ASSUME StoreInv, Tidy,
           \/ \E s \in Ids : ExtractionEnds(s)
           \/ \E r \in Slots, s \in Ids : ReExtract(r, s)
    PROVE  StoreInv'
<1>1. CASE \E s \in Ids : ExtractionEnds(s)
  BY <1>1, BusyStep DEF ExtractionEnds
<1>2. CASE \E r \in Slots, s \in Ids : ReExtract(r, s)
  <2>1. PICK r \in Slots, s \in Ids : ReExtract(r, s)
    BY <1>2
  <2>2. \A q \in Slots : slot[q].pc = "idle"
    BY <2>1, Begins DEF ReExtract
  <2> QED BY <2>1, <2>2, BusyStep DEF ReExtract
<1> QED BY <1>1, <1>2

\* A split begins: its file is there.
LEMMA StartSplitStep ==
    ASSUME StoreInv, Tidy, NEW r \in Slots, NEW s \in Ids, StartSplit(r, s)
    PROVE  StoreInv'
<1> DEFINE p == [Idle EXCEPT !.kind = "split", !.pc = "spawn", !.path = row[s].path, !.left = 2]
<1>0. row[s] \in RowType /\ s \in Live /\ ~row[s].gone
  BY StoreFacts DEF StartSplit, Tidy
<1>1. /\ slot' = [slot EXCEPT ![r] = p] /\ row' = [row EXCEPT ![s].busy = FALSE]
      /\ UNCHANGED <<day, file, accidents>>
  BY DEF StartSplit
<1>2. \A q \in Slots : slot[q].pc = "idle"
  BY Begins DEF StartSplit
<1>3. p \in SlotType /\ p.pc = "spawn" /\ p.kind # "upload" /\ p.path = row[s].path
  <2>1. 2 \in 0..2 /\ row[s].path \in Paths /\ "split" \in Request /\ "spawn" \in Pc
    BY <1>0 DEF RowType, Request, Pc
  <2>2. p \in SlotType
    BY <2>1, IdleTypes DEF Idle, SlotType
  <2> QED BY <2>2 DEF Idle
<1> HIDE DEF p
<1>4. accidents = 0 => file[p.path] # Never
  BY <1>0, <1>2, <1>3 DEF StoreInv, InStep, Present, Flagging
<1> QED BY <1>1, <1>2, <1>3, <1>4, BusyStep

\* No request is under way at midnight.
LEMMA MidnightStep ==
    ASSUME StoreInv, Midnight
    PROVE  StoreInv'
<1>0. /\ StoreTypeOK /\ day' = day + 1 /\ day < MaxDay /\ UNCHANGED <<file, row, slot, accidents>>
      /\ \A r \in Slots : slot[r].pc = "idle" /\ slot[r].kind # "upload"
  BY DEF Midnight, Quiet, StoreInv, SlotOK, UploadOK, UploadPc
<1>1. StoreTypeOK'
  <2>1. day' \in Days
    BY <1>0, StoreConstants DEF StoreTypeOK, Days
  <2> QED BY <1>0, <2>1 DEF StoreTypeOK
<1>2. Alone' /\ Numbered' /\ FlaggedFirst' /\ InStep'
  BY <1>0 DEF StoreInv, Alone, Numbered, FlaggedFirst, InStep, Live, Holders, Present
<1>3. \A r \in Slots : SlotOK(slot[r])'
  BY <1>0 DEF SlotOK, UploadOK, FileOK, RemovalOK, SweepOK, UploadPc, Flagging
<1> QED BY <1>1, <1>2, <1>3 DEF StoreInv

-----------------------------------------------------------------------------
(* Uploads, splits and deletions. *)

\* Whatever goes on beside an upload is an upload.
LEMMA Uploading ==
    ASSUME StoreInv, NEW r \in Slots, slot[r].pc \in UploadPc
    PROVE  \A q \in Slots :
              \/ slot[q].pc \in UploadPc
              \/ slot[q].pc = "idle" /\ slot[q].kind # "upload"
<1>1. \A q \in Slots : UploadOK(slot[q])
  BY DEF StoreInv, SlotOK
<1> QED BY <1>1 DEF StoreInv, Alone, UploadOK, UploadPc

\* The upload writes its file, or finds it.
LEMMA StorePdfStep ==
    ASSUME StoreInv, NEW r \in Slots, storePdf(r)
    PROVE  StoreInv'
<1> DEFINE m == MonthOf(day)
           PC == IF slot[r].gone THEN "restore" ELSE "insert"
           next == [slot[r] EXCEPT !.path = m, !.pc = PC]
<1>0. /\ slot[r] \in SlotType /\ SlotOK(slot[r]) /\ slot \in [Slots -> SlotType]
      /\ file \in [Paths -> Days \cup {Never}] /\ day \in Days /\ m \in Paths
      /\ slot[r].pc = "store" /\ UNCHANGED <<day, row, accidents>>
  BY StoreFacts, StoreTypes DEF StoreInv, storePdf, Paths
<1>d. day # Never
  BY <1>0, StoreConstants DEF Days, Never
<1>f. /\ file' \in [Paths -> Days \cup {Never}] /\ file'[m] # Never
      /\ \A k \in Paths : file[k] # Never => file'[k] = file[k]
      /\ \A k \in Paths : k # m => file'[k] = file[k]
  <2>1. file' = [file EXCEPT ![m] = IF @ = Never THEN day ELSE @]
    BY DEF storePdf
  <2> HIDE DEF m
  <2> QED BY <1>0, <1>d, <2>1
<1>k. slot[r].kind = "upload"
  BY <1>0 DEF SlotOK, UploadOK, UploadPc
<1>g. PC \in {"insert", "restore"} /\ (PC = "restore" <=> slot[r].gone)
  OBVIOUS
<1>n. slot' = [slot EXCEPT ![r] = next]
  BY <1>0 DEF storePdf, SlotType
<1> HIDE DEF PC
<1>x. /\ next \in SlotType /\ next.pc = PC /\ next.path = m /\ next.kind = "upload"
      /\ next.account = slot[r].account
  BY <1>0, <1>g, <1>k DEF SlotType, Pc
<1> HIDE DEF next
<1>p. PICK p \in SlotType :
         /\ slot' = [slot EXCEPT ![r] = p]
         /\ p.pc \in {"insert", "restore"} /\ (p.pc = "restore" <=> slot[r].gone)
         /\ p.path = m /\ p.kind = "upload" /\ p.account = slot[r].account
  BY <1>g, <1>n, <1>x
<1>q. /\ slot'[r] = p /\ slot' \in [Slots -> SlotType]
      /\ \A q \in Slots : /\ q # r => slot'[q] = slot[q]
                          /\ \/ slot[q].pc \in UploadPc
                             \/ slot[q].pc = "idle" /\ slot[q].kind # "upload"
  BY <1>0, <1>p, Uploading DEF UploadPc
<1>1. StoreTypeOK'
  <2>1. day' \in Days /\ accidents' \in Nat /\ row' \in [Ids -> RowType]
    BY <1>0, StoreFacts, StoreTypes DEF StoreInv
  <2> QED BY <1>f, <1>q, <2>1 DEF StoreTypeOK, SlotType, RowType
<1>2. Alone'
  BY <1>q, <1>p, <1>k, <1>0 DEF StoreInv, Alone
<1>3. SlotOK(p)'
  <2>1. UploadOK(p)'
    BY <1>0, <1>k, <1>p DEF SlotOK, UploadOK, UploadPc, Live, Holders
  <2>2. FileOK(p)'
    BY <1>0, <1>f, <1>p DEF FileOK, Flagging
  <2> QED BY <2>1, <2>2, <1>p DEF SlotOK, RemovalOK, SweepOK
<1>4. ASSUME NEW q \in Slots PROVE SlotOK(slot[q])'
  <2>1. PICK x : x = slot'[q]
    OBVIOUS
  <2>2. CASE q = r
    <3>1. x = p
      BY <1>q, <2>1, <2>2
    <3> QED BY <1>3, <2>1, <3>1
  <2>3. CASE q # r
    <3>1. x = slot[q] /\ SlotOK(x) /\ x \in SlotType
      BY <1>0, <1>q, <2>1, <2>3 DEF StoreInv
    <3>2. UploadOK(x)'
      BY <1>0, <3>1 DEF SlotOK, UploadOK, Live, Holders
    <3>3. FileOK(x)'
      BY <1>0, <1>f, <1>q, <3>1 DEF SlotOK, FileOK, Flagging, UploadPc, SlotType
    <3>4. RemovalOK(x)' /\ SweepOK(x)'
      BY <1>q, <3>1 DEF RemovalOK, SweepOK, UploadPc
    <3> QED BY <2>1, <3>2, <3>3, <3>4 DEF SlotOK
  <2> QED BY <2>2, <2>3
<1>5. Numbered' /\ FlaggedFirst'
  BY <1>0 DEF StoreInv, Numbered, FlaggedFirst, Live
<1>6. InStep'
  <2> SUFFICES ASSUME accidents = 0
               PROVE  /\ \A s \in Live : ~row[s].gone => file'[row[s].path] # Never
                      /\ \A k \in Paths : file'[k] # Never =>
                          \/ Holders(k) # {}
                          \/ \E q \in Slots : slot'[q].pc \in Touching /\ slot'[q].path = k
    BY <1>0 DEF InStep, Live, Holders, Present
  <2>1. /\ \A s \in Live : ~row[s].gone => Present(s)
        /\ \A k \in Paths : file[k] # Never =>
              \/ Holders(k) # {}
              \/ \E q \in Slots : slot[q].pc \in Touching /\ slot[q].path = k
    BY <1>q DEF StoreInv, InStep, Flagging, UploadPc
  <2>2. \A s \in Live : row[s].path \in Paths
    BY StoreFacts DEF Live, RowType
  <2>3. slot[r].pc \notin Touching /\ slot'[r].pc \in Touching /\ slot'[r].path = m
    BY <1>0, <1>q, <1>p DEF Touching
  <2>4. ASSUME NEW k \in Paths, file'[k] # Never, k # m
        PROVE  \/ Holders(k) # {}
               \/ \E q \in Slots : slot'[q].pc \in Touching /\ slot'[q].path = k
    <3>1. file[k] # Never
      BY <1>f, <2>4
    <3>2. CASE Holders(k) # {}
      BY <3>2
    <3>3. CASE \E q \in Slots : slot[q].pc \in Touching /\ slot[q].path = k
      BY <1>q, <2>3, <3>3
    <3> QED BY <2>1, <3>1, <3>2, <3>3
  <2> QED BY <1>f, <2>1, <2>2, <2>3, <2>4 DEF Present
<1> QED BY <1>1, <1>2, <1>4, <1>5, <1>6 DEF StoreInv

\* The row an insert adds: the least unused number, and nothing else changes.
LEMMA InsertedRow ==
    ASSUME StoreInv, NEW a \in Owners \cup {0}, NEW w \in BOOLEAN, NEW m \in Paths, Insert(a, w, m)
    PROVE  \E n \in Ids :
              /\ row[n].state = "unused" /\ row' \in [Ids -> RowType]
              /\ row'[n].state = "live" /\ row'[n].account = a /\ row'[n].whole = w
              /\ row'[n].path = m /\ ~row'[n].gone
              /\ \A s \in Ids : s # n => row'[s] = row[s]
              /\ Live' = Live \cup {n} /\ n \notin Live /\ (\A s \in Live : s < n)
              /\ Numbered'
<1>0. row \in [Ids -> RowType] /\ day \in Days /\ Numbered /\ Ids \subseteq Nat
  BY StoreTypes DEF StoreInv, Ids
<1>1. PICK n \in Unused :
         /\ \A u \in Unused : n <= u
         /\ row' = [row EXCEPT ![n] = [state |-> "live", account |-> a, whole |-> w,
                       path |-> m, gone |-> FALSE, born |-> day, busy |-> TRUE]]
  BY DEF Insert
<1> DEFINE new == [state |-> "live", account |-> a, whole |-> w, path |-> m,
                   gone |-> FALSE, born |-> day, busy |-> TRUE]
<1>2. /\ new \in RowType /\ new.state = "live" /\ new.account = a /\ new.whole = w
      /\ new.path = m /\ ~new.gone
  BY <1>0 DEF RowType
<1>3. n \in Ids /\ row[n].state = "unused" /\ row' = [row EXCEPT ![n] = new]
  BY <1>1 DEF Unused
<1> HIDE DEF new
<1>4. /\ row' \in [Ids -> RowType] /\ row'[n] = new
      /\ \A s \in Ids : s # n => row'[s] = row[s]
  BY <1>0, <1>2, <1>3
<1>5. Live' = Live \cup {n} /\ n \notin Live
  BY <1>2, <1>3, <1>4 DEF Live
<1>6. \A s \in Live : s < n
  BY <1>0, <1>3 DEF Numbered, Live
<1>7. ASSUME NEW s \in Ids, NEW u \in Ids, row'[s].state # "unused", row'[u].state = "unused"
      PROVE  s < u
  <2>1. u # n /\ row[u].state = "unused" /\ u \in Unused
    BY <1>2, <1>4, <1>7 DEF Unused
  <2>2. CASE s = n
    <3>1. n <= u
      BY <1>1, <2>1
    <3> QED BY <1>0, <1>3, <2>1, <2>2, <3>1
  <2>3. CASE s # n
    BY <1>0, <1>4, <1>7, <2>1, <2>3 DEF Numbered
  <2> QED BY <2>2, <2>3
<1>8. Numbered'
  BY <1>7 DEF Numbered
<1> QED BY <1>2, <1>3, <1>4, <1>5, <1>6, <1>8

\* An upload's whole row, a split's slice.
LEMMA InsertStep ==
    ASSUME StoreInv, NEW r \in Slots, NEW a \in Owners \cup {0}, NEW w \in BOOLEAN,
           slot[r].pc \in {"insert", "spawn"},
           slot[r].pc = "insert" =>
              w /\ a = slot[r].account /\ \A s \in Live : row[s].account # a,
           slot[r].pc = "spawn" => ~w,
           Insert(a, w, slot[r].path), UNCHANGED <<day, file, accidents>>,
           NEW p \in SlotType, slot' = [slot EXCEPT ![r] = p],
           p.kind # "upload", p.pc = "idle" \/ (slot[r].pc = "spawn" /\ p.pc = "spawn"),
           p.pc = "spawn" => p.path = slot[r].path
    PROVE  StoreInv'
<1>0. /\ slot[r] \in SlotType /\ SlotOK(slot[r]) /\ slot \in [Slots -> SlotType]
      /\ file \in [Paths -> Days \cup {Never}] /\ day \in Days /\ slot[r].path \in Paths
      /\ row \in [Ids -> RowType] /\ StoreTypeOK
  BY StoreFacts, StoreTypes DEF StoreInv, SlotType
<1>m. PICK m \in Paths : m = slot[r].path
  BY <1>0
<1>n. PICK n \in Ids :
         /\ row[n].state = "unused" /\ row' \in [Ids -> RowType]
         /\ row'[n].state = "live" /\ row'[n].account = a /\ row'[n].whole = w
         /\ row'[n].path = m /\ ~row'[n].gone
         /\ \A s \in Ids : s # n => row'[s] = row[s]
         /\ Live' = Live \cup {n} /\ n \notin Live /\ (\A s \in Live : s < n)
         /\ Numbered'
  BY <1>m, InsertedRow
<1>o. \A s \in Live : s \in Ids /\ s # n /\ row'[s] = row[s]
  BY <1>n DEF Live
<1>h. n \in Holders(m)' /\ \A k \in Paths : Holders(k) \subseteq Holders(k)'
  BY <1>n, <1>o DEF Holders
<1>q. /\ slot'[r] = p /\ slot' \in [Slots -> SlotType]
      /\ \A q \in Slots : q # r => slot'[q] = slot[q]
      /\ \A q \in Slots : q # r => \/ slot[r].pc = "insert" /\ slot[q].pc \in UploadPc
                                   \/ slot[q].pc = "idle" /\ slot[q].kind # "upload"
  <2>1. CASE slot[r].pc = "insert"
    BY <1>0, <2>1, Uploading DEF UploadPc
  <2>2. CASE slot[r].pc = "spawn"
    <3>1. \A q \in Slots : q # r => slot[q].pc = "idle"
      BY <1>0, <2>2, NobodyElse DEF StoreInv, SlotOK, UploadPc
    <3>2. \A q \in Slots : q # r => slot[q].kind # "upload"
      BY <3>1 DEF StoreInv, SlotOK, UploadOK, UploadPc
    <3> QED BY <1>0, <3>1, <3>2
  <2> QED BY <2>1, <2>2
<1>1. StoreTypeOK'
  BY <1>0, <1>n, <1>q DEF StoreTypeOK, SlotType, RowType
<1>2. Alone'
  BY <1>q DEF StoreInv, Alone
<1>3. SlotOK(p)'
  <2>1. UploadOK(p)' /\ RemovalOK(p)' /\ SweepOK(p)'
    BY DEF UploadOK, UploadPc, RemovalOK, SweepOK
  <2>2. FileOK(p)'
    BY <1>0 DEF SlotOK, FileOK, Flagging
  <2> QED BY <2>1, <2>2 DEF SlotOK
<1>4. ASSUME NEW q \in Slots PROVE SlotOK(slot[q])'
  <2>1. PICK x : x = slot'[q]
    OBVIOUS
  <2>2. CASE q = r
    <3>1. x = p
      BY <1>q, <2>1, <2>2
    <3> QED BY <1>3, <2>1, <3>1
  <2>3. CASE q # r
    <3>1. x = slot[q] /\ SlotOK(x) /\ x \in SlotType
      BY <1>0, <1>q, <2>1, <2>3 DEF StoreInv
    <3>2. CASE x.pc = "idle" /\ x.kind # "upload"
      BY <2>1, <3>2 DEF SlotOK, UploadOK, FileOK, RemovalOK, SweepOK, UploadPc, Flagging
    <3>3. CASE slot[r].pc = "insert" /\ x.pc \in UploadPc
      <4>1. w /\ m = MonthOf(day)
        BY <1>0, <1>m, <3>3 DEF SlotOK, UploadOK
      <4>a. x.pc \in UploadPc <=> x.kind = "upload"
        BY <3>1 DEF SlotOK, UploadOK
      <4>b. x.pc \in {"insert", "restore"} => x.path = MonthOf(day)
        BY <3>1 DEF SlotOK, UploadOK
      <4>c. ASSUME x.pc = "insert" \/ (x.pc = "store" /\ ~x.gone),
                   NEW s \in Live', row'[s].account = x.account
            PROVE  row'[s].whole /\ ~row'[s].gone /\ row'[s].path = MonthOf(day)
        <5>1. CASE s = n
          BY <1>n, <4>1, <5>1
        <5>2. CASE s \in Live
          BY <1>o, <3>1, <4>c, <5>2 DEF SlotOK, UploadOK
        <5> QED BY <1>n, <5>1, <5>2
      <4>d. ASSUME x.pc = "restore" \/ (x.pc = "store" /\ x.gone)
            PROVE  (\E s \in Live' : row'[s].gone) \/ Holders(MonthOf(day))' # {}
        <5>1. n \in {s \in Live' : ~row'[s].gone /\ row'[s].path = MonthOf(day)}
          BY <1>n, <4>1
        <5> QED BY <1>0, <5>1 DEF Holders
      <4>2. UploadOK(x)'
        BY <1>0, <4>a, <4>b, <4>c, <4>d DEF UploadOK
      <4>3. FileOK(x)'
        BY <3>1 DEF SlotOK, FileOK
      <4>4. RemovalOK(x)' /\ SweepOK(x)'
        BY <3>3 DEF RemovalOK, SweepOK, UploadPc
      <4> QED BY <2>1, <4>2, <4>3, <4>4 DEF SlotOK
    <3> QED BY <1>q, <2>3, <3>1, <3>2, <3>3
  <2> QED BY <2>2, <2>3
<1>6. FlaggedFirst'
  <2> SUFFICES ASSUME NEW s \in Live', NEW t \in Live', row'[s].gone, ~row'[t].gone,
                      row'[s].account = row'[t].account, row'[s].path = row'[t].path
               PROVE  ~row'[t].whole /\ (row'[s].whole \/ s < t)
    BY DEF FlaggedFirst
  <2>1. s \in Live /\ row'[s] = row[s]
    BY <1>n, <1>o
  <2>2. CASE t = n
    <3>1. slot[r].pc = "spawn" /\ ~w
      BY <1>n, <2>1, <2>2
    <3> QED BY <1>n, <2>1, <2>2, <3>1
  <2>3. CASE t \in Live
    BY <1>o, <2>1, <2>3 DEF StoreInv, FlaggedFirst
  <2> QED BY <1>n, <2>2, <2>3
<1>7. InStep'
  <2> SUFFICES ASSUME accidents = 0
               PROVE  /\ \A s \in Live' : ~row'[s].gone => file[row'[s].path] # Never
                      /\ \A k \in Paths : file[k] # Never =>
                          \/ Holders(k)' # {}
                          \/ \E q \in Slots : slot'[q].pc \in Touching /\ slot'[q].path = k
    BY <1>0 DEF InStep, Present
  <2>1. /\ \A s \in Live : ~row[s].gone => Present(s)
        /\ \A k \in Paths : file[k] # Never =>
              \/ Holders(k) # {}
              \/ \E q \in Slots : slot[q].pc \in Touching /\ slot[q].path = k
        /\ file[slot[r].path] # Never
    BY <1>0, <1>q DEF StoreInv, InStep, Flagging, UploadPc, SlotOK, FileOK
  <2>2. \A s \in Live' : ~row'[s].gone => file[row'[s].path] # Never
    BY <1>n, <1>o, <1>m, <2>1 DEF Present
  <2>3. ASSUME NEW k \in Paths, file[k] # Never, Holders(k)' = {}
        PROVE  \E q \in Slots : slot'[q].pc \in Touching /\ slot'[q].path = k
    <3>1. k # m /\ Holders(k) = {}
      BY <1>h, <2>3
    <3> QED BY <1>q, <1>m, <2>1, <2>3, <3>1
  <2> QED BY <2>2, <2>3
<1> QED BY <1>1, <1>2, <1>4, <1>n, <1>6, <1>7 DEF StoreInv

\* The upload inserts its row, or finds that another upload has.
LEMMA IngestStep ==
    ASSUME StoreInv, NEW r \in Slots, ingestUpload(r)
    PROVE  StoreInv'
<1> DEFINE clash == {s \in Live : row[s].account = slot[r].account /\ row[s].whole}
<1>0. /\ slot[r] \in SlotType /\ SlotOK(slot[r]) /\ accidents \in Nat
      /\ slot[r].pc = "insert" /\ UNCHANGED <<day, file, accidents>>
  BY StoreFacts DEF ingestUpload
<1>1. \A s \in Live : row[s].account = slot[r].account =>
         row[s].whole /\ ~row[s].gone /\ row[s].path = slot[r].path
  BY <1>0 DEF SlotOK, UploadOK
<1>a. accidents' \in Nat /\ accidents <= accidents' /\ slot[r].pc \notin Flagging
  BY <1>0 DEF Flagging
<1>2. CASE clash = {}
  <2>1. \A s \in Live : row[s].account # slot[r].account
    BY <1>1, <1>2
  <2>2. Insert(slot[r].account, TRUE, slot[r].path) /\ RequestEnds(r)
    BY <1>2 DEF ingestUpload
  <2>3. Idle \in SlotType /\ Idle.pc = "idle" /\ Idle.kind # "upload"
    BY IdleTypes DEF Idle
  <2>4. slot[r].account \in Owners \cup {0}
    BY <1>0 DEF SlotType
  <2> QED BY <1>0, <2>1, <2>2, <2>3, <2>4, InsertStep DEF RequestEnds
<1>3. CASE clash # {}
  <2>1. PICK s \in Live : row[s].account = slot[r].account
    BY <1>3
  <2>2. Holders(slot[r].path) # {}
    BY <1>1, <2>1 DEF Holders
  <2>3. RequestEnds(r) /\ UNCHANGED row
    BY <1>1, <1>3 DEF ingestUpload
  <2> QED BY <1>0, <1>a, <2>2, <2>3, EndStep
<1> QED BY <1>2, <1>3

\* A child of a split.
LEMMA SpawnStep ==
    ASSUME StoreInv, NEW r \in Slots, NEW a \in Owners, SpawnChild(r, a)
    PROVE  StoreInv'
<1>0. /\ slot[r] \in SlotType /\ SlotOK(slot[r]) /\ slot[r].pc = "spawn"
      /\ Insert(a, FALSE, slot[r].path) /\ UNCHANGED <<day, file, accidents>>
  BY StoreFacts DEF SpawnChild
<1>1. slot[r].kind # "upload"
  BY <1>0 DEF SlotOK, UploadOK, UploadPc
<1>2. CASE slot[r].left = 1
  <2>1. Idle \in SlotType /\ Idle.pc = "idle" /\ Idle.kind # "upload"
    BY IdleTypes DEF Idle
  <2> QED BY <1>0, <1>2, <2>1, InsertStep DEF SpawnChild, RequestEnds
<1>3. CASE slot[r].left # 1
  <2> DEFINE p == [slot[r] EXCEPT !.left = 1]
  <2>1. slot' = [slot EXCEPT ![r] = p]
    BY <1>0, <1>3 DEF SpawnChild, SlotType
  <2>2. 1 \in 0..2
    OBVIOUS
  <2>3. p \in SlotType /\ p.pc = "spawn" /\ p.kind # "upload" /\ p.path = slot[r].path
    BY <1>0, <1>1, <2>2 DEF SlotType
  <2> HIDE DEF p
  <2> QED BY <1>0, <2>1, <2>3, InsertStep
<1> QED BY <1>2, <1>3

\* Every flagged row is pointed at the new copy.
LEMMA RestoreStep ==
    ASSUME StoreInv, NEW r \in Slots, restoreDeletedSourcePdf(r)
    PROVE  StoreInv'
<1>0. /\ slot[r] \in SlotType /\ SlotOK(slot[r]) /\ slot \in [Slots -> SlotType]
      /\ row \in [Ids -> RowType] /\ StoreTypeOK
      /\ slot[r].pc = "restore" /\ RequestEnds(r) /\ UNCHANGED <<day, file, accidents>>
  BY StoreFacts, StoreTypes DEF StoreInv, restoreDeletedSourcePdf
<1>m. PICK m \in Paths : m = slot[r].path
  BY <1>0 DEF SlotType
<1>n. /\ m = MonthOf(day)
      /\ (\E s \in Live : row[s].gone) \/ Holders(m) # {}
      /\ accidents = 0 => file[m] # Never
  BY <1>0, <1>m DEF SlotOK, UploadOK, FileOK
<1>r. /\ row' \in [Ids -> RowType]
      /\ \A s \in Ids : ~(s \in Live /\ row[s].gone) => row'[s] = row[s]
      /\ \A s \in Ids : s \in Live /\ row[s].gone =>
            /\ row'[s].state = row[s].state /\ row'[s].path = m /\ ~row'[s].gone
  <2>1. row' = [s \in Ids |-> IF s \in Live /\ row[s].gone
                             THEN [row[s] EXCEPT !.path = m, !.gone = FALSE] ELSE row[s]]
    BY <1>m DEF restoreDeletedSourcePdf
  <2>2. ASSUME NEW s \in Ids, s \in Live /\ row[s].gone
        PROVE  /\ row'[s] \in RowType
               /\ row'[s].state = row[s].state /\ row'[s].path = m /\ ~row'[s].gone
    <3>1. row'[s] = [row[s] EXCEPT !.path = m, !.gone = FALSE] /\ row[s] \in RowType
      BY <1>0, <2>1, <2>2
    <3> QED BY <3>1 DEF RowType
  <2>3. \A s \in Ids : ~(s \in Live /\ row[s].gone) => row'[s] = row[s]
    BY <2>1
  <2>4. row' \in [Ids -> RowType]
    <3>1. \A s \in Ids : row'[s] \in RowType
      BY <1>0, <2>2, <2>3
    <3> QED BY <2>1, <3>1
  <2> QED BY <2>2, <2>3, <2>4
<1>l. Live' = Live /\ \A s \in Live : ~row'[s].gone
  BY <1>r DEF Live
<1>h. Holders(m)' # {} /\ \A k \in Paths : Holders(k) \subseteq Holders(k)'
  <2>1. \A k \in Paths : Holders(k) \subseteq Holders(k)'
    BY <1>r, <1>l DEF Holders, Live
  <2>2. \A s \in Live : row[s].gone => s \in Holders(m)'
    BY <1>r, <1>l DEF Holders, Live
  <2>3. (\E s \in Live : row[s].gone) \/ (\E s \in Live : s \in Holders(m))
    BY <1>n DEF Holders
  <2> QED BY <2>1, <2>2, <2>3
<1>q. /\ slot'[r] = Idle /\ slot' \in [Slots -> SlotType]
      /\ \A q \in Slots : q # r => slot'[q] = slot[q]
      /\ \A q \in Slots : \/ slot[q].pc \in UploadPc
                          \/ slot[q].pc = "idle" /\ slot[q].kind # "upload"
  BY <1>0, IdleTypes, Uploading DEF RequestEnds, UploadPc
<1>i. Idle.pc = "idle" /\ Idle.kind # "upload"
  BY DEF Idle
<1>1. StoreTypeOK'
  BY <1>0, <1>r, <1>q DEF StoreTypeOK, SlotType, RowType
<1>2. Alone'
  BY <1>q, <1>i DEF StoreInv, Alone
<1>4. ASSUME NEW q \in Slots PROVE SlotOK(slot[q])'
  <2>1. PICK x : x = slot'[q]
    OBVIOUS
  <2>2. CASE x.pc = "idle" /\ x.kind # "upload"
    BY <2>1, <2>2 DEF SlotOK, UploadOK, FileOK, RemovalOK, SweepOK, UploadPc, Flagging
  <2>3. CASE q # r /\ x.pc \in UploadPc
    <3>1. x = slot[q] /\ SlotOK(x) /\ x \in SlotType
      BY <1>0, <1>q, <2>1, <2>3 DEF StoreInv
    <3>a. x.pc \in UploadPc <=> x.kind = "upload"
      BY <3>1 DEF SlotOK, UploadOK
    <3>b. x.pc \in {"insert", "restore"} => x.path = MonthOf(day)
      BY <3>1 DEF SlotOK, UploadOK
    <3>c. ASSUME x.pc = "insert" \/ (x.pc = "store" /\ ~x.gone),
                 NEW s \in Live, row'[s].account = x.account
          PROVE  row'[s].whole /\ ~row'[s].gone /\ row'[s].path = MonthOf(day)
      <4>1. \A t \in Live : row[t].account = x.account =>
               row[t].whole /\ ~row[t].gone /\ row[t].path = MonthOf(day)
        BY <3>1, <3>c DEF SlotOK, UploadOK
      <4>2. row'[s].account = row[s].account
        BY <1>0, <3>c DEF restoreDeletedSourcePdf, Live, RowType
      <4> QED BY <1>r, <3>c, <4>1, <4>2 DEF Live
    <3>d. {s \in Live' : ~row'[s].gone /\ row'[s].path = MonthOf(day)} # {}
      BY <1>h, <1>n DEF Holders
    <3>2. UploadOK(x)'
      BY <1>0, <1>l, <3>a, <3>b, <3>c, <3>d DEF UploadOK, Holders
    <3>3. FileOK(x)'
      BY <1>0, <3>1 DEF SlotOK, FileOK
    <3>4. RemovalOK(x)' /\ SweepOK(x)'
      BY <2>3 DEF RemovalOK, SweepOK, UploadPc
    <3> QED BY <2>1, <3>2, <3>3, <3>4 DEF SlotOK
  <2> QED BY <1>q, <1>i, <2>1, <2>2, <2>3
<1>5. Numbered'
  <2>1. \A s \in Ids : row'[s].state = row[s].state
    BY <1>r
  <2> QED BY <2>1 DEF StoreInv, Numbered
<1>6. FlaggedFirst'
  BY <1>l DEF FlaggedFirst
<1>7. InStep'
  <2> SUFFICES ASSUME accidents = 0
               PROVE  /\ \A s \in Live : file[row'[s].path] # Never
                      /\ \A k \in Paths : file[k] # Never =>
                          \/ Holders(k)' # {}
                          \/ \E q \in Slots : slot'[q].pc \in Touching /\ slot'[q].path = k
    BY <1>0, <1>l DEF InStep, Present
  <2>1. /\ \A s \in Live : ~row[s].gone => Present(s)
        /\ \A k \in Paths : file[k] # Never =>
              \/ Holders(k) # {}
              \/ \E q \in Slots : slot[q].pc \in Touching /\ slot[q].path = k
    BY <1>q DEF StoreInv, InStep, Flagging, UploadPc
  <2>2. \A s \in Live : file[row'[s].path] # Never
    BY <1>n, <1>r, <2>1 DEF Present, Live
  <2>3. ASSUME NEW k \in Paths, file[k] # Never, Holders(k)' = {}
        PROVE  \E q \in Slots : slot'[q].pc \in Touching /\ slot'[q].path = k
    <3>1. Holders(k) = {} /\ k # m
      BY <1>h, <2>3
    <3> QED BY <1>q, <1>m, <2>1, <2>3, <3>1
  <2> QED BY <2>2, <2>3
<1> QED BY <1>1, <1>2, <1>4, <1>5, <1>6, <1>7 DEF StoreInv

\* A statement's row goes; its file is looked at next, if it has one.
LEMMA DropStep ==
    ASSUME StoreInv, NEW r \in Slots, DropStatement(r)
    PROVE  StoreInv'
<1>0. /\ slot[r] \in SlotType /\ SlotOK(slot[r]) /\ slot \in [Slots -> SlotType]
      /\ row \in [Ids -> RowType] /\ StoreTypeOK
      /\ slot[r].pc = "drop" /\ UNCHANGED <<day, file, accidents>>
  BY StoreFacts, StoreTypes DEF StoreInv, DropStatement
<1>s. PICK s \in Ids : /\ s = slot[r].stmt /\ s \in Live
                       /\ slot[r].path = row[s].path /\ slot[r].gone = row[s].gone
  BY <1>0 DEF SlotOK, RemovalOK, Live
<1>p. PICK p \in SlotType :
         /\ slot' = [slot EXCEPT ![r] = p] /\ p.kind # "upload"
         /\ \/ p.pc = "idle" /\ row[s].gone
            \/ p.pc = "refs" /\ p.path = row[s].path
  <2>1. CASE slot[r].gone
    BY <1>s, <2>1, IdleTypes DEF DropStatement, RequestEnds, Idle
  <2>2. CASE ~slot[r].gone
    <3> DEFINE p == [slot[r] EXCEPT !.pc = "refs"]
    <3>1. slot[r].kind # "upload"
      BY <1>0 DEF SlotOK, UploadOK, UploadPc
    <3>2. /\ p \in SlotType /\ slot' = [slot EXCEPT ![r] = p]
          /\ p.kind # "upload" /\ p.pc = "refs" /\ p.path = row[s].path
      BY <1>0, <1>s, <2>2, <3>1 DEF DropStatement, RequestGoes, SlotType, Pc
    <3> HIDE DEF p
    <3> QED BY <3>2
  <2> QED BY <2>1, <2>2
<1>q. /\ slot'[r] = p /\ slot' \in [Slots -> SlotType]
      /\ \A q \in Slots : q # r =>
            slot'[q] = slot[q] /\ slot[q].pc = "idle" /\ slot[q].kind # "upload"
  <2>1. \A q \in Slots : q # r => slot[q].pc = "idle"
    BY <1>0, NobodyElse DEF StoreInv, SlotOK, UploadPc
  <2>2. \A q \in Slots : q # r => slot[q].kind # "upload"
    BY <2>1 DEF StoreInv, SlotOK, UploadOK, UploadPc
  <2> QED BY <1>0, <1>p, <2>1, <2>2
<1>r. /\ row' \in [Ids -> RowType] /\ row'[s].state = "deleted"
      /\ \A t \in Ids : t # s => row'[t] = row[t]
  <2> DEFINE dropped == [NoRow EXCEPT !.state = "deleted"]
  <2>1. dropped \in RowType /\ dropped.state = "deleted"
    BY IdleTypes DEF NoRow, RowType
  <2>2. row' = [row EXCEPT ![s] = dropped]
    BY <1>s DEF DropStatement
  <2> HIDE DEF dropped
  <2> QED BY <1>0, <2>1, <2>2
<1>l. Live' = Live \ {s} /\ \A t \in Live' : t \in Live /\ row'[t] = row[t]
  BY <1>r DEF Live
<1>h. \A k \in Paths : k # row[s].path \/ row[s].gone => Holders(k) \subseteq Holders(k)'
  BY <1>l DEF Holders
<1>1. StoreTypeOK'
  BY <1>0, <1>r, <1>q DEF StoreTypeOK, SlotType, RowType
<1>2. Alone'
  BY <1>q DEF Alone
<1>4. ASSUME NEW q \in Slots PROVE SlotOK(slot[q])'
  <2>1. PICK x : x = slot'[q]
    OBVIOUS
  <2>2. x.pc \in {"idle", "refs"} /\ x.kind # "upload"
    BY <1>p, <1>q, <2>1
  <2> QED BY <2>1, <2>2 DEF SlotOK, UploadOK, FileOK, RemovalOK, SweepOK, UploadPc, Flagging
<1>5. Numbered'
  <2>1. \A t \in Ids : row'[t].state = "unused" <=> row[t].state = "unused"
    BY <1>s, <1>r DEF Live
  <2> QED BY <2>1 DEF StoreInv, Numbered
<1>6. FlaggedFirst'
  <2> SUFFICES ASSUME NEW t \in Live', NEW u \in Live', row'[t].gone, ~row'[u].gone,
                      row'[t].account = row'[u].account, row'[t].path = row'[u].path
               PROVE  ~row'[u].whole /\ (row'[t].whole \/ t < u)
    BY DEF FlaggedFirst
  <2> QED BY <1>l DEF StoreInv, FlaggedFirst
<1>7. InStep'
  <2> SUFFICES ASSUME accidents = 0
               PROVE  /\ \A t \in Live' : ~row'[t].gone => file[row'[t].path] # Never
                      /\ \A k \in Paths : file[k] # Never =>
                          \/ Holders(k)' # {}
                          \/ \E q \in Slots : slot'[q].pc \in Touching /\ slot'[q].path = k
    BY <1>0 DEF InStep, Present
  <2>1. /\ \A t \in Live : ~row[t].gone => Present(t)
        /\ \A k \in Paths : file[k] # Never => Holders(k) # {}
    BY <1>0, <1>q DEF StoreInv, InStep, Flagging, Touching
  <2>2. \A t \in Live' : ~row'[t].gone => file[row'[t].path] # Never
    BY <1>l, <2>1 DEF Present
  <2>3. ASSUME NEW k \in Paths, file[k] # Never, Holders(k)' = {}
        PROVE  \E q \in Slots : slot'[q].pc \in Touching /\ slot'[q].path = k
    <3>1. k = row[s].path /\ ~row[s].gone
      BY <1>h, <2>1, <2>3
    <3>2. p.pc = "refs" /\ p.path = k
      BY <1>p, <3>1
    <3> QED BY <1>q, <3>2 DEF Touching
  <2> QED BY <2>2, <2>3
<1> QED BY <1>1, <1>2, <1>4, <1>5, <1>6, <1>7 DEF StoreInv

\* The three unlinks.
LEMMA UnlinkSteps ==
    ASSUME StoreInv, NEW r \in Slots,
           deletePdfForStatement(r) \/ DiscardFile(r) \/ PurgeFile(r)
    PROVE  StoreInv'
<1>0. slot[r] \in SlotType
  BY StoreFacts
<1>1. CASE deletePdfForStatement(r)
  <2> DEFINE p == [slot[r] EXCEPT !.pc = "flag"]
  <2>1. CASE Removed(slot[r].path) /\ RequestGoes(r, "flag") /\ UNCHANGED accidents
    <3>1. /\ p \in SlotType /\ slot' = [slot EXCEPT ![r] = p]
          /\ p.pc = "flag" /\ p.kind = slot[r].kind /\ p.path = slot[r].path
      BY <1>0, <2>1 DEF RequestGoes, SlotType, Pc
    <3> HIDE DEF p
    <3>2. slot[r].pc = "unlink" /\ UNCHANGED <<day, row>>
      BY <1>1 DEF deletePdfForStatement
    <3> QED BY <2>1, <3>1, <3>2, RemovedStep
  <2>2. CASE Stays(slot[r].path) /\ RequestEnds(r)
    BY <1>1, <2>2, FailedUnlinks DEF deletePdfForStatement
  <2> QED BY <1>1, <2>1, <2>2 DEF deletePdfForStatement
<1>2. CASE DiscardFile(r)
  <2>1. CASE Removed(slot[r].path) /\ UNCHANGED accidents
    <3>1. Idle \in SlotType /\ Idle.pc = "idle" /\ Idle.kind # "upload"
      BY IdleTypes DEF Idle
    <3>2. slot[r].pc = "discard" /\ UNCHANGED <<day, row>> /\ slot' = [slot EXCEPT ![r] = Idle]
      BY <1>2 DEF DiscardFile, RequestEnds
    <3> QED BY <2>1, <3>1, <3>2, RemovedStep
  <2>2. CASE Stays(slot[r].path)
    BY <1>2, <2>2, FailedUnlinks DEF DiscardFile
  <2> QED BY <1>2, <2>1, <2>2 DEF DiscardFile
<1>3. CASE PurgeFile(r)
  <2> DEFINE p == [slot[r] EXCEPT !.pc = "purged"]
  <2>1. CASE Removed(slot[r].path) /\ RequestGoes(r, "purged") /\ UNCHANGED accidents
    <3>1. /\ p \in SlotType /\ slot' = [slot EXCEPT ![r] = p]
          /\ p.pc = "purged" /\ p.kind = slot[r].kind /\ p.path = slot[r].path
          /\ p.todo = slot[r].todo /\ p.cutoff = slot[r].cutoff
          /\ p.used = slot[r].used /\ p.missed = slot[r].missed
      BY <1>0, <2>1 DEF RequestGoes, SlotType, Pc
    <3> HIDE DEF p
    <3>2. slot[r].pc = "purge" /\ UNCHANGED <<day, row>>
      BY <1>3 DEF PurgeFile
    <3> QED BY <2>1, <3>1, <3>2, RemovedStep
  <2>2. CASE /\ Stays(slot[r].path)
             /\ slot' = [slot EXCEPT ![r].pc = "next", ![r].missed = @ \cup {slot[r].path}]
    BY <1>3, <2>2, FailedUnlinks DEF PurgeFile
  <2> QED BY <1>3, <2>1, <2>2 DEF PurgeFile
<1> QED BY <1>1, <1>2, <1>3

-----------------------------------------------------------------------------
\* The invariant holds at first ...
LEMMA StoreInvInit == StoreInit => StoreInv
<1> SUFFICES ASSUME StoreInit PROVE StoreInv
  OBVIOUS
<1>1. /\ day = 1 /\ accidents = 0 /\ file \in [Paths -> Days \cup {Never}] /\ day \in Days
      /\ row \in [Ids -> RowType] /\ slot \in [Slots -> SlotType]
      /\ \A m \in Paths : file[m] = Never
      /\ \A s \in Ids : row[s].state = "unused"
      /\ \A r \in Slots : slot[r].pc = "idle" /\ slot[r].kind # "upload"
  BY IdleTypes, StoreConstants DEF StoreInit, NoRow, Idle
<1>2. StoreTypeOK
  BY <1>1, StoreTypes
<1>3. Live = {}
  BY <1>1 DEF Live
<1>4. Alone /\ Numbered /\ FlaggedFirst /\ InStep
  BY <1>1, <1>3 DEF Alone, Numbered, FlaggedFirst, InStep
<1>5. \A r \in Slots : SlotOK(slot[r])
  BY <1>1, RestingIsOK
<1> QED BY <1>2, <1>4, <1>5 DEF StoreInv

\* ... and every step keeps it.
LEMMA StoreInvStep ==
    ASSUME Tidy, StoreInv, [StoreNext]_storeVars
    PROVE  StoreInv'
<1>1. CASE \E r \in Slots : BeginRequest(r)
  BY <1>1, StartUploadStep, StartSplitStep, ExtractionSteps, StartRemovalSteps, StartSweepStep
  DEF BeginRequest
<1>2. CASE \E r \in Slots : Proceed(r)
  <2>1. PICK r \in Slots : Proceed(r)
    BY <1>2
  <2>2. CASE storePdf(r) \/ ingestUpload(r) \/ restoreDeletedSourcePdf(r)
             \/ \E a \in Owners : SpawnChild(r, a)
    BY <2>2, StorePdfStep, IngestStep, RestoreStep, SpawnStep
  <2>3. CASE deletePdfForStatement(r) \/ FlagDeleted(r) \/ DropStatement(r)
             \/ StillReferenced(r) \/ DiscardFile(r)
    BY <2>3, UnlinkSteps, FlagStep, DropStep, StillReferencedStep
  <2>4. CASE ReadInUse(r) \/ (\E m \in Paths : NextFile(r, m)) \/ storedSince(r)
             \/ PurgeFile(r) \/ FlagPurged(r) \/ EndSweep(r)
    BY <2>4, SweepLookSteps, UnlinkSteps, FlagStep
  <2> QED BY <2>1, <2>2, <2>3, <2>4 DEF Proceed
<1>3. CASE (\E r \in Slots : Die(r)) \/ (\E s \in Ids : ExtractionEnds(s)) \/ Midnight
  BY <1>3, DieStep, ExtractionSteps, MidnightStep
<1>4. CASE UNCHANGED storeVars
  <2>1. UNCHANGED <<day, file, row, slot, accidents>>
    BY <1>4 DEF storeVars
  <2> QED BY <2>1 DEF StoreInv, StoreTypeOK, Alone, Numbered, FlaggedFirst, InStep, SlotOK,
        UploadOK, FileOK, RemovalOK, SweepOK, Live, Holders, Present, Expired, InUse
<1> QED BY <1>1, <1>2, <1>3, <1>4 DEF StoreNext

\* The invariant of the stored PDFs, when only uploads overlap and nobody
\* splits a statement that has lost its PDF (services/upload-storage.ts,
\* services/pdf-retention.ts).
THEOREM StoreInvariant == Tidy => (StoreSpec => []StoreInv)
<1> SUFFICES ASSUME Tidy PROVE StoreSpec => []StoreInv
  OBVIOUS
<1>1. StoreInit => StoreInv
  BY StoreInvInit
<1>2. StoreInv /\ [StoreNext]_storeVars => StoreInv'
  BY StoreInvStep
<1> QED BY <1>1, <1>2, PTL DEF StoreSpec

\* Rows and files agree about which PDFs there are, and an upload finds the
\* row that lost its PDF (statements.source_pdf_deleted, services/uploads.ts).
THEOREM FlagsTellTheDisk == Tidy => (StoreSpec => []FlagsAndFilesAgree)
<1> SUFFICES ASSUME Tidy PROVE StoreSpec => []FlagsAndFilesAgree
  OBVIOUS
<1>1. ASSUME StoreInv PROVE FlagsAndFilesAgree
  <2>1. StoreTypeOK
    BY <1>1 DEF StoreInv
  <2>2. FlagTellsDisk /\ NoOrphanFile
    BY <1>1 DEF StoreInv, InStep, FlagTellsDisk, NoOrphanFile, Quiet, Flagging, Touching
  <2>3. ASSUME Quiet, accidents = 0, NEW s \in Live, ~Present(s) \/ row[s].gone,
               NEW t \in findByAccountAndHash(row[s].account), ~row[t].gone,
               row[t].path = row[s].path
        PROVE  FALSE
    <3>1. row[s].gone
      BY <2>2, <2>3 DEF FlagTellsDisk
    <3>2. /\ t \in Live /\ row[t].account = row[s].account
          /\ ~(row[s].whole /\ ~row[t].whole)
          /\ ~(row[s].whole = row[t].whole /\ s < t)
      BY <2>3 DEF findByAccountAndHash
    <3>3. ~row[t].whole /\ (row[s].whole \/ s < t)
      BY <1>1, <2>3, <3>1, <3>2 DEF StoreInv, FlaggedFirst
    <3>4. row[s].whole \in BOOLEAN /\ row[t].whole \in BOOLEAN
      BY <1>1, <3>2, StoreTypes DEF StoreInv, Live, RowType
    <3>5. row[s].whole = FALSE /\ row[t].whole = FALSE
      BY <3>2, <3>3, <3>4
    <3> QED BY <3>2, <3>3, <3>5
  <2>4. ReuploadHelps
    BY <2>3 DEF ReuploadHelps
  <2> QED BY <2>1, <2>2, <2>4 DEF FlagsAndFilesAgree
<1>2. StoreInv => FlagsAndFilesAgree
  BY <1>1
<1> QED BY <1>2, StoreInvariant, PTL

\* What the sweep removes, and when it ends what it has left behind
\* (runRetentionSweep).
LEMMA SweepActs ==
    ASSUME StoreInv, [StoreNext]_storeVars
    PROVE  /\ \A r \in Slots, m \in Paths :
                slot[r].pc = "purge" /\ file[m] # Never /\ file'[m] = Never =>
                    /\ file[m] < slot[r].cutoff
                    /\ \A s \in Holders(m) : row[s].born < slot[r].cutoff /\ ~row[s].busy
           /\ \A r \in Slots :
                EndSweep(r) =>
                    \A s \in Ids : Expired(s, slot[r].cutoff) =>
                        \/ row[s].path \in slot[r].used \cup slot[r].missed
                        \/ file[row[s].path] >= slot[r].cutoff
<1>1. ASSUME NEW r \in Slots, NEW m \in Paths,
             slot[r].pc = "purge", file[m] # Never, file'[m] = Never
      PROVE  /\ file[m] < slot[r].cutoff
             /\ \A s \in Holders(m) : row[s].born < slot[r].cutoff /\ ~row[s].busy
  <2>0. /\ slot[r] \in SlotType /\ SlotOK(slot[r]) /\ file \in [Paths -> Days \cup {Never}]
        /\ \A s \in Ids : row[s] \in RowType
    BY StoreFacts
  <2>1. \A q \in Slots : q # r => slot[q].pc = "idle"
    BY <1>1, <2>0, NobodyElse DEF StoreInv, SlotOK, UploadPc
  <2>2. PurgeFile(r) /\ Removed(slot[r].path)
    <3>1. CASE PurgeFile(r)
      BY <1>1, <3>1 DEF PurgeFile, Stays
    <3>2. CASE \E q \in Slots : Proceed(q) /\ ~PurgeFile(r)
      <4>1. PICK q \in Slots : Proceed(q) /\ ~PurgeFile(r)
        BY <3>2
      <4>2. slot[q].pc # "idle"
        BY <4>1 DEF Proceed, storePdf, ingestUpload, restoreDeletedSourcePdf, SpawnChild,
          deletePdfForStatement, FlagDeleted, DropStatement, StillReferenced, DiscardFile,
          ReadInUse, NextFile, storedSince, PurgeFile, FlagPurged, EndSweep
      <4>3. q = r
        BY <2>1, <4>2
      <4>4. FALSE
        BY <1>1, <4>1, <4>3 DEF Proceed, storePdf, ingestUpload, restoreDeletedSourcePdf, SpawnChild,
          deletePdfForStatement, FlagDeleted, DropStatement, StillReferenced, DiscardFile,
          ReadInUse, NextFile, storedSince, FlagPurged, EndSweep
      <4> QED BY <4>4
    <3>3. CASE UNCHANGED file
      BY <1>1, <3>3
    <3> QED BY <3>1, <3>2, <3>3 DEF StoreNext, storeVars, BeginRequest, StartUpload, StartSplit,
          ReExtract, StartDeletePdf, StartDelete, StartSweep, Die, ExtractionEnds, Midnight
  <2>3. m = slot[r].path
    BY <1>1, <2>0, <2>2 DEF Removed
  <2>4. /\ \A s \in Ids : InUse(s, slot[r].cutoff) => row[s].path \in slot[r].used
        /\ m \notin slot[r].used /\ file[m] < slot[r].cutoff
    BY <1>1, <2>0, <2>3 DEF SlotOK, SweepOK
  <2>5. ASSUME NEW s \in Holders(m) PROVE row[s].born < slot[r].cutoff /\ ~row[s].busy
    <3>1. s \in Live /\ s \in Ids /\ ~row[s].gone /\ row[s].path = m
      BY DEF Holders, Live
    <3>2. ~InUse(s, slot[r].cutoff)
      BY <2>4, <3>1
    <3>3. row[s].born \in Nat /\ slot[r].cutoff \in Nat
      BY <2>0, <3>1, StoreConstants DEF RowType, SlotType, Days
    <3>4. ~(row[s].born >= slot[r].cutoff) /\ ~row[s].busy
      BY <3>1, <3>2 DEF InUse
    <3> QED BY <3>3, <3>4
  <2> QED BY <2>4, <2>5
<1>2. ASSUME NEW r \in Slots, EndSweep(r), NEW s \in Ids, Expired(s, slot[r].cutoff)
      PROVE  \/ row[s].path \in slot[r].used \cup slot[r].missed
             \/ file[row[s].path] >= slot[r].cutoff
  BY <1>2, StoreFacts DEF EndSweep, SlotOK, SweepOK
<1> QED BY <1>1, <1>2

\* The sweep deletes all that it must and nothing else
\* (services/pdf-retention.ts, runRetentionSweep).
THEOREM SweepsAreExact == Tidy => (StoreSpec => SweepIsExact)
<1> SUFFICES ASSUME Tidy PROVE StoreSpec => SweepIsExact
  OBVIOUS
<1>1. StoreInv /\ [StoreNext]_storeVars =>
         /\ [\A r \in Slots, p \in Paths :
                slot[r].pc = "purge" /\ file[p] # Never /\ file'[p] = Never =>
                    /\ file[p] < slot[r].cutoff
                    /\ \A s \in Holders(p) : row[s].born < slot[r].cutoff /\ ~row[s].busy]_storeVars
         /\ [\A r \in Slots :
                EndSweep(r) =>
                    \A s \in Ids : Expired(s, slot[r].cutoff) =>
                        \/ row[s].path \in slot[r].used \cup slot[r].missed
                        \/ file[row[s].path] >= slot[r].cutoff]_storeVars
  BY SweepActs
<1> QED BY <1>1, StoreInvariant, PTL DEF StoreSpec, SweepIsExact, SweepSparesUsed, SweepPurges

-----------------------------------------------------------------------------

-----------------------------------------------------------------------------
\* Ranges that follow on one another over n pages, neighbours with different owners.
RunsOf(splits, X, n) ==
    /\ splits \in Seq([last4 : X, pages : SUBSET Nat]) /\ Len(splits) \in Nat \ {0}
    /\ DOMAIN splits = 1..Len(splits)
    /\ Min(splits[1].pages) = 1 /\ Max(splits[Len(splits)].pages) = n
    /\ \A k \in 1..(Len(splits) - 1) :
          /\ Max(splits[k].pages) + 1 = Min(splits[k + 1].pages)
          /\ splits[k].last4 # splits[k + 1].last4

\* The splits of a list of owners are the runs of the same owner in it.
LEMMA SplitsAreRuns ==
    ASSUME NEW n \in Nat \ {0}, NEW X, NEW of \in [1..n -> X], NEW splits, splits = Splits(of)
    PROVE  RunsOf(splits, X, n)
<1> DEFINE S == {i \in DOMAIN of : i = 1 \/ of[i] # of[i - 1]}
<1>1. DOMAIN of = 1..n /\ Len(of) = n /\ n \in Nat
  OBVIOUS
<1>2. S \in SUBSET (1..n) /\ S \in SUBSET Nat /\ IsFiniteSet(S) /\ 1 \in S
  <2>1. IsFiniteSet(1..n) /\ S \in SUBSET (1..n) /\ 1 \in S
    BY <1>1, FS_Interval
  <2> QED BY <2>1, FS_Subset
<1>3. PICK o : o = InOrder(S)
  OBVIOUS
<1>4. PICK m : m = Cardinality(S)
  OBVIOUS
<1>5. splits = [k \in DOMAIN o |->
            [last4 |-> of[o[k]],
             pages |-> o[k]..(IF k < Len(o) THEN o[k + 1] - 1 ELSE Len(of))]]
  BY <1>3 DEF Splits
<1>6. \A i \in S : i = 1 \/ of[i] # of[i - 1]
  OBVIOUS
<1>7. \A i \in 1..n : i # 1 /\ of[i] # of[i - 1] => i \in S
  OBVIOUS
<1> HIDE DEF S
<1>8. /\ m \in Nat /\ DOMAIN o = 1..m /\ Len(o) = m
      /\ \A i \in 1..m : o[i] \in S
      /\ \A i, j \in 1..m : i < j => o[i] < o[j]
      /\ \A x \in S : \E i \in 1..m : o[i] = x
  BY <1>2, <1>3, <1>4, Ordered
<1>9. m # 0
  BY <1>2, <1>8
<1>10. \A k \in 1..m : o[k] \in 1..n /\ o[k] \in Nat
  BY <1>2, <1>8
<1>11. o[1] = 1
  <2>1. PICK i \in 1..m : o[i] = 1
    BY <1>2, <1>8
  <2>2. i # 1 => o[1] < 1
    BY <1>8, <1>9, <2>1
  <2> QED BY <1>8, <1>9, <1>10, <2>1, <2>2
<1> DEFINE Until(k) == IF k < m THEN o[k + 1] - 1 ELSE n
<1>12. splits = [k \in 1..m |-> [last4 |-> of[o[k]], pages |-> o[k]..Until(k)]]
  BY <1>1, <1>5, <1>8
<1>13. \A k \in 1..m : Until(k) \in 1..n /\ o[k] <= Until(k)
  <2> SUFFICES ASSUME NEW k \in 1..m PROVE Until(k) \in 1..n /\ o[k] <= Until(k)
    OBVIOUS
  <2>1. CASE k < m
    <3>1. k + 1 \in 1..m /\ k < k + 1
      BY <1>8, <2>1
    <3>2. o[k] < o[k + 1] /\ o[k + 1] \in 1..n /\ o[k] \in 1..n
      BY <1>8, <1>10, <3>1
    <3> QED BY <1>1, <2>1, <3>2
  <2>2. CASE ~(k < m)
    BY <1>1, <1>10, <2>2
  <2> QED BY <2>1, <2>2
\* From a start to the page before the next one the owner is the same.
<1>14. ASSUME NEW k \in 1..(m - 1) PROVE of[Until(k)] = of[o[k]]
  <2>1. k \in 1..m /\ k + 1 \in 1..m /\ Until(k) = o[k + 1] - 1 /\ k \in Nat
    BY <1>8
  <2>2. o[k] \in 1..n /\ Until(k) \in 1..n /\ o[k] <= Until(k)
    BY <1>10, <1>13, <2>1
  <2>3. PICK a \in Nat, b \in Nat : a = o[k] /\ b = Until(k) /\ a <= b /\ b <= n /\ 1 <= a
    BY <2>2
  <2>4. \A j \in (a + 1)..b : j \notin S
    <3> SUFFICES ASSUME NEW j \in (a + 1)..b, j \in S PROVE FALSE
      OBVIOUS
    <3>1. PICK i \in 1..m : o[i] = j
      BY <1>8
    <3>2. o[k] < o[i] /\ o[i] < o[k + 1] /\ o[k] \in Nat /\ o[k + 1] \in Nat /\ o[i] \in Nat
      <4>1. o[k] \in Nat /\ o[k + 1] \in Nat /\ o[i] \in Nat
        BY <1>10, <2>1
      <4>2. b = o[k + 1] - 1
        BY <2>1, <2>3
      <4> QED BY <2>3, <3>1, <4>1, <4>2
    <3>3. (i < k => o[i] < o[k]) /\ (k + 1 < i => o[k + 1] < o[i])
      BY <1>8, <2>1
    <3>4. i < k \/ i = k \/ i = k + 1 \/ k + 1 < i
      BY <2>1
    <3> QED BY <3>2, <3>3, <3>4
  <2> DEFINE Bad == {j \in a..b : of[j] # of[a]}
  <2>5. Bad \in SUBSET Nat
    BY <2>3
  <2>6. Bad = {}
    <3> SUFFICES ASSUME Bad # {} PROVE FALSE
      OBVIOUS
    <3>1. PICK j \in Bad : \A x \in Bad : j <= x
      <4> HIDE DEF Bad
      <4> QED BY <2>5, Smallest
    <3>2. j \in a..b /\ of[j] # of[a] /\ j # a
      OBVIOUS
    <3>3. j \in (a + 1)..b /\ j - 1 \in a..b /\ j \in 1..n /\ j # 1 /\ j \in Nat
      BY <2>3, <3>2
    <3>4. of[j] = of[j - 1]
      BY <1>7, <2>4, <3>3
    <3>5. j - 1 \in Bad
      BY <3>2, <3>3, <3>4
    <3>6. j <= j - 1
      <4> HIDE DEF Bad
      <4> QED BY <3>1, <3>5
    <3> QED BY <3>3, <3>6
  <2>7. of[b] = of[a]
    BY <2>3, <2>6
  <2> QED BY <2>3, <2>7
<1> HIDE DEF Until
<1>15. splits \in Seq([last4 : X, pages : SUBSET Nat]) /\ Len(splits) = m
  <2>1. \A k \in 1..m : of[o[k]] \in X /\ o[k]..Until(k) \in SUBSET Nat
    BY <1>10
  <2>2. splits \in [1..m -> [last4 : X, pages : SUBSET Nat]]
    BY <1>12, <2>1
  <2>3. PICK R : R = [last4 : X, pages : SUBSET Nat]
    OBVIOUS
  <2>4. splits \in [1..m -> R] /\ m \in Nat
    BY <1>8, <2>2, <2>3
  <2>5. splits \in Seq(R) /\ Len(splits) = m
    BY <2>4
  <2> QED BY <2>3, <2>5
<1>16. \A k \in 1..m : /\ splits[k].last4 = of[o[k]]
                       /\ Min(splits[k].pages) = o[k] /\ Max(splits[k].pages) = Until(k)
  <2> SUFFICES ASSUME NEW k \in 1..m
               PROVE  /\ splits[k].last4 = of[o[k]]
                      /\ Min(splits[k].pages) = o[k] /\ Max(splits[k].pages) = Until(k)
    OBVIOUS
  <2>1. splits[k].last4 = of[o[k]] /\ splits[k].pages = o[k]..Until(k)
    BY <1>12
  <2>2. o[k] \in Nat /\ Until(k) \in Nat /\ o[k] <= Until(k)
    BY <1>10, <1>13
  <2> QED BY <2>1, <2>2, PageRange
<1>17. ASSUME NEW k \in 1..(m - 1)
       PROVE  /\ Max(splits[k].pages) + 1 = Min(splits[k + 1].pages)
              /\ splits[k].last4 # splits[k + 1].last4
  <2>1. k \in 1..m /\ k + 1 \in 1..m /\ k < k + 1 /\ 1 \in 1..m
    BY <1>8
  <2>2. Until(k) = o[k + 1] - 1 /\ o[k + 1] \in Nat
    BY <1>8, <1>10, <2>1 DEF Until
  <2>3. of[o[k + 1]] # of[o[k + 1] - 1]
    <3>1. o[1] < o[k + 1]
      BY <1>8, <2>1
    <3>2. o[k + 1] \in S /\ o[k + 1] # 1
      BY <1>8, <1>11, <2>1, <2>2, <3>1
    <3> QED BY <1>6, <3>2
  <2>4. of[o[k]] = of[o[k + 1] - 1]
    BY <1>14, <2>2
  <2> QED BY <1>16, <2>1, <2>2, <2>3, <2>4
<1>18. Min(splits[1].pages) = 1 /\ Max(splits[m].pages) = n
  <2>1. 1 \in 1..m /\ m \in 1..m /\ Until(m) = n
    BY <1>8, <1>9 DEF Until
  <2> QED BY <1>11, <1>16, <2>1
<1>19. DOMAIN splits = 1..m
  BY <1>12
<1> QED BY <1>8, <1>9, <1>15, <1>17, <1>18, <1>19 DEF RunsOf
-----------------------------------------------------------------------------
(* Whose pages, in which order. *)

ScanFields == {"at", "range", "starts", "vibe", "glm", "polls", "tries", "todo", "text", "splits"}

\* What the cache keeps is what its key says.
Entries ==
    {entry \in [key : (Glms \cup {Nobody}) \X Nat, reading : [by : Glms \cup {Nobody}, page : Nat]] :
        entry.reading = Reading(entry.key[1], entry.key[2])}

\* A header is to be read ...
HeaderAhead(p) == p.text = <<>> /\ \E page \in Whole : p.todo = <<Top(page)>>

\* ... or the pages read so far and those to be read are those of the range, in
\* order, the former all read by the configuration of this run.
TextAhead(p) ==
    /\ p.todo \in Seq(Whole) /\ p.todo # <<>>
    /\ p.text \in Seq([by : {p.glm}, page : Whole])
    /\ InOrder(p.range) = PagesOf(p.text) \o p.todo

TextRead(p) ==
    /\ \A i \in DOMAIN p.text : p.text[i].page \in Whole
    /\ p.glm # Nobody =>
          /\ p.text \in Seq([by : {p.glm}, page : Whole])
          /\ InOrder(p.range) = PagesOf(p.text)

ScanOK(p) ==
    /\ DOMAIN p = ScanFields /\ p.range \in Ranges /\ p.glm \in Glms \cup {Nobody}
    /\ p.at \in {"idle", "failed", "submit", "poll", "status", "result"} => p.glm = Nobody
    /\ p.at \notin {"page", "asked", "detect"} => p.text = <<>>
    /\ p.at \in {"page", "asked"} => HeaderAhead(p) \/ TextAhead(p)
    /\ p.at = "detect" => TextRead(p)

OcrInv ==
    /\ DOMAIN scan = Scans /\ \A s \in Scans : ScanOK(scan[s])
    /\ cache \in Seq(Entries)

LEMMA ElementsOf ==
    ASSUME NEW R, NEW t \in Seq(R)
    PROVE  /\ \A i \in DOMAIN t : t[i] \in R
           /\ Len(t) \in Nat /\ DOMAIN t = 1..Len(t)
OBVIOUS

LEMMA RangesAreFinite ==
    ASSUME NEW range \in Ranges
    PROVE  /\ range \in SUBSET Whole /\ range \in SUBSET Nat /\ range # {}
           /\ IsFiniteSet(range) /\ PdfPages \in Nat \ {0}
<1>1. PdfPages \in Nat \ {0} /\ range \in SUBSET (1..PdfPages) /\ range # {}
  BY OcrAssumption
<1>2. IsFiniteSet(1..PdfPages)
  BY <1>1, FS_Interval
<1>3. 1..PdfPages \in SUBSET Nat
  BY <1>1
<1> QED BY <1>1, <1>2, <1>3, FS_Subset DEF Whole

\* A run that starts over has read nothing.
LEMMA FreshIsOK ==
    ASSUME NEW range \in Ranges, NEW p, DOMAIN p = ScanFields, p.range = range,
           p.glm = Nobody, p.text = <<>>, p.at \notin {"page", "asked", "detect"}
    PROVE  ScanOK(p)
BY DEF ScanOK

\* One run takes a step.
LEMMA ScanSteps ==
    ASSUME OcrInv, NEW s \in Scans, NEW p, Set(s, p), ScanOK(p), cache' \in Seq(Entries)
    PROVE  OcrInv'
<1>1. DOMAIN scan' = Scans /\ scan'[s] = p /\ \A q \in Scans : q # s => scan'[q] = scan[q]
  BY DEF OcrInv, Set
<1> QED BY <1>1 DEF OcrInv

LEMMA HandOverKeeps ==
    ASSUME OcrInv, NEW s \in Scans, HandOver(s) \/ Fail(s), cache' \in Seq(Entries)
    PROVE  OcrInv'
<1>1. PICK o : o = scan[s] /\ ScanOK(o)
  BY DEF OcrInv
<1>2. PICK p : /\ \/ p = [NewScan(o.range) EXCEPT !.at = "done", !.starts = o.starts]
                  \/ p = [NewScan(o.range) EXCEPT !.at = "failed", !.starts = o.starts]
               /\ Set(s, p)
  BY <1>1 DEF HandOver, Fail
<1>3. /\ DOMAIN p = ScanFields /\ p.range = o.range /\ p.glm = Nobody /\ p.text = <<>>
      /\ p.at \in {"done", "failed"}
  BY <1>2 DEF NewScan, ScanFields
<1>4. ScanOK(p)
  BY <1>1, <1>3, FreshIsOK DEF ScanOK
<1> QED BY <1>2, <1>4, ScanSteps

\* Before anything is read.
LEMMA BeforeReading ==
    ASSUME OcrInv, NEW s \in Scans,
           \/ Begin(s) \/ Submit(s) \/ Poll(s) \/ Pending(s) \/ Completed(s)
           \/ VibeFails(s) \/ TryAgain(s)
    PROVE  OcrInv'
<1>1. PICK o : o = scan[s] /\ ScanOK(o)
  BY DEF OcrInv
<1>2. /\ o.at \in {"idle", "submit", "poll", "status", "result", "failed"}
      /\ cache' = cache
  BY <1>1 DEF Begin, Submit, Poll, Pending, Completed, VibeFails, TryAgain, At, shared, OutOfTime
<1>3. PICK p : /\ Set(s, p) /\ DOMAIN p = DOMAIN o /\ p.range = o.range
               /\ p.glm = o.glm /\ p.text = o.text
               /\ p.at \in {"idle", "submit", "raster", "poll", "status", "result"}
  <2>1. DOMAIN o = ScanFields
    BY <1>1 DEF ScanOK
  <2>2. CASE Begin(s)
    <3>1. PICK vibe \in BOOLEAN :
             Set(s, [o EXCEPT !.at = IF vibe THEN "submit" ELSE "raster",
                              !.vibe = vibe, !.starts = @ + 1])
      BY <1>1, <2>2 DEF Begin
    <3>2. PICK p : p = [o EXCEPT !.at = IF vibe THEN "submit" ELSE "raster",
                                 !.vibe = vibe, !.starts = @ + 1]
      OBVIOUS
    <3>3. /\ DOMAIN p = DOMAIN o /\ p.range = o.range /\ p.glm = o.glm /\ p.text = o.text
          /\ p.at \in {"submit", "raster"}
      BY <2>1, <3>2 DEF ScanFields
    <3> QED BY <3>1, <3>2, <3>3
  <2>3. CASE Submit(s)
    <3>1. PICK p : p = [o EXCEPT !.at = "poll", !.polls = 0]
      OBVIOUS
    <3>2. /\ DOMAIN p = DOMAIN o /\ p.range = o.range /\ p.glm = o.glm /\ p.text = o.text
          /\ p.at = "poll"
      BY <2>1, <3>1 DEF ScanFields
    <3> QED BY <1>1, <2>3, <3>1, <3>2 DEF Submit
  <2>4. CASE Poll(s)
    BY <1>1, <2>1, <2>4 DEF Poll, Goto, ScanFields
  <2>5. CASE Pending(s)
    <3>1. PICK p : p = [o EXCEPT !.at = "poll", !.polls = Min({@ + 1, Budget + 1})]
      OBVIOUS
    <3>2. /\ DOMAIN p = DOMAIN o /\ p.range = o.range /\ p.glm = o.glm /\ p.text = o.text
          /\ p.at = "poll"
      BY <2>1, <3>1 DEF ScanFields
    <3> QED BY <1>1, <2>5, <3>1, <3>2 DEF Pending
  <2>6. CASE Completed(s)
    <3>1. PICK p : p = [o EXCEPT !.at = "result", !.polls = 0]
      OBVIOUS
    <3>2. /\ DOMAIN p = DOMAIN o /\ p.range = o.range /\ p.glm = o.glm /\ p.text = o.text
          /\ p.at = "result"
      BY <2>1, <3>1 DEF ScanFields
    <3> QED BY <1>1, <2>6, <3>1, <3>2 DEF Completed
  <2>7. CASE VibeFails(s)
    <3>1. PICK p : p = [o EXCEPT !.at = "raster", !.polls = 0]
      OBVIOUS
    <3>2. /\ DOMAIN p = DOMAIN o /\ p.range = o.range /\ p.glm = o.glm /\ p.text = o.text
          /\ p.at = "raster"
      BY <2>1, <3>1 DEF ScanFields
    <3> QED BY <1>1, <2>7, <3>1, <3>2 DEF VibeFails
  <2>8. CASE TryAgain(s)
    BY <1>1, <2>1, <2>8 DEF TryAgain, Goto, ScanFields
  <2> QED BY <2>2, <2>3, <2>4, <2>5, <2>6, <2>7, <2>8
<1>4. ScanOK(p)
  BY <1>1, <1>2, <1>3 DEF ScanOK
<1>5. cache' \in Seq(Entries)
  BY <1>2 DEF OcrInv
<1> QED BY <1>3, <1>4, <1>5, ScanSteps

LEMMA ReturnedKeeps ==
    ASSUME OcrInv, NEW s \in Scans, Returned(s)
    PROVE  OcrInv'
<1>1. PICK o : o = scan[s] /\ ScanOK(o)
  BY DEF OcrInv
<1>2. o.at = "result" /\ cache' = cache
  BY <1>1 DEF Returned, At, shared
<1>3. PICK kept, text :
         /\ \E got \in SUBSET Whole : kept = InOrder(got \cap o.range)
         /\ text = [i \in DOMAIN kept |-> Reading(VibeOcr, kept[i])]
         /\ Set(s, [o EXCEPT !.at = "detect", !.text = text])
  <2>1. PICK got \in SUBSET Whole :
           LET kept == InOrder(got \cap o.range)
           IN  Set(s, [o EXCEPT !.at = "detect",
                                !.text = [i \in DOMAIN kept |-> Reading(VibeOcr, kept[i])]])
    BY <1>1 DEF Returned
  <2>2. PICK kept : kept = InOrder(got \cap o.range)
    OBVIOUS
  <2>3. PICK text : text = [i \in DOMAIN kept |-> Reading(VibeOcr, kept[i])]
    OBVIOUS
  <2> QED BY <2>1, <2>2, <2>3
<1>4. PICK p : p = [o EXCEPT !.at = "detect", !.text = text]
  OBVIOUS
<1>5. \A i \in DOMAIN kept : kept[i] \in Whole
  <2>0. PICK got \in SUBSET Whole : kept = InOrder(got \cap o.range)
    BY <1>3
  <2>1. /\ got \cap o.range \in SUBSET Nat /\ IsFiniteSet(got \cap o.range)
        /\ got \cap o.range \in SUBSET Whole
    BY <1>1, RangesAreFinite, FS_Subset DEF ScanOK
  <2>2. \A i \in DOMAIN kept : kept[i] \in got \cap o.range
    BY <2>0, <2>1, Ordered
  <2> QED BY <2>1, <2>2
<1>6. \A i \in DOMAIN text : text[i].page \in Whole
  BY <1>3, <1>5 DEF Reading
<1>7. ScanOK(p)
  BY <1>1, <1>2, <1>4, <1>6 DEF ScanOK, ScanFields, TextRead
<1>8. cache' \in Seq(Entries) /\ Set(s, p)
  BY <1>2, <1>3, <1>4 DEF OcrInv
<1> QED BY <1>7, <1>8, ScanSteps

LEMMA RasterizeKeeps ==
    ASSUME OcrInv, NEW s \in Scans, Rasterize(s)
    PROVE  OcrInv'
<1>1. PICK o : o = scan[s] /\ ScanOK(o)
  BY DEF OcrInv
<1>2. o.at = "raster" /\ cache' \in Seq(Entries)
  BY <1>1 DEF Rasterize, At, shared, OcrInv
<1>3. CASE Fail(s)
  BY <1>2, <1>3, HandOverKeeps
<1>4. CASE Goto(s, "permanent")
  <2>1. PICK p : p = [o EXCEPT !.at = "permanent"]
    OBVIOUS
  <2>2. ScanOK(p)
    BY <1>1, <1>2, <2>1 DEF ScanOK, ScanFields
  <2> QED BY <1>1, <1>2, <1>4, <2>1, <2>2, ScanSteps DEF Goto
<1>5. ASSUME NEW glm \in Glms,
             Set(s, [o EXCEPT !.at = "page", !.glm = glm, !.todo = InOrder(o.range)])
      PROVE  OcrInv'
  <2>1. PICK d : d = InOrder(o.range)
    OBVIOUS
  <2>2. PICK p : p = [o EXCEPT !.at = "page", !.glm = glm, !.todo = d]
    OBVIOUS
  <2>3. d \in Seq(Whole) /\ d # <<>>
    <3>1. /\ o.range \in SUBSET Whole /\ o.range \in SUBSET Nat /\ o.range # {}
          /\ IsFiniteSet(o.range)
      BY <1>1, RangesAreFinite DEF ScanOK
    <3>2. d \in Seq(o.range) /\ \A x \in o.range : \E i \in DOMAIN d : d[i] = x
      BY <2>1, <3>1, Ordered
    <3> QED BY <3>1, <3>2
  <2>4. /\ DOMAIN p = ScanFields /\ p.range = o.range /\ p.glm = glm /\ p.at = "page"
        /\ p.todo = d /\ p.text = <<>>
    BY <1>1, <1>2, <2>2 DEF ScanOK, ScanFields
  <2>5. PagesOf(p.text) \o d = d
    BY <2>3, <2>4 DEF PagesOf
  <2>6. TextAhead(p)
    BY <2>1, <2>3, <2>4, <2>5 DEF TextAhead
  <2>7. ScanOK(p)
    BY <1>1, <2>4, <2>6 DEF ScanOK
  <2> QED BY <1>2, <1>5, <2>1, <2>2, <2>7, ScanSteps
<1> QED BY <1>1, <1>3, <1>4, <1>5 DEF Rasterize

Passed(R, text, d, x) ==
    /\ Append(text, x) \in Seq(R) /\ Tail(d) \in Seq(Whole)
    /\ PagesOf(Append(text, x)) \o Tail(d) = PagesOf(text) \o d
    /\ Tail(d) = <<>> => PagesOf(Append(text, x)) = PagesOf(text) \o d

\* A page that is read passes from the pages ahead to the text.
LEMMA NextPage ==
    ASSUME NEW glm, NEW R, R = [by : {glm}, page : Whole], NEW text \in Seq(R),
           NEW d \in Seq(Whole), d # <<>>, NEW x, x = Reading(glm, Head(d))
    PROVE  Passed(R, text, d, x)
<1>1. Head(d) \in Whole /\ Tail(d) \in Seq(Whole) /\ Len(d) \in Nat \ {0}
  OBVIOUS
<1>2. x \in R /\ x.page = Head(d)
  BY <1>1 DEF Reading
<1>3. /\ Len(text) \in Nat /\ DOMAIN text = 1..Len(text)
      /\ \A i \in 1..Len(text) : text[i].page \in Whole
  <2>1. /\ Len(text) \in Nat /\ DOMAIN text = 1..Len(text)
        /\ \A i \in 1..Len(text) : text[i] \in R
    BY ElementsOf
  <2> QED BY <2>1
<1>4. /\ Append(text, x) \in Seq(R) /\ Len(Append(text, x)) = Len(text) + 1
      /\ \A i \in 1..(Len(text) + 1) :
            Append(text, x)[i] = IF i <= Len(text) THEN text[i] ELSE x
  BY <1>2, <1>3
<1>5. PICK t : t = PagesOf(text)
  OBVIOUS
<1>6. PICK u : u = PagesOf(Append(text, x))
  OBVIOUS
<1>7. /\ t \in Seq(Whole) /\ Len(t) = Len(text)
      /\ \A i \in 1..Len(text) : t[i] = text[i].page
  <2>1. t \in [1..Len(text) -> Whole] /\ \A i \in 1..Len(text) : t[i] = text[i].page
    BY <1>3, <1>5 DEF PagesOf
  <2> QED BY <1>3, <2>1
<1>8. u \in Seq(Whole) /\ u = Append(t, Head(d))
  <2>1. DOMAIN Append(text, x) = 1..(Len(text) + 1)
    BY <1>3, <1>4
  <2>2. u = [i \in 1..(Len(text) + 1) |-> IF i <= Len(text) THEN text[i].page ELSE Head(d)]
    BY <1>2, <1>4, <1>6, <2>1 DEF PagesOf
  <2>3. u = [i \in 1..(Len(t) + 1) |-> IF i <= Len(t) THEN t[i] ELSE Head(d)]
    BY <1>3, <1>7, <2>2
  <2>4. u \in [1..(Len(t) + 1) -> Whole]
    BY <1>1, <1>7, <2>3
  <2>5. Len(t) + 1 \in Nat
    BY <1>3, <1>7
  <2>6. u \in Seq(Whole) /\ Len(u) = Len(t) + 1
    BY <2>4, <2>5
  <2> QED BY <1>1, <1>7, <2>3, <2>6
<1>9. u \o Tail(d) = t \o d
  <2>1. PICK h \in Whole : h = Head(d)
    BY <1>1
  <2>2. Append(t, h) \o Tail(d) = t \o d
    BY <1>1, <1>7, <2>1
  <2> QED BY <1>8, <2>1, <2>2
<1>10. Tail(d) = <<>> => u = t \o d
  <2>1. u \o <<>> = u
    BY <1>8
  <2> QED BY <1>9, <2>1
<1> QED BY <1>1, <1>4, <1>5, <1>6, <1>9, <1>10 DEF Passed

\* The reading taken is one of the image at hand by the run's configuration.
LEMMA TakenKeeps ==
    ASSUME OcrInv, NEW s \in Scans, At(s, "page") \/ At(s, "asked"), NEW x,
           x = Reading(scan[s].glm, Head(scan[s].todo)), Taken(s, x), cache' \in Seq(Entries)
    PROVE  OcrInv'
<1>1. PICK o : o = scan[s] /\ ScanOK(o)
  BY DEF OcrInv
<1>2. CASE ReadsHeader(s)
  BY <1>2, HandOverKeeps DEF Taken
<1>3. CASE ~ReadsHeader(s)
  <2>1. Head(o.todo) \in Whole
    BY <1>1, <1>3 DEF ReadsHeader
  <2>2. TextAhead(o)
    <3>1. ASSUME HeaderAhead(o) PROVE FALSE
      <4>1. PICK page \in Whole : o.todo = <<Top(page)>>
        BY <3>1 DEF HeaderAhead
      <4>2. Head(o.todo) = PdfPages + page /\ page \in 1..PdfPages /\ PdfPages \in Nat
        BY <4>1, OcrAssumption DEF Top, Whole
      <4>3. Head(o.todo) \notin 1..PdfPages
        BY <4>2
      <4> QED BY <2>1, <4>3 DEF Whole
    <3>2. o.at \in {"page", "asked"}
      BY <1>1 DEF At
    <3> QED BY <1>1, <3>1, <3>2 DEF ScanOK
  <2>0. PICK R : R = [by : {o.glm}, page : Whole]
    OBVIOUS
  <2>3. PICK d \in Seq(Whole), text \in Seq(R) :
           /\ d = o.todo /\ text = o.text /\ d # <<>>
           /\ InOrder(o.range) = PagesOf(text) \o d
    BY <2>0, <2>2 DEF TextAhead
  <2>4. /\ Append(text, x) \in Seq(R) /\ Tail(d) \in Seq(Whole)
        /\ PagesOf(Append(text, x)) \o Tail(d) = InOrder(o.range)
        /\ Tail(d) = <<>> => PagesOf(Append(text, x)) = InOrder(o.range)
    <3>1. PICK glm : glm = o.glm
      OBVIOUS
    <3>2. R = [by : {glm}, page : Whole]
      BY <2>0, <3>1
    <3>3. x = Reading(glm, Head(d)) /\ d # <<>>
      BY <1>1, <2>3, <3>1
    <3>4. Passed(R, text, d, x)
      BY <3>2, <3>3, NextPage
    <3> QED BY <2>3, <3>4 DEF Passed
  <2>5. PICK p : p = [o EXCEPT !.at = IF Tail(d) = <<>> THEN "detect" ELSE "page",
                               !.todo = Tail(d), !.tries = 0, !.text = Append(@, x)]
    OBVIOUS
  <2>6. Set(s, p)
    BY <1>1, <1>3, <2>3, <2>5 DEF Taken
  <2>7. /\ DOMAIN p = ScanFields /\ p.range = o.range /\ p.glm = o.glm
        /\ p.at = IF Tail(d) = <<>> THEN "detect" ELSE "page"
        /\ p.todo = Tail(d) /\ p.text = Append(text, x)
    BY <1>1, <2>3, <2>5 DEF ScanOK, ScanFields
  <2>8. CASE Tail(d) = <<>>
    <3>1. \A i \in DOMAIN p.text : p.text[i].page \in Whole
      <4>1. \A i \in DOMAIN p.text : p.text[i] \in R
        BY <2>4, <2>7, ElementsOf
      <4> QED BY <2>0, <4>1
    <3>2. TextRead(p)
      BY <2>0, <2>4, <2>7, <2>8, <3>1 DEF TextRead
    <3>3. ScanOK(p)
      BY <1>1, <2>7, <2>8, <3>2 DEF ScanOK
    <3> QED BY <2>6, <3>3, ScanSteps
  <2>9. CASE Tail(d) # <<>>
    <3>1. TextAhead(p)
      BY <2>0, <2>4, <2>7, <2>9 DEF TextAhead
    <3>2. ScanOK(p)
      BY <1>1, <2>7, <2>9, <3>1 DEF ScanOK
    <3> QED BY <2>6, <3>2, ScanSteps
  <2> QED BY <2>8, <2>9
<1> QED BY <1>2, <1>3

\* What the cache has under a key is the reading the key names.
LEMMA EntryIsIts ==
    ASSUME NEW entry \in Entries, NEW glm, NEW image, entry.key = pageCacheKey(glm, image)
    PROVE  entry.reading = Reading(glm, image)
BY DEF Entries, pageCacheKey

LEMMA FromCacheKeeps ==
    ASSUME OcrInv, NEW s \in Scans, FromCache(s)
    PROVE  OcrInv'
<1>1. PICK i \in Cached(Key(s)) : Taken(s, cache[i].reading)
  BY DEF FromCache
<1>2. cache' \in Seq(Entries) /\ At(s, "page")
  BY DEF FromCache, OcrInv, shared
<1>3. cache[i] \in Entries /\ cache[i].key = pageCacheKey(scan[s].glm, Head(scan[s].todo))
  BY <1>1 DEF Cached, Key, OcrInv
<1>4. cache[i].reading = Reading(scan[s].glm, Head(scan[s].todo))
  BY <1>3, EntryIsIts
<1> QED BY <1>1, <1>2, <1>4, TakenKeeps

\* The cache after a reading was kept.
LEMMA KeepKeeps ==
    ASSUME cache \in Seq(Entries), NEW glm \in Glms \cup {Nobody}, NEW image \in Nat
    PROVE  Keep(pageCacheKey(glm, image), Reading(glm, image)) \in Seq(Entries)
<1>1. PICK key, entry : /\ key = pageCacheKey(glm, image)
                        /\ entry = [key |-> key, reading |-> Reading(glm, image)]
  OBVIOUS
<1>2. entry \in Entries
  <2>1. entry.key = <<glm, image>> /\ entry.reading = Reading(glm, image)
    BY <1>1 DEF pageCacheKey
  <2>2. entry \in [key : (Glms \cup {Nobody}) \X Nat, reading : [by : Glms \cup {Nobody}, page : Nat]]
    BY <1>1 DEF pageCacheKey, Reading
  <2> QED BY <2>1, <2>2 DEF Entries
<1>3. PICK others : others = IF Cached(key) = {} THEN cache
                             ELSE RemoveAt(cache, Min(Cached(key)))
  OBVIOUS
<1>4. others \in Seq(Entries)
  <2>1. CASE Cached(key) = {}
    BY <1>3, <2>1
  <2>2. CASE Cached(key) # {}
    <3>1. /\ Cached(key) \in SUBSET Nat /\ IsFiniteSet(Cached(key))
          /\ Cached(key) \in SUBSET (1..Len(cache)) /\ Len(cache) \in Nat
      <4>1. Len(cache) \in Nat /\ DOMAIN cache = 1..Len(cache)
        OBVIOUS
      <4>2. Cached(key) \in SUBSET (1..Len(cache)) /\ IsFiniteSet(1..Len(cache))
        BY <4>1, FS_Interval DEF Cached
      <4> QED BY <4>1, <4>2, FS_Subset
    <3>2. PICK i \in 1..Len(cache) : i = Min(Cached(key))
      BY <2>2, <3>1, Extremes
    <3>3. SubSeq(cache, 1, i - 1) \in Seq(Entries)
      BY <3>1
    <3>4. SubSeq(cache, i + 1, Len(cache)) \in Seq(Entries)
      BY <3>1
    <3>5. RemoveAt(cache, i) \in Seq(Entries)
      BY <3>3, <3>4 DEF RemoveAt
    <3> QED BY <1>3, <2>2, <3>2, <3>5
  <2> QED BY <2>1, <2>2
<1>5. PICK all \in Seq(Entries) : all = Append(others, entry) /\ all # <<>>
  <2>1. Append(others, entry) \in Seq(Entries)
    BY <1>2, <1>4
  <2>2. Len(Append(others, entry)) = Len(others) + 1 /\ Len(others) \in Nat
    BY <1>2, <1>4
  <2>3. Append(others, entry) # <<>>
    BY <2>2
  <2> QED BY <2>1, <2>3
<1>6. Tail(all) \in Seq(Entries)
  BY <1>5
<1>7. Keep(key, Reading(glm, image)) = IF Len(all) > CacheMax THEN Tail(all) ELSE all
  BY <1>1, <1>3, <1>5 DEF Keep
<1> QED BY <1>1, <1>5, <1>6, <1>7

LEMMA TranscribedKeeps ==
    ASSUME OcrInv, NEW s \in Scans, Transcribed(s)
    PROVE  OcrInv'
<1>1. PICK o : o = scan[s] /\ ScanOK(o) /\ o.at = "asked"
  BY DEF OcrInv, Transcribed, At
<1>2. o.glm \in Glms \cup {Nobody} /\ Head(o.todo) \in Nat
  <2>1. CASE HeaderAhead(o)
    <3>1. PICK page \in Whole : o.todo = <<Top(page)>>
      BY <2>1 DEF HeaderAhead
    <3>2. Top(page) \in Nat
      BY OcrAssumption DEF Top, Whole
    <3> QED BY <1>1, <3>1, <3>2 DEF ScanOK
  <2>2. CASE TextAhead(o)
    <3>1. Head(o.todo) \in Whole
      BY <2>2 DEF TextAhead
    <3> QED BY <1>1, <3>1, OcrAssumption DEF ScanOK, Whole
  <2> QED BY <1>1, <2>1, <2>2 DEF ScanOK
<1>3. PICK x : x = Reading(o.glm, Head(o.todo))
  OBVIOUS
<1>4. cache' = Keep(Key(s), x) \/ cache' = cache
  BY <1>1, <1>3 DEF Transcribed
<1>5. cache' \in Seq(Entries)
  <2>1. cache \in Seq(Entries)
    BY DEF OcrInv
  <2>2. Keep(pageCacheKey(o.glm, Head(o.todo)), Reading(o.glm, Head(o.todo))) \in Seq(Entries)
    BY <1>2, <2>1, KeepKeeps
  <2> QED BY <1>1, <1>3, <1>4, <2>1, <2>2 DEF Key
<1>6. Taken(s, x) /\ At(s, "asked")
  BY <1>1, <1>3 DEF Transcribed
<1> QED BY <1>1, <1>3, <1>5, <1>6, TakenKeeps

\* Asking, and failing to get an answer.
LEMMA AskingKeeps ==
    ASSUME OcrInv, NEW s \in Scans, CircuitOpen(s) \/ Ask(s) \/ TryFails(s) \/ Refused(s)
    PROVE  OcrInv'
<1>1. PICK o : o = scan[s] /\ ScanOK(o) /\ o.at \in {"page", "asked"}
  BY DEF OcrInv, CircuitOpen, Ask, TryFails, Refused, At
<1>2. cache' \in Seq(Entries)
  BY DEF OcrInv, CircuitOpen, Ask, TryFails, Refused, shared
<1>3. CASE Lost(s)
  BY <1>2, <1>3, HandOverKeeps DEF Lost
<1>4. ASSUME NEW p, Set(s, p), DOMAIN p = DOMAIN o, p.range = o.range, p.glm = o.glm,
             p.text = o.text, p.todo = o.todo, p.at \in {"page", "asked"}
      PROVE  OcrInv'
  <2>1. HeaderAhead(o) => HeaderAhead(p)
    BY <1>4 DEF HeaderAhead
  <2>2. TextAhead(o) => TextAhead(p)
    BY <1>4 DEF TextAhead
  <2>3. ScanOK(p)
    BY <1>1, <1>4, <2>1, <2>2 DEF ScanOK
  <2> QED BY <1>2, <1>4, <2>3, ScanSteps
<1>5. DOMAIN o = ScanFields
  BY <1>1 DEF ScanOK
<1>6. CASE Ask(s)
  <2>1. PICK p : p = [o EXCEPT !.at = "asked", !.tries = 1]
    OBVIOUS
  <2>2. /\ DOMAIN p = DOMAIN o /\ p.range = o.range /\ p.glm = o.glm /\ p.text = o.text
        /\ p.todo = o.todo /\ p.at = "asked"
    BY <1>5, <2>1 DEF ScanFields
  <2> QED BY <1>1, <1>4, <1>6, <2>1, <2>2 DEF Ask
<1>7. CASE Set(s, [o EXCEPT !.tries = @ + 1])
  <2>1. PICK p : p = [o EXCEPT !.tries = @ + 1]
    OBVIOUS
  <2>2. /\ DOMAIN p = DOMAIN o /\ p.range = o.range /\ p.glm = o.glm /\ p.text = o.text
        /\ p.todo = o.todo /\ p.at = o.at
    BY <1>5, <2>1 DEF ScanFields
  <2> QED BY <1>1, <1>4, <1>7, <2>1, <2>2
<1>8. CircuitOpen(s) \/ Refused(s) => Lost(s)
  BY DEF CircuitOpen, Refused
<1>9. TryFails(s) => Lost(s) \/ Set(s, [o EXCEPT !.tries = @ + 1])
  BY <1>1 DEF TryFails
<1> QED BY <1>3, <1>6, <1>7, <1>8, <1>9

\* The text is done with; a header may follow.
LEMMA AfterReading ==
    ASSUME OcrInv, NEW s \in Scans, Detect(s) \/ SkipHeader(s) \/ GlmHeader(s)
    PROVE  OcrInv'
<1>1. PICK o : o = scan[s] /\ ScanOK(o)
  BY DEF OcrInv
<1>2. cache' \in Seq(Entries)
  BY DEF OcrInv, Detect, SkipHeader, GlmHeader, shared
<1>3. CASE Detect(s)
  <2>1. PICK splits : Told(s, splits)
    BY <1>3 DEF Detect
  <2>2. PICK p : p = [NewScan(o.range) EXCEPT !.at = "head", !.vibe = o.vibe,
                                              !.starts = o.starts, !.splits = splits]
    OBVIOUS
  <2>3. /\ DOMAIN p = ScanFields /\ p.range = o.range /\ p.glm = Nobody /\ p.text = <<>>
        /\ p.at = "head"
    BY <2>2 DEF NewScan, ScanFields
  <2>4. ScanOK(p)
    BY <1>1, <2>3, FreshIsOK DEF ScanOK
  <2> QED BY <1>1, <1>2, <2>1, <2>2, <2>4, ScanSteps DEF Told
<1>4. CASE SkipHeader(s)
  BY <1>2, <1>4, HandOverKeeps DEF SkipHeader
<1>5. CASE GlmHeader(s)
  <2>1. PICK glm \in Glms :
           Set(s, [o EXCEPT !.at = "page", !.glm = glm, !.todo = <<Top(Min(o.range))>>])
    BY <1>1, <1>5 DEF GlmHeader
  <2>2. PICK p : p = [o EXCEPT !.at = "page", !.glm = glm, !.todo = <<Top(Min(o.range))>>]
    OBVIOUS
  <2>3. Min(o.range) \in Whole
    <3>1. /\ o.range \in SUBSET Whole /\ o.range \in SUBSET Nat /\ o.range # {}
          /\ IsFiniteSet(o.range)
      BY <1>1, RangesAreFinite DEF ScanOK
    <3> QED BY <3>1, Extremes
  <2>4. o.at = "head" /\ o.text = <<>> /\ DOMAIN o = ScanFields
    BY <1>1, <1>5 DEF GlmHeader, At, ScanOK
  <2>5. /\ DOMAIN p = ScanFields /\ p.range = o.range /\ p.glm = glm /\ p.at = "page"
        /\ p.text = <<>> /\ p.todo = <<Top(Min(o.range))>>
    BY <2>2, <2>4 DEF ScanFields
  <2>6. HeaderAhead(p)
    BY <2>3, <2>5 DEF HeaderAhead
  <2>7. ScanOK(p)
    BY <1>1, <2>5, <2>6 DEF ScanOK
  <2> QED BY <1>2, <2>1, <2>2, <2>7, ScanSteps
<1> QED BY <1>3, <1>4, <1>5

LEMMA RestartKeeps ==
    ASSUME OcrInv, Restart
    PROVE  OcrInv'
<1>1. scan' = [s \in Scans |-> IF AtWork(s)
                   THEN [NewScan(scan[s].range) EXCEPT !.starts = scan[s].starts - 1] ELSE scan[s]]
  BY DEF Restart
<1>2. ASSUME NEW s \in Scans PROVE ScanOK(scan'[s])
  <2>1. PICK o : o = scan[s] /\ ScanOK(o)
    BY DEF OcrInv
  <2>2. CASE AtWork(s)
    <3>1. PICK p : p = [NewScan(o.range) EXCEPT !.starts = o.starts - 1]
      OBVIOUS
    <3>2. /\ DOMAIN p = ScanFields /\ p.range = o.range /\ p.glm = Nobody /\ p.text = <<>>
          /\ p.at = "idle"
      BY <3>1 DEF NewScan, ScanFields
    <3>3. ScanOK(p)
      BY <2>1, <3>2, FreshIsOK DEF ScanOK
    <3> QED BY <1>1, <2>1, <2>2, <3>1, <3>3
  <2>3. CASE ~AtWork(s)
    BY <1>1, <2>1, <2>3
  <2> QED BY <2>2, <2>3
<1>3. cache' \in Seq(Entries) /\ DOMAIN scan' = Scans
  BY <1>1 DEF Restart
<1> QED BY <1>2, <1>3 DEF OcrInv

LEMMA OcrStarts == OcrInit => OcrInv
<1> SUFFICES ASSUME OcrInit PROVE OcrInv
  OBVIOUS
<1>1. ASSUME NEW s \in Scans PROVE ScanOK(scan[s])
  <2>1. PICK range \in Ranges : scan[s] = NewScan(range)
    BY DEF OcrInit
  <2>2. PICK p : p = NewScan(range)
    OBVIOUS
  <2>3. /\ DOMAIN p = ScanFields /\ p.range = range /\ p.glm = Nobody /\ p.text = <<>>
        /\ p.at = "idle"
    BY <2>2 DEF NewScan, ScanFields
  <2>4. ScanOK(p)
    BY <2>3, FreshIsOK
  <2> QED BY <2>1, <2>2, <2>4
<1>2. DOMAIN scan = Scans /\ cache \in Seq(Entries)
  BY DEF OcrInit
<1> QED BY <1>1, <1>2 DEF OcrInv

LEMMA OcrInvKept == OcrInv /\ [OcrNext]_ocrVars => OcrInv'
<1> SUFFICES ASSUME OcrInv, [OcrNext]_ocrVars PROVE OcrInv'
  OBVIOUS
<1>1. CASE OcrNext
  <2>1. ASSUME NEW s \in Scans, Step(s) PROVE OcrInv'
    <3>1. CASE \/ Begin(s) \/ Submit(s) \/ Poll(s) \/ Pending(s) \/ Completed(s)
               \/ VibeFails(s) \/ TryAgain(s)
      BY <3>1, BeforeReading
    <3>2. CASE Returned(s) \/ Rasterize(s)
      BY <3>2, ReturnedKeeps, RasterizeKeeps
    <3>3. CASE FromCache(s) \/ Transcribed(s)
      BY <3>3, FromCacheKeeps, TranscribedKeeps
    <3>4. CASE CircuitOpen(s) \/ Ask(s) \/ TryFails(s) \/ Refused(s)
      BY <3>4, AskingKeeps
    <3>5. CASE Detect(s) \/ SkipHeader(s) \/ GlmHeader(s)
      BY <3>5, AfterReading
    <3> QED BY <2>1, <3>1, <3>2, <3>3, <3>4, <3>5 DEF Step
  <2>2. CASE Forget
    <3>1. cache' \in Seq(Entries) /\ scan' = scan
      BY <2>2 DEF Forget, OcrInv
    <3> QED BY <3>1 DEF OcrInv
  <2>3. CASE Cooldown
    BY <2>3 DEF Cooldown, OcrInv
  <2>4. CASE Restart
    BY <2>4, RestartKeeps
  <2> QED BY <1>1, <2>1, <2>2, <2>3, <2>4 DEF OcrNext
<1>2. CASE UNCHANGED ocrVars
  BY <1>2 DEF ocrVars, OcrInv
<1> QED BY <1>1, <1>2

\* Of each run: what was read so far, with what is ahead, is the range in order.
THEOREM ReadingInvariant == OcrSpec => []OcrInv
<1> QED BY OcrStarts, OcrInvKept, PTL DEF OcrSpec

\* The text GLM-OCR hands over (glmOcrExtract) is that of every page of the range, once and
\* in order, by one configuration: with any number of runs, attempts and restarts between
\* which the page cache is shared, and whatever it forgets.
THEOREM PagesAreWhole == OcrSpec => []PagesWhole
<1>1. ASSUME OcrInv PROVE PagesWhole
  <2> SUFFICES ASSUME NEW s \in Scans, At(s, "detect"), scan[s].glm # Nobody
               PROVE  /\ PagesOf(scan[s].text) = InOrder(scan[s].range)
                      /\ Cardinality({scan[s].text[i].by : i \in DOMAIN scan[s].text}) = 1
    BY DEF PagesWhole
  <2>1. PICK o : o = scan[s] /\ ScanOK(o) /\ o.at = "detect" /\ o.glm # Nobody
    BY <1>1 DEF OcrInv, At
  <2>2. /\ o.text \in Seq([by : {o.glm}, page : Whole])
        /\ InOrder(o.range) = PagesOf(o.text)
    BY <2>1 DEF ScanOK, TextRead
  <2>3. \A i \in DOMAIN o.text : o.text[i].by = o.glm
    <3>1. PICK R : R = [by : {o.glm}, page : Whole]
      OBVIOUS
    <3>2. o.text \in Seq(R)
      BY <2>2, <3>1
    <3>3. \A i \in DOMAIN o.text : o.text[i] \in R
      BY <3>2, ElementsOf
    <3> QED BY <3>1, <3>3
  <2>4. DOMAIN o.text # {}
    <3>1. PICK d : d = InOrder(o.range)
      OBVIOUS
    <3>2. o.range # {} /\ \A x \in o.range : \E i \in DOMAIN d : d[i] = x
      BY <2>1, <3>1, RangesAreFinite, Ordered DEF ScanOK
    <3>3. DOMAIN d = DOMAIN o.text
      BY <2>2, <3>1 DEF PagesOf
    <3> QED BY <3>2, <3>3
  <2>5. {o.text[i].by : i \in DOMAIN o.text} = {o.glm}
    BY <2>3, <2>4
  <2>6. Cardinality({o.text[i].by : i \in DOMAIN o.text}) = 1
    BY <2>5, FS_Singleton
  <2> QED BY <2>1, <2>2, <2>6
<1> QED BY <1>1, ReadingInvariant, PTL

-----------------------------------------------------------------------------
(* The splits that are offered. *)

\* Ranges of one account each that follow on one another over n pages.
Tiles(splits, n) ==
    /\ \A k \in DOMAIN splits : splits[k].last4 \in Accounts
    /\ Min(splits[1].pages) = 1 /\ Max(Last(splits).pages) = n
    /\ \A k \in 1..Len(splits) - 1 :
          /\ Max(splits[k].pages) + 1 = Min(splits[k + 1].pages)
          /\ splits[k].last4 # splits[k + 1].last4

\* A page goes with the last page before it that names an account, the first
\* with the first that does: every page has an owner.
LEMMA OwnersTile ==
    ASSUME NEW n \in Nat \ {0}, NEW owner \in [1..n -> Accounts \cup {Nobody}],
           NEW last \in 1..n, owner[last] # Nobody,
           NEW splits, splits = splitsFromPageOwner(owner)
    PROVE  Tiles(splits, n)
<1> DEFINE named(k) == {j \in 1..k : owner[j] # Nobody}
           page(i) == IF named(i) # {} THEN Max(named(i)) ELSE Min(named(n))
           of == [i \in 1..n |-> owner[page(i)]]
<1>1. n \in Nat /\ DOMAIN owner = 1..n /\ Len(owner) = n
  OBVIOUS
<1>2. \A k \in 1..n : named(k) \in SUBSET Nat /\ IsFiniteSet(named(k))
  <2> SUFFICES ASSUME NEW k \in 1..n PROVE named(k) \in SUBSET Nat /\ IsFiniteSet(named(k))
    OBVIOUS
  <2>1. IsFiniteSet(1..k) /\ 1..k \in SUBSET Nat /\ named(k) \in SUBSET (1..k)
    BY FS_Interval
  <2> QED BY <2>1, FS_Subset
<1>3. \A k \in 1..n : \A j \in named(k) : owner[j] \in Accounts
  <2> SUFFICES ASSUME NEW k \in 1..n, NEW j \in named(k) PROVE owner[j] \in Accounts
    OBVIOUS
  <2>1. j \in 1..n /\ owner[j] # Nobody
    BY <1>1
  <2> QED BY <2>1
<1>4. n \in 1..n /\ last \in named(n)
  BY <1>1
<1> HIDE DEF named
<1>5. \A i \in 1..n : page(i) \in named(i) \cup named(n)
  BY <1>2, <1>4, Extremes
<1>6. of \in [1..n -> Accounts]
  BY <1>3, <1>4, <1>5
<1>7. splits = Splits(of)
  <2>1. splits = Splits([i \in 1..n |->
           owner[IF named(i) # {} THEN Max(named(i)) ELSE Min(named(n))]])
    BY <1>1 DEF splitsFromPageOwner, named
  <2> QED BY <2>1
<1> HIDE DEF of
<1>8. RunsOf(splits, Accounts, n)
  BY <1>6, <1>7, SplitsAreRuns
<1>9. \A k \in DOMAIN splits : splits[k].last4 \in Accounts
  <2>1. PICK R : R = [last4 : Accounts, pages : SUBSET Nat]
    OBVIOUS
  <2>2. splits \in Seq(R)
    BY <1>8, <2>1 DEF RunsOf
  <2>3. \A k \in DOMAIN splits : splits[k] \in R
    BY <2>2, ElementsOf
  <2> QED BY <2>1, <2>3
<1> QED BY <1>8, <1>9 DEF RunsOf, Tiles, Last

\* Only the detection offers splits.
LEMMA OthersOfferNone ==
    ASSUME OcrInv, NEW s \in Scans, NEW q \in Scans, Step(q), ~Detect(q)
    PROVE  scan'[s].splits \in {<<>>, scan[s].splits}
<1>1. PICK o : o = scan[q] /\ DOMAIN o = ScanFields
  BY DEF OcrInv, ScanOK
<1>2. ASSUME NEW p, Set(q, p), p.splits \in {<<>>, o.splits}
      PROVE  scan'[s].splits \in {<<>>, scan[s].splits}
  <2>1. scan' = [scan EXCEPT ![q] = p] /\ DOMAIN scan = Scans
    BY <1>2 DEF Set, OcrInv
  <2> QED BY <1>1, <1>2, <2>1
<1>3. CASE HandOver(q) \/ Fail(q)
  <2>1. PICK p : /\ \/ p = [NewScan(o.range) EXCEPT !.at = "done", !.starts = o.starts]
                    \/ p = [NewScan(o.range) EXCEPT !.at = "failed", !.starts = o.starts]
                 /\ Set(q, p)
    BY <1>1, <1>3 DEF HandOver, Fail
  <2>2. p.splits = <<>>
    BY <2>1 DEF NewScan
  <2> QED BY <1>2, <2>1, <2>2
<1>4. ASSUME NEW place, Goto(q, place) PROVE scan'[s].splits \in {<<>>, scan[s].splits}
  <2>1. PICK p : p = [o EXCEPT !.at = place]
    OBVIOUS
  <2>2. p.splits = o.splits
    BY <1>1, <2>1 DEF ScanFields
  <2> QED BY <1>1, <1>2, <1>4, <2>1, <2>2 DEF Goto
<1>5. CASE Begin(q)
  <2>1. PICK vibe \in BOOLEAN :
           Set(q, [o EXCEPT !.at = IF vibe THEN "submit" ELSE "raster",
                            !.vibe = vibe, !.starts = @ + 1])
    BY <1>1, <1>5 DEF Begin
  <2>2. PICK p : p = [o EXCEPT !.at = IF vibe THEN "submit" ELSE "raster",
                               !.vibe = vibe, !.starts = @ + 1]
    OBVIOUS
  <2>3. p.splits = o.splits
    BY <1>1, <2>2 DEF ScanFields
  <2> QED BY <1>2, <2>1, <2>2, <2>3
<1>6. CASE Submit(q)
  <2>1. PICK p : p = [o EXCEPT !.at = "poll", !.polls = 0]
    OBVIOUS
  <2>2. p.splits = o.splits
    BY <1>1, <2>1 DEF ScanFields
  <2> QED BY <1>1, <1>2, <1>6, <2>1, <2>2 DEF Submit
<1>7. CASE Pending(q)
  <2>1. PICK p : p = [o EXCEPT !.at = "poll", !.polls = Min({@ + 1, Budget + 1})]
    OBVIOUS
  <2>2. p.splits = o.splits
    BY <1>1, <2>1 DEF ScanFields
  <2> QED BY <1>1, <1>2, <1>7, <2>1, <2>2 DEF Pending
<1>8. CASE Completed(q)
  <2>1. PICK p : p = [o EXCEPT !.at = "result", !.polls = 0]
    OBVIOUS
  <2>2. p.splits = o.splits
    BY <1>1, <2>1 DEF ScanFields
  <2> QED BY <1>1, <1>2, <1>8, <2>1, <2>2 DEF Completed
<1>9. CASE VibeFails(q)
  <2>1. PICK p : p = [o EXCEPT !.at = "raster", !.polls = 0]
    OBVIOUS
  <2>2. p.splits = o.splits
    BY <1>1, <2>1 DEF ScanFields
  <2> QED BY <1>1, <1>2, <1>9, <2>1, <2>2 DEF VibeFails
<1>10. CASE Returned(q)
  <2>1. PICK text : Set(q, [o EXCEPT !.at = "detect", !.text = text])
    BY <1>1, <1>10 DEF Returned
  <2>2. PICK p : p = [o EXCEPT !.at = "detect", !.text = text]
    OBVIOUS
  <2>3. p.splits = o.splits
    BY <1>1, <2>2 DEF ScanFields
  <2> QED BY <1>2, <2>1, <2>2, <2>3
<1>11. ASSUME NEW glm, NEW todo, Set(q, [o EXCEPT !.at = "page", !.glm = glm, !.todo = todo])
       PROVE  scan'[s].splits \in {<<>>, scan[s].splits}
  <2>1. PICK p : p = [o EXCEPT !.at = "page", !.glm = glm, !.todo = todo]
    OBVIOUS
  <2>2. p.splits = o.splits
    BY <1>1, <2>1 DEF ScanFields
  <2> QED BY <1>2, <1>11, <2>1, <2>2
<1>12. Rasterize(q) =>
          \/ Fail(q) \/ Goto(q, "permanent")
          \/ \E glm : Set(q, [o EXCEPT !.at = "page", !.glm = glm, !.todo = InOrder(o.range)])
  BY <1>1 DEF Rasterize
<1>13. GlmHeader(q) =>
          \E glm : Set(q, [o EXCEPT !.at = "page", !.glm = glm, !.todo = <<Top(Min(o.range))>>])
  BY <1>1 DEF GlmHeader
<1>14. ASSUME NEW x, Taken(q, x) PROVE scan'[s].splits \in {<<>>, scan[s].splits}
  <2>1. CASE ReadsHeader(q)
    BY <1>3, <1>14, <2>1 DEF Taken
  <2>2. CASE ~ReadsHeader(q)
    <3>1. PICK p : p = [o EXCEPT !.at = IF Tail(o.todo) = <<>> THEN "detect" ELSE "page",
                                 !.todo = Tail(o.todo), !.tries = 0, !.text = Append(@, x)]
      OBVIOUS
    <3>2. p.splits = o.splits
      BY <1>1, <3>1 DEF ScanFields
    <3> QED BY <1>1, <1>2, <1>14, <2>2, <3>1, <3>2 DEF Taken
  <2> QED BY <2>1, <2>2
<1>15. FromCache(q) \/ Transcribed(q) => \E x : Taken(q, x)
  BY DEF FromCache, Transcribed
<1>16. CASE Ask(q)
  <2>1. PICK p : p = [o EXCEPT !.at = "asked", !.tries = 1]
    OBVIOUS
  <2>2. p.splits = o.splits
    BY <1>1, <2>1 DEF ScanFields
  <2> QED BY <1>1, <1>2, <1>16, <2>1, <2>2 DEF Ask
<1>17. CASE Set(q, [o EXCEPT !.tries = @ + 1])
  <2>1. PICK p : p = [o EXCEPT !.tries = @ + 1]
    OBVIOUS
  <2>2. p.splits = o.splits
    BY <1>1, <2>1 DEF ScanFields
  <2> QED BY <1>2, <1>17, <2>1, <2>2
<1>18. CircuitOpen(q) \/ Refused(q) \/ TryFails(q) =>
          \/ HandOver(q) \/ Fail(q) \/ Set(q, [o EXCEPT !.tries = @ + 1])
  BY <1>1 DEF CircuitOpen, Refused, TryFails, Lost
<1>19. /\ Poll(q) => Goto(q, "status")
       /\ TryAgain(q) => Goto(q, "idle")
       /\ SkipHeader(q) => HandOver(q)
  BY DEF Poll, TryAgain, SkipHeader
<1>20. CASE Poll(q) \/ TryAgain(q) \/ SkipHeader(q)
  BY <1>3, <1>4, <1>19, <1>20
<1>21. CASE Rasterize(q) \/ GlmHeader(q)
  BY <1>3, <1>4, <1>11, <1>12, <1>13, <1>21
<1>22. CASE FromCache(q) \/ Transcribed(q)
  BY <1>14, <1>15, <1>22
<1>23. CASE CircuitOpen(q) \/ Refused(q) \/ TryFails(q)
  BY <1>3, <1>17, <1>18, <1>23
<1> QED BY <1>5, <1>6, <1>7, <1>8, <1>9, <1>10, <1>16, <1>20, <1>21, <1>22, <1>23 DEF Step

\* Splits found in a text of as many pages as the PDF are those of all its pages.
LEMMA DetectedTile ==
    ASSUME OcrInv, NEW s \in Scans, NEW q \in Scans, Detect(q),
           scan'[s].splits \notin {<<>>, scan[s].splits}, Len(scan[s].text) = PdfPages
    PROVE  Tiles(scan'[s].splits, PdfPages)
<1>1. PICK o : o = scan[q] /\ ScanOK(o) /\ o.at = "detect"
  BY DEF OcrInv, Detect, At
<1>2. PICK splits :
         /\ Told(q, splits)
         /\ \/ splits = <<>>
            \/ /\ o.range = Whole
               /\ \E last \in {o.text[i].page : i \in DOMAIN o.text} :
                    \E owner \in [1..Max({last, Len(o.text)}) -> Accounts \cup {Nobody}],
                       named \in SUBSET Accounts :
                      owner[last] # Nobody /\ splits = detectMultiAccount(owner, named)
  <2>1. CASE Told(q, <<>>)
    BY <2>1
  <2>2. CASE ~Told(q, <<>>)
    <3>1. PICK got : got = {o.text[i].page : i \in DOMAIN o.text}
      OBVIOUS
    <3>2. /\ o.range = Whole
          /\ \E last \in got :
                \E owner \in [1..Max({last, Len(o.text)}) -> Accounts \cup {Nobody}],
                   named \in SUBSET Accounts :
                  owner[last] # Nobody /\ Told(q, detectMultiAccount(owner, named))
      BY <1>1, <2>2, <3>1 DEF Detect
    <3>3. PICK last \in got :
             \E owner \in [1..Max({last, Len(o.text)}) -> Accounts \cup {Nobody}],
                named \in SUBSET Accounts :
               owner[last] # Nobody /\ Told(q, detectMultiAccount(owner, named))
      BY <3>2
    <3>4. PICK owner \in [1..Max({last, Len(o.text)}) -> Accounts \cup {Nobody}],
               named \in SUBSET Accounts :
             owner[last] # Nobody /\ Told(q, detectMultiAccount(owner, named))
      BY <3>3
    <3>5. PICK splits : splits = detectMultiAccount(owner, named)
      OBVIOUS
    <3>6. \E ow \in [1..Max({last, Len(o.text)}) -> Accounts \cup {Nobody}],
             na \in SUBSET Accounts :
            ow[last] # Nobody /\ splits = detectMultiAccount(ow, na)
      BY <3>4, <3>5
    <3>7. \E la \in {o.text[i].page : i \in DOMAIN o.text} :
            \E ow \in [1..Max({la, Len(o.text)}) -> Accounts \cup {Nobody}],
               na \in SUBSET Accounts :
              ow[la] # Nobody /\ splits = detectMultiAccount(ow, na)
      BY <3>1, <3>6
    <3>8. Told(q, splits)
      BY <3>4, <3>5
    <3> QED BY <3>2, <3>7, <3>8
  <2> QED BY <2>1, <2>2
<1>3. PICK p : p = [NewScan(o.range) EXCEPT !.at = "head", !.vibe = o.vibe,
                                            !.starts = o.starts, !.splits = splits]
  OBVIOUS
<1>4. p.splits = splits /\ scan' = [scan EXCEPT ![q] = p] /\ DOMAIN scan = Scans
  BY <1>1, <1>2, <1>3 DEF NewScan, Told, Set, OcrInv
<1>5. q = s /\ scan'[s].splits = splits /\ splits # <<>>
  BY <1>4
<1>6. PICK last \in {o.text[i].page : i \in DOMAIN o.text} :
         \E owner \in [1..Max({last, Len(o.text)}) -> Accounts \cup {Nobody}],
            named \in SUBSET Accounts :
           owner[last] # Nobody /\ splits = detectMultiAccount(owner, named)
  BY <1>2, <1>5
<1>7. last \in 1..PdfPages /\ Len(o.text) = PdfPages /\ PdfPages \in Nat \ {0}
  <2>1. \A i \in DOMAIN o.text : o.text[i].page \in Whole
    BY <1>1 DEF ScanOK, TextRead
  <2> QED BY <1>1, <1>5, <2>1, OcrAssumption DEF Whole
<1>8. Max({last, Len(o.text)}) = PdfPages
  <2>1. /\ {last, PdfPages} \in SUBSET Nat /\ {last, PdfPages} # {}
        /\ {last, PdfPages} \in SUBSET (0..PdfPages) /\ IsFiniteSet(0..PdfPages)
    <3>1. /\ last \in Nat /\ PdfPages \in Nat
          /\ last \in 0..PdfPages /\ PdfPages \in 0..PdfPages
      BY <1>7
    <3>2. IsFiniteSet(0..PdfPages)
      BY <3>1, FS_Interval
    <3> QED BY <3>1, <3>2
  <2>2. IsFiniteSet({last, PdfPages})
    BY <2>1, FS_Subset
  <2>3. PICK m : m = Max({last, PdfPages})
    OBVIOUS
  <2>4. m \in {last, PdfPages} /\ PdfPages <= m
    BY <2>1, <2>2, <2>3, Extremes
  <2>5. m = PdfPages
    BY <1>7, <2>4
  <2> QED BY <1>7, <2>3, <2>5
<1>9. PICK owner \in [1..PdfPages -> Accounts \cup {Nobody}], named \in SUBSET Accounts :
         owner[last] # Nobody /\ splits = detectMultiAccount(owner, named)
  BY <1>6, <1>8
<1>10. splits = splitsFromPageOwner(owner)
  BY <1>5, <1>9 DEF detectMultiAccount
<1>11. Tiles(splits, PdfPages)
  BY <1>7, <1>9, <1>10, OwnersTile
<1> QED BY <1>5, <1>11

\* The ranges detectMultiAccount offers for a split are of one account each, neighbours of
\* different ones, and follow on one another from the first page to the last, for any number
\* of pages and accounts and whichever got name none, if no page is missing.
THEOREM SplitsAreTiles == OcrSpec => SplitsTile
<1>1. ASSUME OcrInv, [OcrNext]_ocrVars
      PROVE  [\A s \in Scans : LET splits == scan'[s].splits IN
                splits \notin {<<>>, scan[s].splits} /\ Len(scan[s].text) = PdfPages =>
                    /\ \A k \in DOMAIN splits : splits[k].last4 \in Accounts
                    /\ Min(splits[1].pages) = 1 /\ Max(Last(splits).pages) = PdfPages
                    /\ \A k \in 1..Len(splits) - 1 :
                          /\ Max(splits[k].pages) + 1 = Min(splits[k + 1].pages)
                          /\ splits[k].last4 # splits[k + 1].last4]_ocrVars
  <2> SUFFICES ASSUME OcrNext, NEW s \in Scans,
                      scan'[s].splits \notin {<<>>, scan[s].splits}, Len(scan[s].text) = PdfPages
               PROVE  Tiles(scan'[s].splits, PdfPages)
    BY <1>1 DEF Tiles
  <2>1. CASE \E q \in Scans : Step(q)
    <3>1. PICK q \in Scans : Step(q)
      BY <2>1
    <3>2. Detect(q)
      BY <1>1, <3>1, OthersOfferNone
    <3> QED BY <1>1, <3>2, DetectedTile
  <2>2. CASE Forget \/ Cooldown
    BY <2>2 DEF Forget, Cooldown
  <2>3. CASE Restart
    <3>1. scan'[s].splits \in {<<>>, scan[s].splits}
      BY <2>3 DEF Restart, NewScan
    <3> QED BY <3>1
  <2> QED BY <2>1, <2>2, <2>3 DEF OcrNext
<1> QED BY <1>1, ReadingInvariant, PTL DEF OcrSpec, SplitsTile

-----------------------------------------------------------------------------
LastAsk == IF engine = "statement" THEN Tries ELSE 2

(* An extraction asks at most twice, and there are at most two of them; a  *)
(* request that came back may have been paid for.                          *)
PaidBudget ==
    /\ engine # "anthropic" => paid = 0
    /\ pc \in {"build", "first"} => reported = 0 /\ paid <= ask - 1
    /\ pc = "build" => ask = 1
    /\ pc = "repair" => paid <= ask + 1

TypeInv == TypeOK /\ PaidBudget

LEMMA ThrowKeepsType ==
    ASSUME NEW f \in Fault, TypeInv, Throw(f), pc \in {"build", "first", "repair"},
           UNCHANGED <<engine, override, repaired, reported>>,
           paid' \in {paid, paid + Charged}, pc = "build" => paid' = paid
    PROVE  TypeInv'
<1>1. pages' \in Seq(PageAnswers) /\ Len(pages') < Pages /\ ask' \in 1..LastAsk
  BY AttemptAssumption DEF Throw, LastAsk
<1>2. /\ paid' \in 0..4 /\ reported' \in 0..paid'
      /\ engine # "anthropic" => paid' = 0
  <2>1. ask \in Nat /\ (engine = "anthropic" => ask <= 2)
    BY AttemptAssumption DEF TypeInv, TypeOK
  <2>2. paid \in Nat /\ reported \in Nat /\ reported <= paid
    BY DEF TypeInv, TypeOK
  <2> QED BY <2>1, <2>2 DEF TypeInv, PaidBudget, Charged
<1>3. /\ pc' = IF pc = "repair" THEN "heuristic" ELSE "done"
      /\ outcome' \in Outcome \cup {"none"} /\ (outcome' = "none" <=> pc' # "done")
  BY DEF TypeInv, TypeOK, Throw, End, Outcome
<1>4. plain' \in BOOLEAN /\ fault' \in Fault
  BY DEF Throw
<1> QED BY <1>1, <1>2, <1>3, <1>4 DEF TypeInv, TypeOK, PaidBudget, LastAsk

LEMMA AgainKeepsType ==
    ASSUME TypeInv, Asking, NEW n \in 1..LastAsk, Again(n),
           UNCHANGED <<engine, override, repaired, reported>>,
           pages' \in Seq(PageAnswers), Len(pages') < Pages,
           \/ n = ask + 1 /\ paid' \in {paid, paid + Charged}
           \/ engine = "statement" /\ paid' = paid
    PROVE  TypeInv'
<1>1. ask \in Nat /\ (engine = "anthropic" => n <= 2) /\ n \in Nat \ {0}
  BY AttemptAssumption DEF TypeInv, TypeOK, LastAsk
<1>2. paid \in Nat /\ reported \in Nat /\ reported <= paid
  BY DEF TypeInv, TypeOK
<1>3. /\ paid' \in 0..4 /\ reported' \in 0..paid'
      /\ engine # "anthropic" => paid' = 0
      /\ pc = "first" => reported' = 0 /\ paid' <= n - 1
      /\ pc = "repair" => paid' <= n + 1
  BY <1>1, <1>2 DEF TypeInv, TypeOK, PaidBudget, Charged, Asking
<1> QED BY <1>3 DEF TypeInv, TypeOK, PaidBudget, Again, Asking, LastAsk

LEMMA ReceiveKeepsType ==
    ASSUME NEW doc, TypeInv, Asking, Receive(doc), UNCHANGED <<engine, override>>,
           paid' \in {paid, paid + Charged}
    PROVE  TypeInv'
<1>1. ask \in Nat /\ (engine = "anthropic" => ask <= 2)
  BY AttemptAssumption DEF TypeInv, TypeOK
<1>2. paid \in Nat /\ reported \in Nat /\ reported <= paid
  BY DEF TypeInv, TypeOK
<1>3. /\ paid' \in 0..4
      /\ engine # "anthropic" => paid' = 0
      /\ pc = "first" => paid' <= 2
  BY <1>1, <1>2 DEF TypeInv, PaidBudget, Charged, Asking
<1>4. CASE ~Parses(doc)
  BY <1>4, ThrowKeepsType DEF Receive, Asking, Fault
<1>5. ASSUME ask' = 1, pages' = <<>>, reported' = paid'
      PROVE  /\ pages' \in Seq(PageAnswers) /\ Len(pages') < Pages
             /\ ask' \in 1..LastAsk' /\ reported' \in 0..paid'
  BY <1>3, <1>5, AttemptAssumption DEF LastAsk
<1>6. CASE Parses(doc) /\ pc = "repair"
  <2>1. AdoptRepair(doc, Extraction(doc))
    BY <1>6 DEF Receive
  <2>2. /\ pc' = "heuristic" /\ outcome' = outcome /\ repaired' \in {repaired, "llm"}
        /\ ask' = 1 /\ pages' = <<>> /\ plain' = FALSE /\ reported' = paid' /\ fault' = fault
    BY <2>1 DEF AdoptRepair
  <2>3. /\ pages' \in Seq(PageAnswers) /\ Len(pages') < Pages
        /\ ask' \in 1..LastAsk' /\ reported' \in 0..paid'
    BY <1>5, <2>2
  <2> QED BY <1>3, <1>6, <2>2, <2>3 DEF TypeInv, TypeOK, PaidBudget, LastAsk
<1>7. CASE Parses(doc) /\ pc # "repair"
  <2>1. Adopt(doc, Extraction(doc))
    BY <1>7 DEF Receive
  <2>2. /\ \/ pc' = "done" /\ outcome' \in {"ambiguous", "empty"}
           \/ pc' \in {"repair", "heuristic"} /\ outcome' = outcome
        /\ ask' = 1 /\ pages' = <<>> /\ plain' = FALSE /\ reported' = paid'
        /\ fault' = fault /\ repaired' = repaired
    BY <2>1 DEF Adopt, End
  <2>3. pc = "first"
    BY <1>7 DEF Asking
  <2>4. /\ pages' \in Seq(PageAnswers) /\ Len(pages') < Pages
        /\ ask' \in 1..LastAsk' /\ reported' \in 0..paid'
    BY <1>5, <2>2
  <2>5. PaidBudget'
    BY <1>3, <2>2, <2>3 DEF PaidBudget
  <2>6. outcome' \in Outcome \cup {"none"} /\ (outcome' = "none" <=> pc' # "done")
    BY <2>2, <2>3 DEF TypeInv, TypeOK, Outcome
  <2> QED BY <1>3, <2>2, <2>4, <2>5, <2>6 DEF TypeInv, TypeOK, LastAsk
<1> QED BY <1>4, <1>6, <1>7

LEMMA TypeInvInit == Init => TypeInv
<1> SUFFICES ASSUME Init PROVE TypeInv
  OBVIOUS
<1>1. pages \in Seq(PageAnswers) /\ Len(pages) < Pages /\ ask \in 1..LastAsk
  BY AttemptAssumption DEF Init, LastAsk
<1>2. PaidBudget /\ reported \in 0..paid /\ paid \in 0..4
  BY DEF Init, PaidBudget
<1> QED BY <1>1, <1>2 DEF Init, TypeInv, TypeOK, LastAsk

LEMMA TypeInvStep == TypeInv /\ [Next]_vars => TypeInv'
<1> SUFFICES ASSUME TypeInv, [Next]_vars PROVE TypeInv'
  OBVIOUS
<1>1. CASE BuildProvider
  <2>1. CASE \E f \in {"build", "cap"} : Throw(f)
    BY <1>1, <2>1, ThrowKeepsType DEF BuildProvider, Fault
  <2>2. CASE pc' = "first" /\ UNCHANGED <<ask, plain, pages, fault, outcome>>
    BY <1>1, <2>2 DEF BuildProvider, TypeInv, TypeOK, PaidBudget
  <2> QED BY <1>1, <2>1, <2>2 DEF BuildProvider
<1>2. ASSUME NEW f \in Fault, RequestFails(f) PROVE TypeInv'
  <2>1. paid' \in {paid, paid + Charged} /\ (engine = "statement" => paid' = paid)
    <3>1. paid \in Nat
      BY DEF TypeInv, TypeOK
    <3> QED BY <1>2, <3>1 DEF RequestFails, Charged
  <2>2. CASE Throw(f)
    BY <1>2, <2>1, <2>2, ThrowKeepsType DEF RequestFails, Asking
  <2>3. CASE ~Throw(f)
    <3>1. Again(ask + 1) /\ pages' = pages /\ ask < Tries /\ engine = "statement"
      BY <1>2, <2>3 DEF RequestFails
    <3>2. ask + 1 \in 1..LastAsk /\ pages \in Seq(PageAnswers) /\ Len(pages) < Pages
      BY <3>1, AttemptAssumption DEF TypeInv, TypeOK, LastAsk
    <3> QED BY <1>2, <2>1, <3>1, <3>2, AgainKeepsType DEF RequestFails
  <2> QED BY <2>2, <2>3
<1>3. CASE GrammarDeadEnds
  BY <1>3 DEF GrammarDeadEnds, TypeInv, TypeOK, PaidBudget
<1>4. ASSUME NEW doc, AnswerText(doc) PROVE TypeInv'
  <2>1. CASE ask = 1 /\ WorthAsking(doc)
    <3>1. Again(2) /\ pages' = pages /\ engine # "statement"
      BY <1>4, <2>1 DEF AnswerText, TextEngine
    <3>2. 2 \in 1..LastAsk /\ pages \in Seq(PageAnswers) /\ Len(pages) < Pages
      BY <3>1 DEF TypeInv, TypeOK, LastAsk
    <3>3. /\ Asking /\ paid' = paid + Charged /\ 2 = ask + 1
          /\ UNCHANGED <<engine, override, repaired, reported>>
      BY <1>4, <2>1 DEF AnswerText
    <3> QED BY <3>1, <3>2, <3>3, AgainKeepsType
  <2>2. CASE ~(ask = 1 /\ WorthAsking(doc))
    BY <1>4, <2>2, ReceiveKeepsType DEF AnswerText
  <2> QED BY <2>1, <2>2
<1>5. ASSUME NEW doc \in PageAnswers, AnswerPage(doc) PROVE TypeInv'
  <2>1. CASE Len(pages) + 1 < Pages
    <3>1. /\ Again(1) /\ pages' = Append(pages, doc) /\ engine = "statement"
          /\ UNCHANGED <<engine, override, repaired, reported, paid>> /\ Asking
      BY <1>5, <2>1 DEF AnswerPage
    <3>2. pages \in Seq(PageAnswers)
      BY DEF TypeInv, TypeOK
    <3>3. pages' \in Seq(PageAnswers) /\ Len(pages') < Pages
      BY <2>1, <3>1, <3>2
    <3>4. 1 \in 1..LastAsk
      BY AttemptAssumption DEF LastAsk
    <3> QED BY <3>1, <3>3, <3>4, AgainKeepsType
  <2>2. CASE ~(Len(pages) + 1 < Pages)
    BY <1>5, <2>2, ReceiveKeepsType DEF AnswerPage
  <2> QED BY <2>1, <2>2
<1>6. CASE HeuristicRepair
  <2>1. /\ repaired' \in {repaired, "heuristic"} /\ pc' = "done"
        /\ outcome' \in {"verified", "periodOnly", "discrepancy"}
        /\ UNCHANGED <<engine, override, ask, plain, pages, paid, reported, fault>>
    BY <1>6 DEF HeuristicRepair, End
  <2> QED BY <2>1 DEF TypeInv, TypeOK, PaidBudget, Outcome
<1>7. CASE UNCHANGED vars
  BY <1>7 DEF vars, TypeInv, TypeOK, PaidBudget
<1> QED BY <1>1, <1>2, <1>3, <1>4, <1>5, <1>6, <1>7 DEF Next

LEMMA TypeInvHolds == Spec => []TypeInv
  BY TypeInvInit, TypeInvStep, PTL DEF Spec

\* The state of an attempt keeps its type, and an attempt never pays for more
\* than four answers (attemptExtraction, callAnthropic).
THEOREM TypeCorrect == Spec => []TypeOK
<1>1. TypeInv => TypeOK
  BY DEF TypeInv
<1> QED BY <1>1, TypeInvHolds, PTL

-----------------------------------------------------------------------------
(* Failures and what they cost.  A failure is only remembered once its     *)
(* extraction is over; from then on the report is complete unless there    *)
(* was one.                                                                *)
FaultInv ==
    /\ pc \in {"build", "first", "repair"} => fault = "none"
    /\ pc \in {"heuristic", "done"} /\ fault = "none" => reported = paid

\* What ends the pending extraction with a failure keeps it.
LEMMA ThrowKeepsFaults ==
    ASSUME NEW f \in Fault, Throw(f)
    PROVE  FaultInv'
<1>1. fault' = f /\ f # "none" /\ pc' \in {"heuristic", "done"}
  BY DEF Throw, End, Fault
<1> QED BY <1>1 DEF FaultInv

LEMMA ReceiveKeepsFaults ==
    ASSUME NEW doc, TypeInv, FaultInv, Asking, Receive(doc)
    PROVE  FaultInv'
<1>1. fault = "none" /\ outcome = "none" /\ pc \in {"first", "repair"}
  BY DEF Asking, FaultInv, TypeInv, TypeOK
<1>2. CASE ~Parses(doc)
  BY <1>1, <1>2, ThrowKeepsFaults DEF Receive, Fault
<1>3. CASE Parses(doc)
  <2>1. /\ reported' = paid' /\ fault' = fault
        /\ outcome' \in {"none", "ambiguous", "empty"}
    BY <1>1, <1>3 DEF Receive, Adopt, AdoptRepair, End
  <2> QED BY <1>1, <2>1 DEF FaultInv
<1> QED BY <1>2, <1>3

LEMMA FaultStep ==
    TypeInv /\ FaultInv /\ [Next]_vars => FaultInv'
<1> SUFFICES ASSUME TypeInv, FaultInv, [Next]_vars
             PROVE  FaultInv'
  OBVIOUS
<1>1. CASE BuildProvider
  <2>1. CASE \E f \in {"build", "cap"} : Throw(f)
    BY <1>1, <2>1, ThrowKeepsFaults DEF BuildProvider, Fault
  <2>2. CASE pc' = "first" /\ UNCHANGED <<ask, plain, pages, fault, outcome>>
    BY <1>1, <2>2 DEF BuildProvider, FaultInv
  <2> QED BY <1>1, <2>1, <2>2 DEF BuildProvider
<1>2. ASSUME NEW n, Asking, Again(n) PROVE FaultInv'
  BY <1>2 DEF Asking, Again, FaultInv
<1>3. ASSUME NEW f \in Fault, RequestFails(f) PROVE FaultInv'
  BY <1>2, <1>3, ThrowKeepsFaults DEF RequestFails, Asking
<1>4. CASE GrammarDeadEnds
  BY <1>4 DEF GrammarDeadEnds, FaultInv
<1>5. ASSUME NEW doc, AnswerText(doc) PROVE FaultInv'
  BY <1>2, <1>5, ReceiveKeepsFaults DEF AnswerText
<1>6. ASSUME NEW doc, AnswerPage(doc) PROVE FaultInv'
  BY <1>2, <1>6, ReceiveKeepsFaults DEF AnswerPage
<1>7. CASE HeuristicRepair
  <2>1. /\ pc = "heuristic" /\ pc' = "done" /\ UNCHANGED <<paid, reported, fault>>
        /\ outcome' \in {"verified", "periodOnly", "discrepancy"}
    BY <1>7 DEF HeuristicRepair, End
  <2> QED BY <2>1 DEF FaultInv
<1>8. CASE UNCHANGED vars
  BY <1>8 DEF vars, FaultInv
<1> QED BY <1>1, <1>3, <1>4, <1>5, <1>6, <1>7, <1>8 DEF Next

LEMMA FaultsHold == Spec => []FaultInv
<1>1. Init => FaultInv
  BY DEF Init, FaultInv
<1> QED BY <1>1, FaultStep, TypeInvHolds, PTL DEF Spec

\* A completed attempt whose repair did not fail has added every paid answer
\* to its cost (attemptExtraction).
THEOREM CompletedCostsAreReported == Spec => []CostIsReported
<1>1. TypeInv /\ FaultInv => CostIsReported
  BY DEF TypeInv, TypeOK, FaultInv, CostIsReported, Accepted
<1> QED BY <1>1, TypeInvHolds, FaultsHold, PTL

-----------------------------------------------------------------------------
(* Where the rows come from.  Once an extraction is adopted and until a    *)
(* repair replaces them, data and rows are what Extraction makes of the    *)
(* source, and the verdict is the one over these rows.                     *)
Adopted == pc \in {"repair", "heuristic"} \/ Accepted

SourceInv ==
    /\ Adopted /\ repaired = "no" => data = Extraction(source) /\ rows = data.rows
    /\ outcome = "verified" => status(rows) = "verified"

\* A row that was guessed at or lost leaves a note.
LEMMA SalvageIsNoted ==
    ASSUME NEW doc, ~Legible(doc)
    PROVE  Extraction(doc).notes # {}
<1>1. PICK i \in DOMAIN doc.rows :
        ~ /\ doc.rows[i].read
          /\ \/ engine = "statement" /\ doc.rows[i].text = "marker"
             \/ /\ doc.rows[i].day # Unread
                /\ doc.rows[i].eitherWay => KnownOrder(doc)
  BY DEF Legible
<1>2. CASE engine = "statement"
  <2>1. mapStatementModelOutput(doc).notes \subseteq Extraction(doc).notes
    BY <1>2 DEF Extraction, salvageStructure
  <2>2. mapStatementModelOutput(doc).notes # {}
    BY <1>1, <1>2 DEF mapStatementModelOutput, IsTransaction, When
  <2> QED BY <2>1, <2>2
<1>3. CASE engine # "statement"
  <2>1. CASE ~doc.rows[i].read
    <3>1. "amount" \in salvageStructure(doc).notes
      BY <2>1 DEF salvageStructure, When
    <3> QED BY <1>3, <3>1 DEF Extraction
  <2>2. CASE doc.rows[i].day = Unread
    <3>1. "date" \in salvageStructure(doc).notes
      BY <2>2 DEF salvageStructure, When
    <3> QED BY <1>3, <3>1 DEF Extraction
  <2>3. CASE doc.rows[i].eitherWay /\ ~KnownOrder(doc)
    <3>1. "dateOrder" \in salvageStructure(doc).notes
      BY <2>3 DEF salvageStructure, When
    <3> QED BY <1>3, <3>1 DEF Extraction
  <2> QED BY <1>1, <1>3, <2>1, <2>2, <2>3
<1> QED BY <1>2, <1>3

\* What is made of an answer depends on the engine and the operator's format.
LEMMA ExtractionIsFixed ==
    ASSUME NEW doc, UNCHANGED <<engine, override>>, source' = doc
    PROVE  Extraction(source)' = Extraction(doc)
<1>1. ASSUME NEW d PROVE KnownOrder(d)' = KnownOrder(d)
  BY DEF KnownOrder
<1>2. ASSUME NEW d PROVE salvageStructure(d)' = salvageStructure(d)
  BY DEF salvageStructure
<1>3. ASSUME NEW d PROVE mapStatementModelOutput(d)' = mapStatementModelOutput(d)
  BY <1>1 DEF mapStatementModelOutput
<1>4. ASSUME NEW d PROVE Extraction(d)' = Extraction(d)
  BY <1>2, <1>3 DEF Extraction
<1> QED BY <1>4

\* Steps that leave the adopted rows alone.
LEMMA SourceIsKept ==
    ASSUME SourceInv, UNCHANGED <<engine, override, data, source, rows, repaired>>,
           Adopted' => Adopted, outcome' = "verified" => outcome = "verified"
    PROVE  SourceInv'
<1>1. Extraction(source)' = Extraction(source)
  BY ExtractionIsFixed
<1>2. status(rows)' = status(rows)
  BY DEF status, Judged, InPeriod
<1> QED BY <1>1, <1>2 DEF SourceInv

LEMMA ReceiveKeepsSource ==
    ASSUME NEW doc, TypeInv, SourceInv, Asking, Receive(doc), UNCHANGED <<engine, override>>
    PROVE  SourceInv'
<1>1. outcome = "none"
  BY DEF Asking, TypeInv, TypeOK
<1>2. CASE ~Parses(doc)
  <2>1. /\ outcome' \in {"none", "transient", "permanent"}
        /\ pc' = IF pc = "repair" THEN "heuristic" ELSE "done"
        /\ UNCHANGED <<data, source, rows, repaired>>
    BY <1>1, <1>2 DEF Receive, Throw, End
  <2>2. Adopted' => Adopted
    BY <2>1 DEF Adopted, Accepted, Asking
  <2> QED BY <2>1, <2>2, SourceIsKept
<1>3. CASE Parses(doc) /\ pc = "repair"
  <2>1. outcome' = "none" /\ data' = data /\ Adopted
    BY <1>1, <1>3 DEF Receive, AdoptRepair, Adopted
  <2>2. CASE repaired' = "llm"
    BY <2>1, <2>2 DEF SourceInv
  <2>3. CASE repaired' # "llm"
    <3>1. UNCHANGED <<rows, source, repaired>>
      BY <1>3, <2>3 DEF Receive, AdoptRepair
    <3> QED BY <2>1, <3>1, SourceIsKept
  <2> QED BY <2>2, <2>3
<1>4. CASE Parses(doc) /\ pc # "repair"
  <2>1. /\ source' = doc /\ data' = Extraction(doc) /\ rows' = data'.rows
        /\ outcome' \in {"none", "ambiguous", "empty"}
    BY <1>1, <1>4 DEF Receive, Adopt, End
  <2>2. data' = Extraction(source)'
    BY <2>1, ExtractionIsFixed
  <2> QED BY <2>1, <2>2 DEF SourceInv
<1> QED BY <1>2, <1>3, <1>4

LEMMA SourceStep == TypeInv /\ SourceInv /\ [Next]_vars => SourceInv'
<1> SUFFICES ASSUME TypeInv, SourceInv, [Next]_vars PROVE SourceInv'
  OBVIOUS
<1>1. ASSUME NEW f, pc \in {"build", "first", "repair"}, Throw(f),
             UNCHANGED <<engine, override, data, source, rows, repaired>>
      PROVE  SourceInv'
  <2>1. outcome = "none"
    BY <1>1 DEF TypeInv, TypeOK
  <2>2. Adopted' => Adopted /\ outcome' # "verified"
    BY <1>1, <2>1 DEF Throw, End, Adopted, Accepted
  <2>3. outcome' # "verified"
    BY <1>1, <2>1 DEF Throw, End
  <2> QED BY <1>1, <2>2, <2>3, SourceIsKept
<1>2. ASSUME NEW n, Again(n),
             UNCHANGED <<engine, override, data, source, rows, repaired>>
      PROVE  SourceInv'
  BY <1>2, SourceIsKept DEF Again, Adopted, Accepted
<1>3. CASE BuildProvider
  <2>1. CASE pc' = "first" /\ outcome' = outcome
    <3>1. outcome = "none"
      BY <1>3 DEF BuildProvider, TypeInv, TypeOK
    <3> QED BY <1>3, <2>1, <3>1, SourceIsKept DEF BuildProvider, Adopted, Accepted
  <2> QED BY <1>1, <1>3, <2>1 DEF BuildProvider
<1>4. ASSUME NEW f \in Fault, RequestFails(f) PROVE SourceInv'
  BY <1>1, <1>2, <1>4 DEF RequestFails, Asking
<1>5. CASE GrammarDeadEnds
  BY <1>5, SourceIsKept DEF GrammarDeadEnds, Adopted, Accepted
<1>6. ASSUME NEW doc, AnswerText(doc) PROVE SourceInv'
  BY <1>2, <1>6, ReceiveKeepsSource DEF AnswerText
<1>7. ASSUME NEW doc, AnswerPage(doc) PROVE SourceInv'
  BY <1>2, <1>7, ReceiveKeepsSource DEF AnswerPage
<1>8. CASE HeuristicRepair
  <2>1. Adopted /\ UNCHANGED <<engine, override, data, source>>
    BY <1>8 DEF HeuristicRepair, Adopted
  <2>2. repaired' = "no" => UNCHANGED <<rows, repaired>>
    BY <1>8 DEF HeuristicRepair
  <2>3. Extraction(source)' = Extraction(source)
    BY <2>1, ExtractionIsFixed
  <2>4. outcome' = "verified" => status(rows)' = "verified"
    <3>1. ASSUME NEW txs, rows' = txs PROVE status(rows)' = status(txs)
      BY <2>1, <3>1 DEF status, Judged, InPeriod
    <3>2. outcome' = "verified" => \E txs : rows' = txs /\ status(txs) = "verified"
      BY <1>8 DEF HeuristicRepair, End
    <3> QED BY <3>1, <3>2
  <2> QED BY <2>1, <2>2, <2>3, <2>4 DEF SourceInv
<1>9. CASE UNCHANGED vars
  BY <1>9, SourceIsKept DEF vars, Adopted, Accepted
<1> QED BY <1>3, <1>4, <1>5, <1>6, <1>7, <1>8, <1>9 DEF Next

LEMMA SourceHolds == Spec => []SourceInv
<1>1. Init => SourceInv
  BY DEF Init, SourceInv, Adopted, Accepted
<1> QED BY <1>1, SourceStep, TypeInvHolds, PTL DEF Spec

\* Rows that were guessed at or lost between the answer and the statement hold
\* it for review, whatever the answers look like (salvageStructure,
\* mapStatementModelOutput, reviewHoldReason).
THEOREM LostRowsAreHeld == Spec => []SalvageIsHeld
<1>1. TypeInv /\ SourceInv => SalvageIsHeld
  <2> SUFFICES ASSUME TypeInv, SourceInv, Accepted, repaired # "llm", ~Legible(source)
               PROVE  Held
    BY DEF SalvageIsHeld
  <2>1. CASE repaired = "no"
    BY <2>1, SalvageIsNoted DEF SourceInv, Adopted, Held
  <2>2. CASE repaired = "heuristic"
    BY <2>2 DEF Held
  <2> QED BY <2>1, <2>2 DEF TypeInv, TypeOK
<1> QED BY <1>1, TypeInvHolds, SourceHolds, PTL

\* What is verified and not held ties to two balances the answer prints: the
\* rows were not checked against balances made of themselves.
THEOREM VerifiedAgainstPrint == Spec => []ChecksAgainstPrint
<1>1. SourceInv => ChecksAgainstPrint
  <2> SUFFICES ASSUME SourceInv, outcome = "verified", engine \in TextEngine,
                      repaired = "no", ~Held
               PROVE  /\ source.opening.read /\ source.closing.read
                      /\ source.closing.cents - source.opening.cents = SumCents(Judged(rows))
                      /\ Printing(rows) # {} =>
                            rows[Max(Printing(rows))].bal = source.closing.cents
    BY DEF ChecksAgainstPrint
  <2>1. data = salvageStructure(source) /\ rows = data.rows /\ data.notes = {}
    BY DEF SourceInv, Adopted, Accepted, Extraction, TextEngine, Held
  <2>2. source.opening.read /\ source.closing.read
    BY <2>1 DEF salvageStructure, When, balancesMissing
  <2>3. data.opening = source.opening.cents /\ data.closing = source.closing.cents
    BY <2>1, <2>2 DEF salvageStructure
  <2>4. SumCents(Judged(rows)) = data.closing - data.opening
    BY DEF SourceInv, status, reconcileGoldenRule
  <2>5. Printing(rows) = {} \/ source.closing.cents = derivedClosing(rows)
    BY <2>1, <2>2 DEF salvageStructure, When
  <2> QED BY <2>2, <2>3, <2>4, <2>5 DEF derivedClosing
<1> QED BY <1>1, SourceHolds, PTL

-----------------------------------------------------------------------------
(* The sums of the repairs, each as the sum of a function.                 *)

\* The amounts of some rows.
LEMMA SumOverIsSum ==
    ASSUME NEW I, IsFiniteSet(I), NEW txs, NEW f,
           \A i \in I : txs[i].cents \in Int /\ f[i] = txs[i].cents
    PROVE  SumOver(txs, I) = SumOf(f, I)
<1> DEFINE body(it) == [s \in SUBSET I |-> IF s = {} THEN 0
                             ELSE LET x == CHOOSE x \in s : TRUE IN txs[x].cents + it[s \ {x}]]
           it == CHOOSE it : it = body(it)
<1>f. \A i \in I : f[i] \in Int
  OBVIOUS
<1>s. \A s \in SUBSET I : s # {} => f[Some(s)] = txs[Some(s)].cents
  BY DEF Some
<1>1. PICK g : g = body(g)
  <2>1. PICK h : Adds(h, f, I)
    BY <1>f, SumExists
  <2> DEFINE g == [s \in SUBSET I |-> h[s]]
  <2>2. \A s \in SUBSET I :
           g[s] = IF s = {} THEN 0 ELSE LET x == CHOOSE x \in s : TRUE IN txs[x].cents + g[s \ {x}]
    BY <1>s, <2>1 DEF Adds, Some
  <2>3. g = [s \in SUBSET I |-> g[s]]
    OBVIOUS
  <2> HIDE DEF g
  <2>4. g = body(g)
    BY <2>2, <2>3
  <2> QED BY <2>4
<1>2. it = body(it)
  <2> HIDE DEF body
  <2> QED BY <1>1
<1>3. SumOver(txs, I) = it[I]
  BY DEF SumOver, MapThenSumSet, MapThenFoldSet
<1> HIDE DEF it
<1>4. ASSUME NEW s \in SUBSET I
      PROVE  it[s] = IF s = {} THEN 0 ELSE f[Some(s)] + it[s \ {Some(s)}]
  BY <1>2, <1>s DEF Some
<1>5. Adds(it, f, I)
  BY <1>4 DEF Adds
<1>6. I \in SUBSET I
  OBVIOUS
<1> QED BY <1>f, <1>3, <1>5, <1>6, AddsIsSum

\* The amounts of rows that were judged.
LEMMA SumCentsIsSum ==
    ASSUME NEW I, IsFiniteSet(I), NEW f,
           \A t \in I : t.cents \in Int /\ f[t] = t.cents
    PROVE  SumCents(I) = SumOf(f, I)
<1> DEFINE body(it) == [s \in SUBSET I |-> IF s = {} THEN 0
                             ELSE LET x == CHOOSE x \in s : TRUE IN x.cents + it[s \ {x}]]
           it == CHOOSE it : it = body(it)
<1>f. \A t \in I : f[t] \in Int
  OBVIOUS
<1>s. \A s \in SUBSET I : s # {} => f[Some(s)] = Some(s).cents
  BY DEF Some
<1>1. PICK g : g = body(g)
  <2>1. PICK h : Adds(h, f, I)
    BY <1>f, SumExists
  <2> DEFINE g == [s \in SUBSET I |-> h[s]]
  <2>2. \A s \in SUBSET I :
           g[s] = IF s = {} THEN 0 ELSE LET x == CHOOSE x \in s : TRUE IN x.cents + g[s \ {x}]
    BY <1>s, <2>1 DEF Adds, Some
  <2>3. g = [s \in SUBSET I |-> g[s]]
    OBVIOUS
  <2> HIDE DEF g
  <2>4. g = body(g)
    BY <2>2, <2>3
  <2> QED BY <2>4
<1>2. it = body(it)
  <2> HIDE DEF body
  <2> QED BY <1>1
<1>3. SumCents(I) = it[I]
  BY DEF SumCents, MapThenSumSet, MapThenFoldSet
<1> HIDE DEF it
<1>4. ASSUME NEW s \in SUBSET I
      PROVE  it[s] = IF s = {} THEN 0 ELSE f[Some(s)] + it[s \ {Some(s)}]
  BY <1>2, <1>s DEF Some
<1>5. Adds(it, f, I)
  BY <1>4 DEF Adds
<1>6. I \in SUBSET I
  OBVIOUS
<1> QED BY <1>f, <1>3, <1>5, <1>6, AddsIsSum

\* The breaks in the running balances.
LEMMA SuspectSumIsSum ==
    ASSUME NEW I, IsFiniteSet(I), NEW opening, NEW txs, NEW f,
           \A i \in I : f[i] \in Int /\ f[i] = suspectDelta(opening, txs, i)
    PROVE  MapThenSumSet(LAMBDA i : suspectDelta(opening, txs, i), I) = SumOf(f, I)
<1> DEFINE body(it) == [s \in SUBSET I |-> IF s = {} THEN 0
                             ELSE LET x == CHOOSE x \in s : TRUE
                                  IN  suspectDelta(opening, txs, x) + it[s \ {x}]]
           it == CHOOSE it : it = body(it)
<1>s. \A s \in SUBSET I : s # {} => f[Some(s)] = suspectDelta(opening, txs, Some(s))
  BY DEF Some
<1>1. PICK g : g = body(g)
  <2>1. PICK h : Adds(h, f, I)
    BY SumExists
  <2> DEFINE g == [s \in SUBSET I |-> h[s]]
  <2>2. \A s \in SUBSET I :
           g[s] = IF s = {} THEN 0 ELSE LET x == CHOOSE x \in s : TRUE
                                        IN  suspectDelta(opening, txs, x) + g[s \ {x}]
    BY <1>s, <2>1 DEF Adds, Some
  <2>3. g = [s \in SUBSET I |-> g[s]]
    OBVIOUS
  <2> HIDE DEF g
  <2>4. g = body(g)
    BY <2>2, <2>3
  <2> QED BY <2>4
<1>2. it = body(it)
  <2> HIDE DEF body
  <2> QED BY <1>1
<1>3. MapThenSumSet(LAMBDA i : suspectDelta(opening, txs, i), I) = it[I]
  BY DEF MapThenSumSet, MapThenFoldSet
<1> HIDE DEF it
<1>4. ASSUME NEW s \in SUBSET I
      PROVE  it[s] = IF s = {} THEN 0 ELSE f[Some(s)] + it[s \ {Some(s)}]
  BY <1>2, <1>s DEF Some
<1>5. Adds(it, f, I)
  BY <1>4 DEF Adds
<1>6. I \in SUBSET I
  OBVIOUS
<1> QED BY <1>3, <1>5, <1>6, AddsIsSum

-----------------------------------------------------------------------------
(* What the two heuristic repairs do to the total.                         *)

Lines == Seq(Line)
Cents(txs) == [i \in DOMAIN txs |-> txs[i].cents]

LEMMA LinesAre ==
    ASSUME NEW txs \in Lines
    PROVE  /\ Len(txs) \in Nat /\ DOMAIN txs = 1..Len(txs) /\ IsFiniteSet(DOMAIN txs)
           /\ \A i \in DOMAIN txs : txs[i] \in Line /\ txs[i].cents \in Int /\ txs[i].bal \in Int
<1>1. Len(txs) \in Nat /\ DOMAIN txs = 1..Len(txs) /\ \A i \in DOMAIN txs : txs[i] \in Line
  BY DEF Lines
<1>2. \A t \in Line : t.cents \in Int /\ t.bal \in Int
  BY DEF Line
<1>3. IsFiniteSet(1..Len(txs))
  BY <1>1, FS_Interval
<1> QED BY <1>1, <1>2, <1>3

LEMMA TotalIsSum ==
    ASSUME NEW txs \in Lines
    PROVE  /\ Total(txs) = SumOf(Cents(txs), DOMAIN txs) /\ Total(txs) \in Int
           /\ \A i \in DOMAIN txs : Cents(txs)[i] = txs[i].cents /\ Cents(txs)[i] \in Int
<1>1. PICK f : f = Cents(txs)
  OBVIOUS
<1>2. \A i \in DOMAIN txs : txs[i].cents \in Int /\ f[i] = txs[i].cents
  BY <1>1, LinesAre DEF Cents
<1>3. SumOver(txs, DOMAIN txs) = SumOf(f, DOMAIN txs)
  BY <1>2, LinesAre, SumOverIsSum
<1>4. SumOf(f, DOMAIN txs) \in Int
  BY <1>2, LinesAre, SumType
<1> QED BY <1>1, <1>2, <1>3, <1>4 DEF Total

\* The verdict sums the same amounts.
LEMMA JudgedTotal ==
    ASSUME NEW txs \in Lines
    PROVE  SumCents(Judged(txs)) = Total(txs)
<1> DEFINE h == [i \in DOMAIN txs |-> [row |-> i, cents |-> txs[i].cents,
                                        inPeriod |-> InPeriod(txs[i].day)]]
           f == [t \in Judged(txs) |-> t.cents]
<1>1. Judged(txs) = {h[i] : i \in DOMAIN txs}
  BY DEF Judged
<1>2. \A i \in DOMAIN txs : h[i].cents = txs[i].cents /\ h[i].row = i
  OBVIOUS
<1>3. \A i, k \in DOMAIN txs : h[i] = h[k] => i = k
  BY <1>2
<1> HIDE DEF h
<1>4. \A i \in DOMAIN txs : Cents(txs)[i] \in Int /\ f[h[i]] = Cents(txs)[i]
  BY <1>1, <1>2, TotalIsSum
<1>5. \A t \in Judged(txs) : t.cents \in Int /\ f[t] = t.cents
  <2>1. \A i \in DOMAIN txs : h[i].cents \in Int
    BY <1>2, LinesAre
  <2> QED BY <1>1, <2>1
<1> HIDE DEF f
<1>6. SumOf(f, {h[i] : i \in DOMAIN txs}) = SumOf(Cents(txs), DOMAIN txs)
  BY <1>3, <1>4, LinesAre, SumRenamed
<1>7. IsFiniteSet(Judged(txs))
  <2>1. h \in Surjection(DOMAIN txs, Judged(txs))
    <3>1. h \in [DOMAIN txs -> Judged(txs)]
      BY <1>1 DEF h
    <3> QED BY <1>1, <3>1 DEF Surjection
  <2> QED BY <2>1, LinesAre, FS_Surjection
<1>8. SumCents(Judged(txs)) = SumOf(f, Judged(txs))
  BY <1>5, <1>7, SumCentsIsSum
<1> QED BY <1>1, <1>6, <1>8, TotalIsSum

LEMMA FlipTotal ==
    ASSUME NEW txs \in Lines, NEW i \in DOMAIN txs
    PROVE  FlipSign(txs, i) \in Lines /\ Total(FlipSign(txs, i)) = Total(txs) - 2 * txs[i].cents
<1>1. PICK t : t = FlipSign(txs, i)
  OBVIOUS
<1>2. /\ DOMAIN t = DOMAIN txs /\ t[i] = [txs[i] EXCEPT !.cents = - txs[i].cents]
      /\ \A k \in DOMAIN txs : k # i => t[k] = txs[k]
  BY <1>1 DEF FlipSign
<1>3. t[i] \in Line /\ t[i].cents = - txs[i].cents
  <2>1. PICK r \in Line : r = txs[i]
    BY LinesAre
  <2>2. [r EXCEPT !.cents = - r.cents] \in Line /\ r.cents \in Int
    BY DEF Line
  <2> QED BY <1>2, <2>1, <2>2 DEF Line
<1>4. t \in Lines
  <2>1. \A k \in DOMAIN txs : t[k] \in Line
    BY <1>2, <1>3, LinesAre
  <2>2. t \in [1..Len(txs) -> Line]
    <3>1. t = [k \in DOMAIN txs |-> t[k]]
      BY <1>1 DEF FlipSign
    <3> QED BY <2>1, <3>1, LinesAre
  <2> QED BY <2>2, LinesAre DEF Lines
<1> DEFINE S == DOMAIN txs
<1>5. \A k \in S : Cents(txs)[k] \in Int /\ Cents(t)[k] \in Int
                   /\ Cents(txs)[k] = txs[k].cents /\ Cents(t)[k] = t[k].cents
  BY <1>2, <1>4, TotalIsSum
<1>6. IsFiniteSet(S)
  BY LinesAre
<1>7. Total(txs) = SumOf(Cents(txs), S) /\ Total(t) = SumOf(Cents(t), S)
  BY <1>2, <1>4, TotalIsSum
<1> HIDE DEF S
<1>8. i \in S
  BY DEF S
<1>9. /\ SumOf(Cents(txs), S) = Cents(txs)[i] + SumOf(Cents(txs), S \ {i})
      /\ SumOf(Cents(txs), S \ {i}) \in Int
  BY <1>5, <1>6, <1>8, SumTake
<1>10. SumOf(Cents(t), S) = Cents(t)[i] + SumOf(Cents(t), S \ {i})
  BY <1>5, <1>6, <1>8, SumTake
<1>11. SumOf(Cents(t), S \ {i}) = SumOf(Cents(txs), S \ {i})
  <2>1. IsFiniteSet(S \ {i})
    BY <1>6, FS_RemoveElement
  <2>2. \A k \in S \ {i} : Cents(txs)[k] \in Int /\ Cents(t)[k] = Cents(txs)[k]
    BY <1>2, <1>5 DEF S
  <2> QED BY <2>1, <2>2, SumAgrees
<1>12. txs[i].cents \in Int
  BY LinesAre
<1> QED BY <1>1, <1>3, <1>4, <1>5, <1>7, <1>8, <1>9, <1>10, <1>11, <1>12

\* Where the rows of DropRow(txs, i) come from.
Source(txs, i) == [j \in 1..(Len(txs) - 1) |-> IF j < i THEN j ELSE j + 1]

LEMMA DropIs ==
    ASSUME NEW txs \in Lines, NEW i \in DOMAIN txs
    PROVE  LET t == DropRow(txs, i)
               h == Source(txs, i)
           IN  /\ t \in Lines /\ DOMAIN t = DOMAIN h
               /\ \A j \in DOMAIN h : h[j] \in DOMAIN txs \ {i} /\ t[j] = txs[h[j]]
               /\ \A j, k \in DOMAIN h : h[j] = h[k] => j = k
               /\ {h[j] : j \in DOMAIN h} = DOMAIN txs \ {i}
<1>1. PICK n \in Nat : n = Len(txs) /\ DOMAIN txs = 1..n /\ i \in 1..n
  BY LinesAre
<1>2. PICK h : h = Source(txs, i)
  OBVIOUS
<1>3. /\ DOMAIN h = 1..(n - 1)
      /\ \A j \in 1..(n - 1) : h[j] = IF j < i THEN j ELSE j + 1
  BY <1>1, <1>2 DEF Source
<1>4. PICK t : t = DropRow(txs, i)
  OBVIOUS
<1>5. /\ SubSeq(txs, 1, i - 1) \in Lines /\ Len(SubSeq(txs, 1, i - 1)) = i - 1
      /\ \A j \in 1..(i - 1) : SubSeq(txs, 1, i - 1)[j] = txs[j]
  <2>1. \A j \in 1..(i - 1) : txs[j] \in Line
    BY <1>1, LinesAre
  <2>2. PICK m \in Int, k \in Int : m = 1 /\ k = i - 1
    BY <1>1
  <2>3. PICK b : b = SubSeq(txs, m, k)
    OBVIOUS
  <2>4. /\ b \in Seq(Line) /\ Len(b) = IF m <= k THEN k - m + 1 ELSE 0
        /\ \A j \in 1..(k - m + 1) : b[j] = txs[m + j - 1]
    BY <2>1, <2>2, <2>3, SubSeqProperties
  <2>5. k - m + 1 = i - 1 /\ (~(m <= k) => i - 1 = 0) /\ \A j \in 1..(i - 1) : m + j - 1 = j
    BY <1>1, <2>2
  <2>6. Len(b) = i - 1 /\ \A j \in 1..(i - 1) : b[j] = txs[j]
    BY <2>4, <2>5
  <2> QED BY <2>2, <2>3, <2>4, <2>6 DEF Lines
<1>6. /\ SubSeq(txs, i + 1, n) \in Lines /\ Len(SubSeq(txs, i + 1, n)) = n - i
      /\ \A j \in 1..(n - i) : SubSeq(txs, i + 1, n)[j] = txs[i + j]
  <2>1. \A j \in (i + 1)..n : txs[j] \in Line
    BY <1>1, LinesAre
  <2>2. PICK m \in Int, k \in Int : m = i + 1 /\ k = n
    <3>1. i + 1 \in Int /\ n \in Int
      BY <1>1
    <3> QED BY <3>1
  <2>3. PICK b : b = SubSeq(txs, m, k)
    OBVIOUS
  <2>4. /\ b \in Seq(Line) /\ Len(b) = IF m <= k THEN k - m + 1 ELSE 0
        /\ \A j \in 1..(k - m + 1) : b[j] = txs[m + j - 1]
    BY <2>1, <2>2, <2>3, SubSeqProperties
  <2>5. k - m + 1 = n - i /\ (~(m <= k) => n - i = 0) /\ \A j \in 1..(n - i) : m + j - 1 = i + j
    BY <1>1, <2>2
  <2>6. Len(b) = n - i /\ \A j \in 1..(n - i) : b[j] = txs[i + j]
    BY <2>4, <2>5
  <2> QED BY <2>2, <2>3, <2>4, <2>6 DEF Lines
<1>7. /\ t \in Lines /\ Len(t) = n - 1
      /\ \A j \in 1..(n - 1) : t[j] = IF j <= i - 1 THEN SubSeq(txs, 1, i - 1)[j]
                                      ELSE SubSeq(txs, i + 1, n)[j - (i - 1)]
  <2>1. (i - 1) + (n - i) = n - 1
    BY <1>1
  <2>2. PICK a : a = SubSeq(txs, 1, i - 1)
    OBVIOUS
  <2>3. PICK b : b = SubSeq(txs, i + 1, n)
    OBVIOUS
  <2>4. a \in Seq(Line) /\ b \in Seq(Line) /\ Len(a) = i - 1 /\ Len(b) = n - i
    BY <1>5, <1>6, <2>2, <2>3 DEF Lines
  <2>5. /\ a \o b \in Seq(Line) /\ Len(a \o b) = Len(a) + Len(b)
        /\ \A j \in 1..Len(a) + Len(b) :
              (a \o b)[j] = IF j <= Len(a) THEN a[j] ELSE b[j - Len(a)]
    BY <2>4, ConcatProperties
  <2>6. t = a \o b
    BY <1>1, <1>4, <2>2, <2>3 DEF DropRow
  <2>7. /\ t \in Seq(Line) /\ Len(t) = n - 1
        /\ \A j \in 1..(n - 1) : t[j] = IF j <= i - 1 THEN a[j] ELSE b[j - (i - 1)]
    BY <2>1, <2>4, <2>5, <2>6
  <2> QED BY <2>2, <2>3, <2>7 DEF Lines
<1>8. DOMAIN t = 1..(n - 1)
  BY <1>7, LinesAre
<1>9. ASSUME NEW j \in 1..(n - 1) PROVE h[j] \in (1..n) \ {i} /\ t[j] = txs[h[j]]
  <2>1. CASE j < i
    <3>1. j <= i - 1 /\ j \in 1..(i - 1) /\ j \in (1..n) \ {i} /\ h[j] = j
      BY <1>1, <1>3, <2>1
    <3> QED BY <1>5, <1>7, <3>1
  <2>2. CASE ~(j < i)
    <3>1. /\ ~(j <= i - 1) /\ j - (i - 1) \in 1..(n - i) /\ j + 1 \in (1..n) \ {i}
          /\ h[j] = j + 1 /\ i + (j - (i - 1)) = j + 1
      BY <1>1, <1>3, <2>2
    <3> QED BY <1>6, <1>7, <3>1
  <2> QED BY <2>1, <2>2
<1>10. \A j, k \in 1..(n - 1) : h[j] = h[k] => j = k
  BY <1>1, <1>3
<1>11. ASSUME NEW k \in (1..n) \ {i} PROVE \E j \in 1..(n - 1) : h[j] = k
  <2>1. CASE k < i
    <3>1. k \in 1..(n - 1) /\ h[k] = k
      BY <1>1, <1>3, <2>1
    <3> QED BY <3>1
  <2>2. CASE ~(k < i)
    <3>1. k - 1 \in 1..(n - 1) /\ h[k - 1] = k
      BY <1>1, <1>3, <2>2
    <3> QED BY <3>1
  <2> QED BY <2>1, <2>2
<1>12. {h[j] : j \in 1..(n - 1)} = (1..n) \ {i}
  BY <1>9, <1>11
<1>13. /\ t \in Lines /\ DOMAIN t = DOMAIN h
       /\ \A j \in DOMAIN h : h[j] \in DOMAIN txs \ {i} /\ t[j] = txs[h[j]]
       /\ \A j, k \in DOMAIN h : h[j] = h[k] => j = k
       /\ {h[j] : j \in DOMAIN h} = DOMAIN txs \ {i}
  BY <1>1, <1>3, <1>7, <1>8, <1>9, <1>10, <1>12
<1> QED BY <1>2, <1>4, <1>13

LEMMA DropTotal ==
    ASSUME NEW txs \in Lines, NEW i \in DOMAIN txs
    PROVE  DropRow(txs, i) \in Lines /\ Total(DropRow(txs, i)) = Total(txs) - txs[i].cents
<1>1. PICK t : t = DropRow(txs, i)
  OBVIOUS
<1>2. PICK h : h = Source(txs, i)
  OBVIOUS
<1>3. /\ t \in Lines /\ DOMAIN t = DOMAIN h
      /\ \A j \in DOMAIN h : h[j] \in DOMAIN txs \ {i} /\ t[j] = txs[h[j]]
      /\ \A j, k \in DOMAIN h : h[j] = h[k] => j = k
      /\ {h[j] : j \in DOMAIN h} = DOMAIN txs \ {i}
  BY <1>1, <1>2, DropIs
<1>4. /\ IsFiniteSet(DOMAIN txs) /\ txs[i].cents \in Int
      /\ \A k \in DOMAIN txs : Cents(txs)[k] = txs[k].cents /\ Cents(txs)[k] \in Int
  BY TotalIsSum, LinesAre
<1>5. \A j \in DOMAIN h : Cents(t)[j] \in Int /\ Cents(txs)[h[j]] = Cents(t)[j]
  <2>1. \A j \in DOMAIN h : Cents(t)[j] = t[j].cents /\ Cents(t)[j] \in Int
    BY <1>3, TotalIsSum
  <2> QED BY <1>3, <1>4, <2>1
<1>6. SumOf(Cents(txs), {h[j] : j \in DOMAIN h}) = SumOf(Cents(t), DOMAIN h)
  <2>1. IsFiniteSet(DOMAIN h)
    BY <1>3, LinesAre
  <2> QED BY <1>3, <1>5, <2>1, SumRenamed
<1>7. SumOf(Cents(txs), DOMAIN txs) = Cents(txs)[i] + SumOf(Cents(txs), DOMAIN txs \ {i})
      /\ SumOf(Cents(txs), DOMAIN txs \ {i}) \in Int
  BY <1>4, SumTake
<1>8. Total(txs) = SumOf(Cents(txs), DOMAIN txs) /\ Total(t) = SumOf(Cents(t), DOMAIN t)
  BY <1>3, TotalIsSum
<1>9. Total(t) = SumOf(Cents(txs), DOMAIN txs \ {i})
  BY <1>3, <1>6, <1>8
<1>10. Total(txs) = txs[i].cents + Total(t) /\ Total(t) \in Int
  BY <1>4, <1>7, <1>8, <1>9
<1> QED BY <1>1, <1>3, <1>4, <1>10

-----------------------------------------------------------------------------
(* Which of two equal lines goes makes no difference to the export.        *)

Wording(r) == <<r.cents, r.text, r.day>>
Kinds(txs, S) == {Wording(txs[i]) : i \in S}
Copies(txs, S, x) == {i \in S : Wording(txs[i]) = x}

LEMMA DropExports ==
    ASSUME NEW txs \in Lines, NEW i \in DOMAIN txs
    PROVE  Exported(DropRow(txs, i)) =
              [x \in Kinds(txs, DOMAIN txs \ {i}) |->
                  Cardinality(Copies(txs, DOMAIN txs \ {i}, x))]
<1>1. PICK t : t = DropRow(txs, i)
  OBVIOUS
<1>2. PICK h : h = Source(txs, i)
  OBVIOUS
<1>3. /\ t \in Lines /\ DOMAIN t = DOMAIN h
      /\ \A j \in DOMAIN h : h[j] \in DOMAIN txs \ {i} /\ t[j] = txs[h[j]]
      /\ \A j, k \in DOMAIN h : h[j] = h[k] => j = k
      /\ {h[j] : j \in DOMAIN h} = DOMAIN txs \ {i}
  BY <1>1, <1>2, DropIs
<1>4. Kinds(t, DOMAIN t) = Kinds(txs, DOMAIN txs \ {i})
  <2>1. \A j \in DOMAIN t : Wording(t[j]) = Wording(txs[h[j]]) /\ h[j] \in DOMAIN txs \ {i}
    BY <1>3
  <2>2. \A k \in DOMAIN txs \ {i} : \E j \in DOMAIN t : k = h[j]
    BY <1>3
  <2> QED BY <2>1, <2>2 DEF Kinds
<1>5. ASSUME NEW x
      PROVE  Cardinality(Copies(t, DOMAIN t, x)) = Cardinality(Copies(txs, DOMAIN txs \ {i}, x))
  <2>1. PICK A : A = Copies(t, DOMAIN t, x)
    OBVIOUS
  <2>2. PICK B : B = Copies(txs, DOMAIN txs \ {i}, x)
    OBVIOUS
  <2>3. PICK b : b = [j \in A |-> h[j]]
    OBVIOUS
  <2>4. A \subseteq DOMAIN t /\ \A j \in A : h[j] \in B
    BY <1>3, <2>1, <2>2 DEF Copies
  <2>5. \A k \in B : \E j \in A : h[j] = k
    <3> SUFFICES ASSUME NEW k \in B PROVE \E j \in A : h[j] = k
      OBVIOUS
    <3>1. k \in DOMAIN txs \ {i} /\ Wording(txs[k]) = x
      BY <2>2 DEF Copies
    <3>2. PICK j \in DOMAIN h : h[j] = k
      BY <1>3, <3>1
    <3>3. j \in A
      BY <1>3, <2>1, <3>1, <3>2 DEF Copies
    <3> QED BY <3>2, <3>3
  <2>6. b \in Bijection(A, B)
    <3>1. b \in [A -> B]
      BY <2>3, <2>4
    <3>2. \A j, k \in A : b[j] = b[k] => j = k
      BY <1>3, <2>3, <2>4
    <3>3. \A k \in B : \E j \in A : b[j] = k
      BY <2>3, <2>5
    <3>4. b \in Injection(A, B)
      BY <3>1, <3>2 DEF Injection, IsInjective
    <3>5. b \in Surjection(A, B)
      BY <3>1, <3>3 DEF Surjection
    <3> QED BY <3>4, <3>5 DEF Bijection
  <2>7. IsFiniteSet(A)
    BY <1>3, <2>4, LinesAre, FS_Subset
  <2> QED BY <2>1, <2>2, <2>6, <2>7, FS_Bijection DEF ExistsBijection
<1>6. Exported(t) = [x \in Kinds(t, DOMAIN t) |-> Cardinality(Copies(t, DOMAIN t, x))]
  BY DEF Exported, Kinds, Copies, Wording
<1> QED BY <1>1, <1>4, <1>5, <1>6

LEMMA EqualLinesExport ==
    ASSUME NEW txs \in Lines, NEW i \in DOMAIN txs, NEW k \in DOMAIN txs,
           Wording(txs[i]) = Wording(txs[k])
    PROVE  Exported(DropRow(txs, i)) = Exported(DropRow(txs, k))
<1> SUFFICES ASSUME i # k PROVE Exported(DropRow(txs, i)) = Exported(DropRow(txs, k))
  OBVIOUS
<1>1. Kinds(txs, DOMAIN txs \ {i}) = Kinds(txs, DOMAIN txs \ {k})
  BY DEF Kinds
<1>2. ASSUME NEW x
      PROVE  Cardinality(Copies(txs, DOMAIN txs \ {i}, x))
                = Cardinality(Copies(txs, DOMAIN txs \ {k}, x))
  <2>1. PICK A : A = Copies(txs, DOMAIN txs, x)
    OBVIOUS
  <2>2. IsFiniteSet(A)
    <3>1. A \subseteq DOMAIN txs
      BY <2>1 DEF Copies
    <3> QED BY <3>1, LinesAre, FS_Subset
  <2>3. /\ Copies(txs, DOMAIN txs \ {i}, x) = A \ {i}
        /\ Copies(txs, DOMAIN txs \ {k}, x) = A \ {k}
    BY <2>1 DEF Copies
  <2>4. i \in A <=> k \in A
    BY <2>1 DEF Copies
  <2>5. Cardinality(A \ {i}) = Cardinality(A \ {k})
    <3>1. Cardinality(A \ {i}) = IF i \in A THEN Cardinality(A) - 1 ELSE Cardinality(A)
      BY <2>2, FS_RemoveElement
    <3>2. Cardinality(A \ {k}) = IF k \in A THEN Cardinality(A) - 1 ELSE Cardinality(A)
      BY <2>2, FS_RemoveElement
    <3> QED BY <2>4, <3>1, <3>2
  <2> QED BY <2>3, <2>5
<1> QED BY <1>1, <1>2, DropExports

-----------------------------------------------------------------------------
(* Repairs that close the balance are candidates.                          *)

\* What the rows are off by, and which repairs close it.
LEMMA DeltaTells ==
    ASSUME NEW txs \in Lines, data.opening \in Int, data.closing \in Int, NEW i \in DOMAIN txs
    PROVE  /\ deltaCents(txs) = data.closing - data.opening - Total(txs)
           /\ deltaCents(txs) \in Int
           /\ data.opening + Total(FlipSign(txs, i)) = data.closing
                 <=> deltaCents(txs) + 2 * txs[i].cents = 0
           /\ data.opening + Total(DropRow(txs, i)) = data.closing
                 <=> deltaCents(txs) + txs[i].cents = 0
<1>1. SumCents(Judged(txs)) = Total(txs) /\ Total(txs) \in Int /\ txs[i].cents \in Int
  BY JudgedTotal, TotalIsSum, LinesAre
<1>2. /\ Total(FlipSign(txs, i)) = Total(txs) - 2 * txs[i].cents
      /\ Total(DropRow(txs, i)) = Total(txs) - txs[i].cents
  BY FlipTotal, DropTotal
<1>3. deltaCents(txs) = data.closing - data.opening - Total(txs)
  BY <1>1 DEF deltaCents
<1> QED BY <1>1, <1>2, <1>3

\* Rows that may be repaired, and every repair of them by one sign or one copy.
Flips(txs) == {FlipSign(txs, i) : i \in DOMAIN txs}
Drops(txs) == {DropRow(txs, p[2]) : p \in {q \in (DOMAIN txs) \X (DOMAIN txs) :
                  q[1] < q[2] /\ isExactDuplicate(txs[q[1]], txs[q[2]])}}

LEMMA DuplicatesAgree ==
    ASSUME NEW a, NEW b, isExactDuplicate(a, b)
    PROVE  Wording(a) = Wording(b) /\ isExactDuplicate(b, a)
BY DEF isExactDuplicate, Wording

\* The repair that is made is one of these, and whichever other ties prints the same.
LEMMA RepairIsTheOne ==
    ASSUME NEW txs \in Lines, data.opening \in Int, data.closing \in Int,
           NEW fixed \in repairPass(txs, deltaCents(txs))
    PROVE  /\ fixed \in Flips(txs) \cup Drops(txs)
           /\ \A other \in Flips(txs) \cup Drops(txs) :
                 data.opening + Total(other) = data.closing => Exported(other) = Exported(fixed)
<1>1. PICK flips : flips = flipCandidates(txs, deltaCents(txs))
  OBVIOUS
<1>2. PICK drops : drops = dropCandidates(txs, deltaCents(txs))
  OBVIOUS
<1>3. \A i \in DOMAIN txs : data.opening + Total(FlipSign(txs, i)) = data.closing <=> i \in flips
  BY <1>1, DeltaTells DEF flipCandidates
<1>4. /\ flips \subseteq DOMAIN txs /\ drops \subseteq DOMAIN txs
      /\ DOMAIN txs = 1..Len(txs) /\ Len(txs) \in Nat
  BY <1>1, <1>2, LinesAre DEF flipCandidates, dropCandidates
<1>5. ASSUME NEW i \in DOMAIN txs, NEW k \in DOMAIN txs, i < k, isExactDuplicate(txs[i], txs[k]),
             data.opening + Total(DropRow(txs, k)) = data.closing
      PROVE  k \in drops
  <2>1. deltaCents(txs) + txs[k].cents = 0
    BY <1>5, DeltaTells
  <2>2. i \in 1..(k - 1) /\ isExactDuplicate(txs[k], txs[i])
    BY <1>4, <1>5, DuplicatesAgree
  <2> QED BY <1>2, <2>1, <2>2 DEF dropCandidates
<1>6. \A k \in drops : DropRow(txs, k) \in Drops(txs)
  <2> SUFFICES ASSUME NEW k \in drops PROVE DropRow(txs, k) \in Drops(txs)
    OBVIOUS
  <2>1. PICK j \in 1..(k - 1) : isExactDuplicate(txs[k], txs[j])
    BY <1>2 DEF dropCandidates
  <2>2. j \in DOMAIN txs /\ k \in DOMAIN txs /\ j < k /\ isExactDuplicate(txs[j], txs[k])
    BY <1>4, <2>1, DuplicatesAgree
  <2>3. PICK q : q = <<j, k>>
    OBVIOUS
  <2>4. /\ q \in (DOMAIN txs) \X (DOMAIN txs) /\ q[2] = k
        /\ q[1] < q[2] /\ isExactDuplicate(txs[q[1]], txs[q[2]])
    BY <2>2, <2>3
  <2> QED BY <2>4 DEF Drops
<1>7. ASSUME NEW other \in Drops(txs), data.opening + Total(other) = data.closing
      PROVE  \E k \in drops : other = DropRow(txs, k)
  <2>1. PICK p \in (DOMAIN txs) \X (DOMAIN txs) :
           p[1] < p[2] /\ isExactDuplicate(txs[p[1]], txs[p[2]]) /\ other = DropRow(txs, p[2])
    BY DEF Drops
  <2> QED BY <1>5, <1>7, <2>1
<1>8. CASE drops = {}
  <2>1. PICK i \in flips : flips = {i} /\ fixed = FlipSign(txs, i)
    BY <1>1, <1>2, <1>8 DEF repairPass
  <2>2. fixed \in Flips(txs)
    BY <1>4, <2>1 DEF Flips
  <2>3. \A other \in Flips(txs) : data.opening + Total(other) = data.closing => other = fixed
    BY <1>3, <2>1 DEF Flips
  <2>4. \A other \in Drops(txs) : data.opening + Total(other) # data.closing
    BY <1>7, <1>8
  <2> QED BY <2>2, <2>3, <2>4
<1>9. CASE drops # {}
  <2>1. PICK k \in drops : /\ flips = {} /\ fixed = DropRow(txs, k)
                           /\ \A c \in drops : isExactDuplicate(txs[c], txs[k])
    BY <1>1, <1>2, <1>9 DEF repairPass
  <2>2. \A other \in Flips(txs) : data.opening + Total(other) # data.closing
    BY <1>3, <2>1 DEF Flips
  <2>3. \A c \in drops : Exported(DropRow(txs, c)) = Exported(fixed)
    BY <1>4, <2>1, DuplicatesAgree, EqualLinesExport
  <2>4. fixed \in Drops(txs)
    BY <1>6, <2>1
  <2> QED BY <1>7, <2>2, <2>3, <2>4
<1> QED BY <1>8, <1>9

-----------------------------------------------------------------------------
(* The breaks in the running balances add up to what the rows are off by:  *)
(* each is the difference between the balance a row shows and the one      *)
(* expected of it, and what is expected follows on what was shown before.  *)

\* The amounts of one row more.
LEMMA NextAmount ==
    ASSUME NEW txs \in Lines, NEW i \in DOMAIN txs, NEW a \in 1..i
    PROVE  /\ SumOver(txs, a..(i - 1)) \in Int
           /\ SumOver(txs, a..i) = SumOver(txs, a..(i - 1)) + txs[i].cents
<1>1. PICK n \in Nat : n = Len(txs) /\ DOMAIN txs = 1..n /\ i \in 1..n
  BY LinesAre
<1>2. PICK f : f = Cents(txs)
  OBVIOUS
<1>3. \A k \in a..i : f[k] \in Int /\ f[k] = txs[k].cents /\ txs[k].cents \in Int
  <2>1. \A k \in a..i : k \in DOMAIN txs
    BY <1>1
  <2> QED BY <1>2, <2>1, TotalIsSum
<1>4. a..(i - 1) = (a..i) \ {i} /\ i \in a..i /\ a..(i - 1) \subseteq a..i
  BY <1>1
<1>5. IsFiniteSet(a..i) /\ IsFiniteSet(a..(i - 1))
  <2>1. a \in Int /\ i \in Int /\ i - 1 \in Int
    BY <1>1
  <2> QED BY <2>1, FS_Interval
<1>6. SumOver(txs, a..i) = SumOf(f, a..i) /\ SumOver(txs, a..(i - 1)) = SumOf(f, a..(i - 1))
  <2>1. \A k \in a..(i - 1) : txs[k].cents \in Int /\ f[k] = txs[k].cents
    BY <1>3, <1>4
  <2> QED BY <1>3, <1>5, <2>1, SumOverIsSum
<1>7. SumOf(f, a..i) = f[i] + SumOf(f, (a..i) \ {i}) /\ SumOf(f, (a..i) \ {i}) \in Int
  <2>1. \A k \in a..i : f[k] \in Int
    BY <1>3
  <2> QED BY <1>4, <1>5, <2>1, SumTake
<1>8. f[i] = txs[i].cents /\ txs[i].cents \in Int
  BY <1>3, <1>4
<1>9. PICK x \in Int, c \in Int : x = SumOf(f, (a..i) \ {i}) /\ c = txs[i].cents
  BY <1>7, <1>8
<1>10. SumOver(txs, a..(i - 1)) = x /\ SumOver(txs, a..i) = c + x
  BY <1>4, <1>6, <1>7, <1>8, <1>9
<1> QED BY <1>9, <1>10

\* The running balance after a row, as far as anybody knows.
Shown(opening, txs) ==
    [i \in 0..Len(txs) |-> IF i = 0 THEN opening
                           ELSE IF txs[i].printed THEN txs[i].bal
                           ELSE expectedRunning(opening, txs, i)]

LEMMA ExpectedFollows ==
    ASSUME NEW txs \in Lines, NEW opening \in Int, NEW i \in DOMAIN txs
    PROVE  /\ expectedRunning(opening, txs, i) \in Int
           /\ expectedRunning(opening, txs, i) = Shown(opening, txs)[i - 1] + txs[i].cents
<1> DEFINE printed(k) == {j \in 1..(k - 1) : txs[j].printed}
<1>1. PICK n \in Nat : /\ n = Len(txs) /\ DOMAIN txs = 1..n /\ i \in 1..n
                       /\ \A k \in 1..n : txs[k].bal \in Int /\ txs[k].cents \in Int
  BY LinesAre
<1>2. /\ 1..0 = {} /\ i - 1 \in 0..Len(txs) /\ (i # 1 => i - 1 \in 1..n /\ i - 1 # 0)
      /\ (i - 1) + 1 = i /\ i \in Nat
  BY <1>1
<1>3. \A k \in 1..n :
         expectedRunning(opening, txs, k) =
            IF printed(k) = {} THEN opening + SumOver(txs, 1..k)
            ELSE txs[Max(printed(k))].bal + SumOver(txs, (Max(printed(k)) + 1)..k)
  BY DEF expectedRunning
<1>4. \A k \in 1..n : printed(k) # {} => /\ Max(printed(k)) \in printed(k)
                                         /\ \A x \in printed(k) : x <= Max(printed(k))
  <2> SUFFICES ASSUME NEW k \in 1..n, printed(k) # {}
               PROVE  /\ Max(printed(k)) \in printed(k)
                      /\ \A x \in printed(k) : x <= Max(printed(k))
    OBVIOUS
  <2>1. printed(k) \in SUBSET Nat /\ printed(k) \subseteq 1..(k - 1)
    OBVIOUS
  <2>2. IsFiniteSet(printed(k))
    <3>1. IsFiniteSet(1..(k - 1))
      BY <1>1, FS_Interval
    <3> QED BY <2>1, <3>1, FS_Subset
  <2> HIDE DEF printed
  <2> QED BY <2>1, <2>2, Extremes
<1>5. \A k \in 1..n : \A x \in printed(k) : x \in 1..(k - 1) /\ x \in Nat /\ txs[x].printed
  BY <1>1
<1>6. i # 1 => printed(i) = printed(i - 1) \cup (IF txs[i - 1].printed THEN {i - 1} ELSE {})
  BY <1>1, <1>2
<1>7. printed(1) = {}
  OBVIOUS
<1>8. i # 1 /\ txs[i - 1].printed => i - 1 \in printed(i)
  BY <1>1, <1>2
<1> HIDE DEF printed
\* Rows since the last printed balance.
<1>9. ASSUME NEW a \in 1..i
      PROVE  /\ SumOver(txs, a..(i - 1)) \in Int
             /\ SumOver(txs, a..i) = SumOver(txs, a..(i - 1)) + txs[i].cents
  BY NextAmount
<1>10. SumOver(txs, i..(i - 1)) = 0
  <2>1. i..(i - 1) = {}
    BY <1>1
  <2>2. SumOver(txs, {}) = SumOf(Cents(txs), {})
    <3>1. IsFiniteSet({})
      BY FS_EmptySet
    <3> QED BY <3>1, SumOverIsSum
  <2> QED BY <2>1, <2>2, SumEmpty
<1>11. CASE i = 1
  <2>1. expectedRunning(opening, txs, i) = opening + SumOver(txs, 1..i)
    BY <1>1, <1>3, <1>7, <1>11
  <2>2. SumOver(txs, 1..i) = txs[i].cents
    <3>1. SumOver(txs, 1..i) = SumOver(txs, 1..(i - 1)) + txs[i].cents
      BY <1>9, <1>11
    <3>2. SumOver(txs, 1..(i - 1)) = 0
      BY <1>10, <1>11
    <3> QED BY <1>1, <3>1, <3>2
  <2>3. Shown(opening, txs)[i - 1] = opening
    BY <1>2, <1>11 DEF Shown
  <2> QED BY <1>1, <2>1, <2>2, <2>3
<1>12. CASE i # 1 /\ txs[i - 1].printed
  <2>1. printed(i) # {} /\ Max(printed(i)) = i - 1
    <3>1. printed(i) # {} /\ Max(printed(i)) \in 1..(i - 1) /\ i - 1 <= Max(printed(i))
      BY <1>1, <1>4, <1>5, <1>8, <1>12
    <3> QED BY <1>2, <3>1
  <2>2. expectedRunning(opening, txs, i) = txs[i - 1].bal + SumOver(txs, i..i)
    BY <1>1, <1>2, <1>3, <2>1
  <2>3. SumOver(txs, i..i) = txs[i].cents
    <3>1. i \in 1..i
      BY <1>1
    <3>2. SumOver(txs, i..i) = SumOver(txs, i..(i - 1)) + txs[i].cents
      BY <1>9, <3>1
    <3>3. txs[i].cents \in Int
      BY <1>1
    <3> QED BY <1>10, <3>2, <3>3
  <2>4. Shown(opening, txs)[i - 1] = txs[i - 1].bal
    BY <1>2, <1>12 DEF Shown
  <2> QED BY <1>1, <1>2, <1>12, <2>2, <2>3, <2>4
<1>13. CASE i # 1 /\ ~txs[i - 1].printed
  <2>1. Shown(opening, txs)[i - 1] = expectedRunning(opening, txs, i - 1)
    BY <1>2, <1>13 DEF Shown
  <2>2. printed(i) = printed(i - 1)
    BY <1>6, <1>13
  <2>3. CASE printed(i) = {}
    <3>1. /\ expectedRunning(opening, txs, i) = opening + SumOver(txs, 1..i)
          /\ expectedRunning(opening, txs, i - 1) = opening + SumOver(txs, 1..(i - 1))
      BY <1>1, <1>2, <1>3, <1>13, <2>2, <2>3
    <3>2. 1 \in 1..i
      BY <1>1
    <3> QED BY <1>1, <1>9, <2>1, <3>1, <3>2
  <2>4. CASE printed(i) # {}
    <3>1. PICK m : m = Max(printed(i))
      OBVIOUS
    <3>2. m \in 1..n /\ m + 1 \in 1..i
      BY <1>1, <1>4, <1>5, <2>4, <3>1
    <3>3. /\ expectedRunning(opening, txs, i) = txs[m].bal + SumOver(txs, (m + 1)..i)
          /\ expectedRunning(opening, txs, i - 1) = txs[m].bal + SumOver(txs, (m + 1)..(i - 1))
      BY <1>1, <1>2, <1>3, <1>13, <2>2, <2>4, <3>1
    <3>4. PICK x \in Int, y \in Int : x = SumOver(txs, (m + 1)..(i - 1)) /\ y = txs[m].bal
      BY <1>1, <1>9, <3>2
    <3>5. SumOver(txs, (m + 1)..i) = x + txs[i].cents
      BY <1>9, <3>2, <3>4
    <3> QED BY <1>1, <2>1, <3>3, <3>4, <3>5
  <2> QED BY <2>3, <2>4
<1> QED BY <1>11, <1>12, <1>13

\* The breaks up to row i.
Breaks(opening, txs) ==
    [i \in DOMAIN txs |-> IF txs[i].printed THEN suspectDelta(opening, txs, i) ELSE 0]

LEMMA BreaksAddUp ==
    ASSUME NEW txs \in Lines, NEW opening \in Int
    PROVE  /\ \A i \in DOMAIN txs : Breaks(opening, txs)[i] \in Int
           /\ SumOf(Breaks(opening, txs), DOMAIN txs)
                 = Shown(opening, txs)[Len(txs)] - opening - Total(txs)
<1>1. PICK n \in Nat : /\ n = Len(txs) /\ DOMAIN txs = 1..n
                       /\ \A k \in 1..n : txs[k].bal \in Int /\ txs[k].cents \in Int
  BY LinesAre
<1>2. PICK d : d = Breaks(opening, txs)
  OBVIOUS
<1>3. PICK s : s = Shown(opening, txs)
  OBVIOUS
<1>4. \A i \in 1..n : /\ expectedRunning(opening, txs, i) = s[i - 1] + txs[i].cents
                      /\ expectedRunning(opening, txs, i) \in Int
  BY <1>1, <1>3, ExpectedFollows
<1>5. /\ \A i \in 0..n : s[i] \in Int
      /\ \A i \in 1..n : d[i] \in Int /\ s[i] = s[i - 1] + txs[i].cents + d[i]
      /\ s[0] = opening
  <2>1. s[0] = opening
    BY <1>1, <1>3 DEF Shown
  <2>2. \A i \in 1..n : s[i] = IF txs[i].printed THEN txs[i].bal ELSE expectedRunning(opening, txs, i)
    BY <1>1, <1>3 DEF Shown
  <2>3. \A i \in 1..n : d[i] = IF txs[i].printed
                               THEN txs[i].bal - expectedRunning(opening, txs, i) ELSE 0
    BY <1>1, <1>2 DEF Breaks, suspectDelta
  <2>4. \A i \in 0..n : s[i] \in Int
    BY <1>1, <1>4, <2>1, <2>2
  <2>5. ASSUME NEW i \in 1..n PROVE d[i] \in Int /\ s[i] = s[i - 1] + txs[i].cents + d[i]
    <3>1. PICK e \in Int, b \in Int : e = expectedRunning(opening, txs, i) /\ b = txs[i].bal
      BY <1>1, <1>4
    <3>2. d[i] \in Int /\ s[i] = e + d[i]
      BY <2>2, <2>3, <3>1
    <3> QED BY <1>4, <3>1, <3>2
  <2> QED BY <2>1, <2>4, <2>5
<1> DEFINE off(i) == SumOf(d, 1..i) # s[i] - opening - SumOver(txs, 1..i)
           Bad == {i \in 0..n : off(i)}
<1>6. IsFiniteSet(1..n) /\ \A i \in 0..n : IsFiniteSet(1..i)
  BY <1>1, FS_Interval
<1>7. Bad = {}
  <2> SUFFICES ASSUME Bad # {} PROVE FALSE
    OBVIOUS
  <2>1. PICK i \in Bad : \A k \in Bad : i <= k
    <3>1. Bad \in SUBSET Nat
      BY <1>1
    <3> HIDE DEF Bad
    <3> QED BY <3>1, Smallest
  <2>2. i \in 0..n /\ off(i)
    OBVIOUS
  <2>3. i # 0
    <3>1. 1..0 = {} /\ SumOf(d, {}) = 0
      BY SumEmpty
    <3>2. SumOver(txs, {}) = 0
      <4>1. IsFiniteSet({})
        BY FS_EmptySet
      <4>2. SumOver(txs, {}) = SumOf(d, {})
        BY <4>1, SumOverIsSum
      <4> QED BY <3>1, <4>2
    <3> QED BY <1>5, <2>2, <3>1, <3>2
  <2>4. i \in 1..n /\ i - 1 \in 0..n /\ i \in Nat /\ i - 1 < i
    BY <1>1, <2>2, <2>3
  <2>5. ~off(i - 1)
    <3>1. i - 1 \notin Bad
      <4> HIDE DEF Bad
      <4> QED BY <2>1, <2>4
    <3> QED BY <2>4, <3>1
  <2>6. /\ SumOver(txs, 1..(i - 1)) \in Int
        /\ SumOver(txs, 1..i) = SumOver(txs, 1..(i - 1)) + txs[i].cents
    <3>1. 1 \in 1..i /\ i \in DOMAIN txs
      BY <1>1, <2>4
    <3> QED BY <3>1, NextAmount
  <2>7. SumOf(d, 1..i) = d[i] + SumOf(d, 1..(i - 1)) /\ SumOf(d, 1..(i - 1)) \in Int
    <3>1. \A k \in 1..i : d[k] \in Int
      BY <1>1, <1>5, <2>4
    <3>2. i \in 1..i /\ (1..i) \ {i} = 1..(i - 1)
      BY <2>4
    <3>3. IsFiniteSet(1..i)
      BY <1>6, <2>4
    <3>4. SumOf(d, 1..i) = d[i] + SumOf(d, (1..i) \ {i}) /\ SumOf(d, (1..i) \ {i}) \in Int
      BY <3>1, <3>2, <3>3, SumTake
    <3> QED BY <3>2, <3>4
  <2>8. PICK a \in Int, b \in Int : a = SumOf(d, 1..(i - 1)) /\ b = SumOver(txs, 1..(i - 1))
    BY <2>6, <2>7
  <2>9. PICK u \in Int, v \in Int, w \in Int, c \in Int :
           u = s[i - 1] /\ v = s[i] /\ w = d[i] /\ c = txs[i].cents
    BY <1>1, <1>5, <2>4
  <2>10. a = u - opening - b /\ v = u + c + w
    BY <1>5, <2>4, <2>5, <2>8, <2>9
  <2>11. SumOf(d, 1..i) = w + a /\ SumOver(txs, 1..i) = b + c
    BY <2>6, <2>7, <2>8, <2>9
  <2>12. w + a = v - opening - (b + c)
    BY <2>10
  <2> QED BY <2>2, <2>9, <2>11, <2>12
<1>8. ~off(n)
  <2>1. n \in 0..n
    BY <1>1
  <2> QED BY <1>7, <2>1
<1> QED BY <1>1, <1>2, <1>3, <1>5, <1>8 DEF Total

LEMMA SuspectsAddUp ==
    ASSUME NEW txs \in Lines, NEW opening \in Int, NEW closing,
           txs # <<>>, txs[Len(txs)].printed, txs[Len(txs)].bal = closing
    PROVE  MapThenSumSet(LAMBDA i : suspectDelta(opening, txs, i), findSuspectRows(opening, txs))
              = closing - opening - Total(txs)
<1>1. PICK n \in Nat \ {0} : n = Len(txs) /\ DOMAIN txs = 1..n
  BY LinesAre DEF Lines
<1>2. PICK d : d = Breaks(opening, txs)
  OBVIOUS
<1>3. \A i \in 1..n : d[i] = (IF txs[i].printed THEN suspectDelta(opening, txs, i) ELSE 0)
                      /\ d[i] \in Int
  BY <1>1, <1>2, BreaksAddUp DEF Breaks
<1>4. PICK I : I = {i \in 1..n : d[i] # 0}
  OBVIOUS
<1>5. findSuspectRows(opening, txs) = I
  BY <1>1, <1>3, <1>4 DEF findSuspectRows
<1>6. IsFiniteSet(1..n) /\ IsFiniteSet(I)
  <2>1. IsFiniteSet(1..n)
    BY <1>1, FS_Interval
  <2> QED BY <1>4, <2>1, FS_Subset
<1>7. MapThenSumSet(LAMBDA i : suspectDelta(opening, txs, i), I) = SumOf(d, I)
  <2>1. \A i \in I : d[i] \in Int /\ d[i] = suspectDelta(opening, txs, i)
    BY <1>3, <1>4
  <2> QED BY <1>6, <2>1, SuspectSumIsSum
<1>8. SumOf(d, I) = SumOf(d, 1..n)
  BY <1>3, <1>4, <1>6, SumNonzero
<1>9. SumOf(d, 1..n) = Shown(opening, txs)[n] - opening - Total(txs)
  BY <1>1, <1>2, BreaksAddUp
<1>10. Shown(opening, txs)[n] = closing
  BY <1>1 DEF Shown
<1> QED BY <1>5, <1>7, <1>8, <1>9, <1>10

-----------------------------------------------------------------------------
(* What is made of an answer has numbers where numbers are added.          *)

\* Pages put behind one another keep the type of their rows.
LEMMA FlattenType ==
    ASSUME NEW T, NEW seqs \in Seq(Seq(T))
    PROVE  FlattenSeq(seqs) \in Seq(T)
<1>1. PICK n \in Nat : n = Len(seqs) /\ DOMAIN seqs = 1..n /\ \A i \in 1..n : seqs[i] \in Seq(T)
  OBVIOUS
<1> DEFINE body(g, m) == [i \in 1..m |-> IF i = 1 THEN seqs[i] ELSE g[i - 1] \o seqs[i]]
           Bad == {m \in 0..n : ~ \E g : g = body(g, m)}
<1>2. Bad = {}
  <2> SUFFICES ASSUME Bad # {} PROVE FALSE
    OBVIOUS
  <2>1. PICK m \in Bad : \A k \in Bad : m <= k
    <3>0. \A k \in 0..n : k \in Nat
      BY <1>1
    <3> HIDE DEF body
    <3>1. Bad \in SUBSET Nat
      BY <3>0
    <3> HIDE DEF Bad
    <3> QED BY <3>1, Smallest
  <2>2. m \in 0..n /\ ~ \E g : g = body(g, m)
    OBVIOUS
  <2>3. m # 0
    <3>1. PICK g : g = [i \in 1..0 |-> seqs[i]]
      OBVIOUS
    <3>2. g = body(g, 0)
      <4>1. ~ \E i \in 1..0 : TRUE
        OBVIOUS
      <4> QED BY <3>1, <4>1
    <3> HIDE DEF body
    <3> QED BY <2>2, <3>2
  <2>4. m - 1 \in 0..n /\ m \in 1..n /\ m \in Nat
    BY <1>1, <2>2, <2>3
  <2>5. PICK g : g = body(g, m - 1)
    <3>1. m - 1 \notin Bad
      <4>1. ~(m <= m - 1)
        BY <2>4
      <4> HIDE DEF Bad
      <4> QED BY <2>1, <4>1
    <3> QED BY <2>4, <3>1
  <2>6. PICK h : h = [i \in 1..m |-> IF i = m
                        THEN IF m = 1 THEN seqs[m] ELSE g[m - 1] \o seqs[m] ELSE g[i]]
    OBVIOUS
  <2>7. \A i \in 1..(m - 1) : g[i] = IF i = 1 THEN seqs[i] ELSE g[i - 1] \o seqs[i]
    BY <2>5
  <2>8. ASSUME NEW i \in 1..m PROVE h[i] = IF i = 1 THEN seqs[i] ELSE h[i - 1] \o seqs[i]
    <3>1. i # 1 => i - 1 \in 1..m /\ i - 1 # m
      BY <2>4
    <3>2. i # 1 => h[i - 1] = g[i - 1]
      BY <2>6, <3>1
    <3>3. CASE i = m
      BY <2>6, <3>2, <3>3
    <3>4. CASE i # m
      <4>1. i \in 1..(m - 1)
        BY <2>4, <3>4
      <4> QED BY <2>6, <2>7, <3>2, <3>4, <4>1
    <3> QED BY <3>3, <3>4
  <2>9. h = body(h, m)
    BY <2>6, <2>8
  <2> QED BY <2>2, <2>9
<1> DEFINE flat == CHOOSE g : g = body(g, n)
<1>3. flat = body(flat, n)
  <2>1. \E g : g = body(g, n)
    <3>1. n \in 0..n
      BY <1>1
    <3> QED BY <1>2, <3>1
  <2> HIDE DEF body
  <2> QED BY <2>1
<1>4. FlattenSeq(seqs) = IF n = 0 THEN seqs ELSE flat[n]
  BY <1>1 DEF FlattenSeq
<1> HIDE DEF flat
<1>5. \A i \in 1..n : flat[i] = IF i = 1 THEN seqs[i] ELSE flat[i - 1] \o seqs[i]
  BY <1>3
<1> HIDE DEF body
<1> DEFINE Odd == {i \in 1..n : flat[i] \notin Seq(T)}
<1>6. Odd = {}
  <2> SUFFICES ASSUME Odd # {} PROVE FALSE
    OBVIOUS
  <2>1. PICK i \in Odd : \A k \in Odd : i <= k
    <3>1. Odd \in SUBSET Nat
      BY <1>1
    <3> HIDE DEF Odd
    <3> QED BY <3>1, Smallest
  <2>2. i \in 1..n /\ flat[i] \notin Seq(T) /\ seqs[i] \in Seq(T)
    BY <1>1
  <2>3. i # 1 /\ i - 1 \in 1..n /\ ~(i <= i - 1)
    BY <1>1, <1>5, <2>2
  <2>4. flat[i - 1] \in Seq(T)
    <3>1. i - 1 \notin Odd
      <4> HIDE DEF Odd
      <4> QED BY <2>1, <2>3
    <3> QED BY <2>3, <3>1
  <2>5. flat[i - 1] \o seqs[i] \in Seq(T)
    BY <2>2, <2>4, ConcatProperties
  <2> QED BY <1>5, <2>2, <2>3, <2>5
<1>7. CASE n = 0
  <2>1. seqs = <<>>
    BY <1>1, <1>7
  <2> QED BY <1>4, <1>7, <2>1
<1>8. CASE n # 0
  <2>1. n \in 1..n
    BY <1>1, <1>8
  <2> QED BY <1>4, <1>6, <1>8, <2>1
<1> QED BY <1>7, <1>8

\* The days of some rows.
LEMMA DaysType ==
    ASSUME NEW txs \in Lines
    PROVE  Least(DaysOf(txs)) \in Nat /\ Greatest(DaysOf(txs)) \in Nat
<1>1. PICK f : f = [i \in DOMAIN txs |-> txs[i].day]
  OBVIOUS
<1>2. \A i \in DOMAIN txs : f[i] = txs[i].day /\ f[i] \in Nat
  <2>1. \A t \in Line : t.day \in Nat
    BY DEF Line
  <2> QED BY <1>1, <2>1, LinesAre
<1>3. PICK D : D = {txs[i].day : i \in DOMAIN txs}
  OBVIOUS
<1>4. f \in Surjection(DOMAIN txs, D)
  <2>1. f \in [DOMAIN txs -> D]
    BY <1>1, <1>3
  <2> QED BY <1>2, <1>3, <2>1 DEF Surjection
<1>5. IsFiniteSet(D) /\ D \in SUBSET Nat
  <2>1. IsFiniteSet(D)
    BY <1>4, LinesAre, FS_Surjection
  <2> QED BY <1>2, <1>3, <2>1
<1>6. PICK S : S = DaysOf(txs)
  OBVIOUS
<1>7. S \in SUBSET Nat /\ IsFiniteSet(S)
  <2>1. S \subseteq D
    BY <1>3, <1>6 DEF DaysOf
  <2> QED BY <1>5, <2>1, FS_Subset
<1>8. S # {} => Min(S) \in S /\ Max(S) \in S
  BY <1>7, Extremes
<1>9. Unread \in Nat
  BY DEF Unread
<1> QED BY <1>6, <1>7, <1>8, <1>9 DEF Least, Greatest

LEMMA EitherType ==
    ASSUME NEW a \in Nat, NEW b \in Nat
    PROVE  Either(a, b) \in Nat
BY DEF Either

LEMMA DittoType ==
    ASSUME NEW txs \in Lines, NEW i \in DOMAIN txs
    PROVE  Ditto(txs, i) \in Nat
<1>1. PICK dated : dated = {j \in 1..i : txs[j].day # Unread}
  OBVIOUS
<1>2. i \in Nat /\ dated \in SUBSET Nat /\ dated \subseteq DOMAIN txs /\ IsFiniteSet(dated)
  <2>1. i \in Nat /\ 1..i \subseteq DOMAIN txs
    BY LinesAre
  <2>2. IsFiniteSet(1..i)
    BY <2>1, FS_Interval
  <2> QED BY <1>1, <2>1, <2>2, FS_Subset
<1>3. dated # {} => Max(dated) \in DOMAIN txs
  BY <1>2, Extremes
<1>4. \A k \in DOMAIN txs : txs[k].day \in Nat
  <2>1. \A t \in Line : t.day \in Nat
    BY DEF Line
  <2> QED BY <2>1, LinesAre
<1>5. Ditto(txs, i) = IF dated = {} THEN Unread ELSE txs[Max(dated)].day
  BY <1>1 DEF Ditto
<1> QED BY <1>3, <1>4, <1>5 DEF Unread

\* Balances that are taken from the rows.
LEMMA DerivedType ==
    ASSUME NEW txs \in Lines
    PROVE  derivedOpening(txs) \in Int /\ derivedClosing(txs) \in Int
<1>1. PICK S : S = Printing(txs)
  OBVIOUS
<1>2. S \in SUBSET Nat /\ S \subseteq DOMAIN txs /\ IsFiniteSet(S)
  <2>1. S \subseteq DOMAIN txs /\ DOMAIN txs \subseteq Nat /\ IsFiniteSet(DOMAIN txs)
    BY <1>1, LinesAre DEF Printing
  <2> QED BY <2>1, FS_Subset
<1>3. S # {} => Min(S) \in DOMAIN txs /\ Max(S) \in DOMAIN txs
  BY <1>2, Extremes
<1> QED BY <1>1, <1>3, LinesAre DEF derivedOpening, derivedClosing

LEMMA SalvageType ==
    ASSUME NEW doc \in Answer
    PROVE  /\ salvageStructure(doc).rows \in Lines
           /\ salvageStructure(doc).opening \in Int /\ salvageStructure(doc).closing \in Int
<1>1. /\ doc.rows \in Lines /\ doc.start \in Nat /\ doc.end \in Nat
      /\ doc.opening.cents \in Int /\ doc.closing.cents \in Int
  BY DEF Answer, Lines, Balance
<1>2. PICK start \in Nat : start = Either(doc.start, Least(DaysOf(doc.rows)))
  BY <1>1, DaysType, EitherType
<1>3. PICK txs : txs = CoerceAmounts([i \in DOMAIN doc.rows |->
                    [doc.rows[i] EXCEPT !.day = Either(Ditto(doc.rows, i), start)]])
  OBVIOUS
<1>4. txs \in Lines
  <2>1. PICK n \in Nat : n = Len(doc.rows) /\ DOMAIN doc.rows = 1..n
    BY <1>1, LinesAre
  <2>2. PICK dated : dated = [i \in DOMAIN doc.rows |->
                       [doc.rows[i] EXCEPT !.day = Either(Ditto(doc.rows, i), start)]]
    OBVIOUS
  <2>3. \A i \in 1..n : dated[i] \in Line
    <3> SUFFICES ASSUME NEW i \in 1..n PROVE dated[i] \in Line
      OBVIOUS
    <3>1. PICK r \in Line : r = doc.rows[i]
      BY <1>1, <2>1, LinesAre
    <3>2. PICK at \in Nat : at = Either(Ditto(doc.rows, i), start)
      BY <1>1, <1>2, <2>1, DittoType, EitherType
    <3>3. [r EXCEPT !.day = at] \in Line
      BY DEF Line
    <3> QED BY <2>1, <2>2, <3>1, <3>2, <3>3
  <2>4. txs = [i \in 1..n |-> IF dated[i].read THEN dated[i] ELSE [dated[i] EXCEPT !.cents = 0]]
    BY <1>3, <2>1, <2>2 DEF CoerceAmounts
  <2>5. \A r \in Line : [r EXCEPT !.cents = 0] \in Line
    BY DEF Line
  <2>6. txs \in [1..n -> Line]
    BY <2>3, <2>4, <2>5
  <2> QED BY <2>1, <2>6 DEF Lines
<1>5. derivedOpening(txs) \in Int /\ derivedClosing(txs) \in Int
  BY <1>4, DerivedType
<1>6. /\ salvageStructure(doc).rows = txs
      /\ salvageStructure(doc).opening =
            IF doc.opening.read THEN doc.opening.cents ELSE derivedOpening(txs)
      /\ salvageStructure(doc).closing =
            IF doc.closing.read THEN doc.closing.cents ELSE derivedClosing(txs)
  BY <1>2, <1>3 DEF salvageStructure
<1> QED BY <1>1, <1>4, <1>5, <1>6

LEMMA SnapType ==
    ASSUME NEW doc \in Answer, NEW at \in Nat
    PROVE  SnapYear(at, doc) \in Nat
<1>1. PICK start \in Nat, end \in Nat : start = doc.start /\ end = doc.end
  BY DEF Answer
<1>2. PICK T : T = {y * Year + (at % Year) : y \in {start \div Year, end \div Year}}
  OBVIOUS
<1>3. PICK S : S = {d \in T : start <= d /\ d <= end}
  OBVIOUS
<1>4. Year \in Nat \ {0}
  BY AttemptAssumption
<1>5. PICK a \in Int, b \in Int : T = {a, b}
  <2>1. PICK y \in Int, z \in Int, r \in Int : y = start \div Year /\ z = end \div Year /\ r = at % Year
    BY <1>4
  <2>2. T = {y * Year + r, z * Year + r}
    BY <1>2, <2>1
  <2>3. y * Year + r \in Int /\ z * Year + r \in Int
    BY <1>4
  <2> QED BY <2>2, <2>3
<1>6. S \in SUBSET Nat /\ IsFiniteSet(S)
  <2>1. IsFiniteSet({a}) /\ IsFiniteSet({b}) /\ {a, b} = {a} \cup {b}
    BY FS_Singleton
  <2>2. IsFiniteSet({a, b})
    BY <2>1, FS_Union
  <2>3. S \subseteq {a, b} /\ S \subseteq Nat
    BY <1>3, <1>5
  <2> QED BY <2>2, <2>3, FS_Subset
<1>7. S # {} => Min(S) \in Nat
  BY <1>6, Extremes
<1>8. SnapYear(at, doc) = IF Unread \in {doc.start, doc.end} \/ S = {} THEN at ELSE Min(S)
  BY <1>1, <1>2, <1>3 DEF SnapYear
<1> QED BY <1>7, <1>8

LEMMA MappedRowsType ==
    ASSUME NEW doc \in Answer
    PROVE  mappedRows(doc) \in Lines
<1>1. doc.rows \in Lines /\ doc.start \in Nat
  BY DEF Answer, Lines
<1>2. PICK S : S = {i \in DOMAIN doc.rows :
                      /\ IsTransaction(doc.rows[i])
                      /\ Either(doc.rows[i].day, doc.start) # Unread}
  OBVIOUS
<1>3. S \in SUBSET Nat /\ S \subseteq DOMAIN doc.rows /\ IsFiniteSet(S)
  <2>1. S \subseteq DOMAIN doc.rows /\ DOMAIN doc.rows \subseteq Nat /\ IsFiniteSet(DOMAIN doc.rows)
    BY <1>1, <1>2, LinesAre
  <2> QED BY <2>1, FS_Subset
<1>4. PICK kept : kept = InOrder(S)
  OBVIOUS
<1>5. PICK m \in Nat : DOMAIN kept = 1..m /\ \A i \in 1..m : kept[i] \in DOMAIN doc.rows
  <2>1. /\ Cardinality(S) \in Nat /\ DOMAIN kept = 1..Cardinality(S)
        /\ \A i \in DOMAIN kept : kept[i] \in S
    BY <1>3, <1>4, Ordered
  <2> QED BY <1>3, <2>1
<1>6. PICK t : t = mappedRows(doc)
  OBVIOUS
<1>7. t = [n \in DOMAIN kept |->
              [doc.rows[kept[n]] EXCEPT !.day = SnapYear(Either(@, doc.start), doc),
                                        !.eitherWay = FALSE]]
  BY <1>2, <1>4, <1>6 DEF mappedRows
<1>8. \A n \in 1..m : t[n] \in Line
  <2> SUFFICES ASSUME NEW n \in 1..m PROVE t[n] \in Line
    OBVIOUS
  <2>1. PICK r \in Line : r = doc.rows[kept[n]]
    BY <1>1, <1>5, LinesAre
  <2>2. r.day \in Nat
    BY DEF Line
  <2>3. PICK at \in Nat : at = SnapYear(Either(r.day, doc.start), doc)
    BY <1>1, <2>2, EitherType, SnapType
  <2>4. [r EXCEPT !.day = at, !.eitherWay = FALSE] \in Line
    BY DEF Line
  <2> QED BY <1>5, <1>7, <2>1, <2>3, <2>4
<1>9. t \in [1..m -> Line]
  BY <1>5, <1>7, <1>8
<1> QED BY <1>6, <1>9 DEF Lines

LEMMA MappedType ==
    ASSUME NEW doc \in Answer
    PROVE  mapStatementModelOutput(doc).doc \in Answer
<1>1. PICK txs \in Lines : txs = mappedRows(doc)
  BY MappedRowsType
<1>2. PICK start \in Nat, end \in Nat : /\ start = Either(doc.start, Least(DaysOf(txs)))
                                        /\ end = Either(doc.end, Greatest(DaysOf(txs)))
  <2>1. doc.start \in Nat /\ doc.end \in Nat
    BY DEF Answer
  <2> QED BY <2>1, DaysType, EitherType
<1>3. PICK opening \in Balance, closing \in Balance :
         /\ opening = Figure(IF doc.opening.read THEN doc.opening.cents ELSE derivedOpening(txs))
         /\ closing = Figure(IF Printing(txs) = {} /\ doc.closing.read THEN doc.closing.cents
                             ELSE derivedClosing(txs))
  <2>1. doc.opening.cents \in Int /\ doc.closing.cents \in Int
    BY DEF Answer, Balance
  <2>2. \A c \in Int : Figure(c) \in Balance
    BY DEF Figure, Balance
  <2> QED BY <2>1, <2>2, DerivedType
<1>4. PICK format \in {"MDY", "TEXTUAL", "AMBIGUOUS", "missing"} :
         format = IF doc.format = "missing" THEN "AMBIGUOUS" ELSE doc.format
  BY DEF Answer
<1>5. mapStatementModelOutput(doc).doc =
         [doc EXCEPT !.rows = txs, !.start = start, !.end = end, !.opening = opening,
                     !.closing = closing, !.format = format]
  BY <1>1, <1>2, <1>3, <1>4 DEF mapStatementModelOutput
<1>6. [doc EXCEPT !.rows = txs, !.start = start, !.end = end, !.opening = opening,
                  !.closing = closing, !.format = format] \in Answer
  BY DEF Answer, Lines
<1> QED BY <1>5, <1>6

LEMMA ExtractionType ==
    ASSUME NEW doc \in Answer
    PROVE  /\ Extraction(doc).rows \in Lines
           /\ Extraction(doc).opening \in Int /\ Extraction(doc).closing \in Int
<1>1. CASE engine = "statement"
  <2>1. PICK d \in Answer : d = mapStatementModelOutput(doc).doc
    BY MappedType
  <2>2. /\ Extraction(doc).rows = salvageStructure(d).rows
        /\ Extraction(doc).opening = salvageStructure(d).opening
        /\ Extraction(doc).closing = salvageStructure(d).closing
    BY <1>1, <2>1 DEF Extraction, salvageStructure
  <2> QED BY <2>2, SalvageType
<1>2. CASE engine # "statement"
  BY <1>2, SalvageType DEF Extraction
<1> QED BY <1>1, <1>2

\* The pages of a document as one answer.
LEMMA MergeType ==
    ASSUME NEW docs \in Seq(Answer), docs # <<>>
    PROVE  mergeStatementPages(docs) \in Answer
<1>1. PICK n \in Nat \ {0} : n = Len(docs) /\ DOMAIN docs = 1..n /\ \A i \in 1..n : docs[i] \in Answer
  OBVIOUS
<1>2. \A i \in 1..n : /\ docs[i].start \in Nat /\ docs[i].end \in Nat
                      /\ docs[i].opening \in Balance /\ docs[i].closing \in Balance
                      /\ docs[i].format \in {"MDY", "TEXTUAL", "AMBIGUOUS", "missing"}
                      /\ docs[i].rows \in Seq(Line)
  BY <1>1 DEF Answer
<1>3. ASSUME NEW S \in SUBSET (1..n), S # {} PROVE Min(S) \in 1..n /\ Max(S) \in 1..n
  <2>1. IsFiniteSet(1..n) /\ S \in SUBSET Nat
    BY <1>1, FS_Interval
  <2>2. IsFiniteSet(S)
    BY <2>1, FS_Subset
  <2> QED BY <1>3, <2>1, <2>2, Extremes
<1>4. PICK seqs : seqs = [i \in DOMAIN docs |-> docs[i].rows]
  OBVIOUS
<1>5. FlattenSeq(seqs) \in Seq(Line)
  <2>1. seqs \in [1..n -> Seq(Line)]
    BY <1>1, <1>2, <1>4
  <2>2. seqs \in Seq(Seq(Line))
    BY <1>1, <2>1
  <2> QED BY <2>2, FlattenType
<1>6. PICK dated \in SUBSET (1..n), opens \in SUBSET (1..n), closes \in SUBSET (1..n),
           told \in SUBSET (1..n) :
         /\ dated = {i \in DOMAIN docs : docs[i].period}
         /\ opens = {i \in DOMAIN docs : docs[i].opening.read}
         /\ closes = {i \in DOMAIN docs : docs[i].closing.read}
         /\ told = {i \in DOMAIN docs : docs[i].format # "missing"}
  BY <1>1
<1>7. mergeStatementPages(docs) =
        [hasRows |-> TRUE, omitted |-> FALSE,
         period  |-> dated # {},
         start   |-> IF dated = {} THEN Unread ELSE docs[Min(dated)].start,
         end     |-> IF dated = {} THEN Unread ELSE docs[Min(dated)].end,
         opening |-> IF opens = {} THEN docs[1].opening ELSE docs[Min(opens)].opening,
         closing |-> IF closes = {} THEN docs[1].closing ELSE docs[Max(closes)].closing,
         format  |-> IF told = {} THEN "missing" ELSE docs[Min(told)].format,
         rows    |-> FlattenSeq(seqs)]
  BY <1>4, <1>6 DEF mergeStatementPages
<1>8. /\ dated # {} => Min(dated) \in 1..n
      /\ opens # {} => Min(opens) \in 1..n
      /\ closes # {} => Max(closes) \in 1..n
      /\ told # {} => Min(told) \in 1..n
  BY <1>3
<1>9. 1 \in 1..n /\ Unread \in Nat
  BY DEF Unread
<1>10. PICK period \in BOOLEAN : period = (dated # {})
  <2>1. CASE dated = {}
    BY <2>1
  <2>2. CASE dated # {}
    BY <2>2
  <2> QED BY <2>1, <2>2
<1>11. PICK start \in Nat, end \in Nat :
          /\ start = IF dated = {} THEN Unread ELSE docs[Min(dated)].start
          /\ end = IF dated = {} THEN Unread ELSE docs[Min(dated)].end
  BY <1>2, <1>8, <1>9
<1>12. PICK opening \in Balance :
          opening = IF opens = {} THEN docs[1].opening ELSE docs[Min(opens)].opening
  BY <1>2, <1>8, <1>9
<1>13. PICK closing \in Balance :
          closing = IF closes = {} THEN docs[1].closing ELSE docs[Max(closes)].closing
  BY <1>2, <1>8, <1>9
<1>14. PICK format \in {"MDY", "TEXTUAL", "AMBIGUOUS", "missing"} :
          format = IF told = {} THEN "missing" ELSE docs[Min(told)].format
  BY <1>2, <1>8
<1>15. mergeStatementPages(docs) =
         [hasRows |-> TRUE, omitted |-> FALSE, period |-> period, start |-> start, end |-> end,
          opening |-> opening, closing |-> closing, format |-> format, rows |-> FlattenSeq(seqs)]
  BY <1>7, <1>10, <1>11, <1>12, <1>13, <1>14
<1> QED BY <1>5, <1>15 DEF Answer

-----------------------------------------------------------------------------
(* The rows that are repaired have amounts, and so has what they should    *)
(* add up to; no repair is asked of an answer without rows, and the        *)
(* heuristic comes last.                                                   *)
RowsInv ==
    /\ pc \in {"repair", "heuristic"} =>
          rows \in Lines /\ data.opening \in Int /\ data.closing \in Int
    /\ pc = "repair" => rows # <<>>
    /\ pc # "done" => repaired # "heuristic"

LEMMA RowsKept ==
    ASSUME RowsInv, UNCHANGED <<data, rows, repaired>>,
           pc' \in {"repair", "heuristic"} => pc \in {"repair", "heuristic"},
           pc' = "repair" => pc = "repair", pc # "done"
    PROVE  RowsInv'
BY DEF RowsInv

LEMMA ReceiveKeepsRows ==
    ASSUME NEW doc \in Answer, TypeInv, RowsInv, Asking, Receive(doc)
    PROVE  RowsInv'
<1>1. /\ Extraction(doc).rows \in Lines
      /\ Extraction(doc).opening \in Int /\ Extraction(doc).closing \in Int
  BY ExtractionType
<1>2. repaired # "heuristic" /\ pc \in {"first", "repair"}
  BY DEF Asking, RowsInv
<1>3. CASE ~Parses(doc)
  <2>1. UNCHANGED <<data, rows, repaired>> /\ pc' = IF pc = "repair" THEN "heuristic" ELSE "done"
    BY <1>3 DEF Receive, Throw, End
  <2> QED BY <1>2, <2>1, RowsKept
<1>4. CASE Parses(doc) /\ pc = "repair"
  <2>1. /\ pc' = "heuristic" /\ data' = data
        /\ \/ rows' = Extraction(doc).rows /\ repaired' = "llm"
           \/ rows' = rows /\ repaired' = repaired
    BY <1>4 DEF Receive, AdoptRepair
  <2> QED BY <1>1, <1>2, <1>4, <2>1 DEF RowsInv
<1>5. CASE Parses(doc) /\ pc # "repair"
  <2>1. /\ data' = Extraction(doc) /\ rows' = Extraction(doc).rows /\ repaired' = repaired
        /\ pc' = "repair" => rows' # <<>>
    BY <1>5 DEF Receive, Adopt, End
  <2> QED BY <1>1, <1>2, <2>1 DEF RowsInv
<1> QED BY <1>3, <1>4, <1>5

LEMMA RowsStep == TypeInv /\ RowsInv /\ [Next]_vars => RowsInv'
<1> SUFFICES ASSUME TypeInv, RowsInv, [Next]_vars PROVE RowsInv'
  OBVIOUS
<1>0. Answers \subseteq Answer /\ Rereads \subseteq Answer /\ PageAnswers \subseteq Answer
  BY AnswerAssumption
<1>1. CASE BuildProvider
  <2>1. UNCHANGED <<data, rows, repaired>> /\ pc = "build" /\ pc' \in {"first", "done"}
    BY <1>1 DEF BuildProvider, Throw, End
  <2> QED BY <2>1, RowsKept
<1>2. ASSUME NEW n, Asking, Again(n), UNCHANGED <<data, rows, repaired>> PROVE RowsInv'
  BY <1>2, RowsKept DEF Asking, Again
<1>3. ASSUME NEW f \in Fault, RequestFails(f) PROVE RowsInv'
  <2>1. CASE Throw(f)
    <3>1. /\ UNCHANGED <<data, rows, repaired>> /\ pc \in {"first", "repair"}
          /\ pc' = IF pc = "repair" THEN "heuristic" ELSE "done"
      BY <1>3, <2>1 DEF RequestFails, Throw, End, Asking
    <3> QED BY <3>1, RowsKept
  <2>2. CASE ~Throw(f)
    BY <1>2, <1>3, <2>2 DEF RequestFails
  <2> QED BY <2>1, <2>2
<1>4. CASE GrammarDeadEnds
  BY <1>4, RowsKept DEF GrammarDeadEnds, Asking
<1>5. ASSUME NEW doc \in Answer, AnswerText(doc) PROVE RowsInv'
  BY <1>2, <1>5, ReceiveKeepsRows DEF AnswerText
<1>6. ASSUME NEW doc \in PageAnswers, AnswerPage(doc) PROVE RowsInv'
  <2>1. CASE Len(pages) + 1 < Pages
    BY <1>2, <1>6, <2>1 DEF AnswerPage
  <2>2. CASE ~(Len(pages) + 1 < Pages)
    <3>1. PICK docs : docs = Append(pages, doc)
      OBVIOUS
    <3>2. docs \in Seq(Answer) /\ docs # <<>>
      <4>1. pages \in Seq(PageAnswers)
        BY DEF TypeInv, TypeOK
      <4>2. pages \in Seq(Answer) /\ doc \in Answer
        BY <1>0, <4>1
      <4> QED BY <3>1, <4>2
    <3>3. Asking /\ Receive(mergeStatementPages(docs)) /\ mergeStatementPages(docs) \in Answer
      BY <1>6, <2>2, <3>1, <3>2, MergeType DEF AnswerPage
    <3> QED BY <3>3, ReceiveKeepsRows
  <2> QED BY <2>1, <2>2
<1>7. CASE HeuristicRepair
  BY <1>7 DEF HeuristicRepair, End, RowsInv
<1>8. CASE UNCHANGED vars
  BY <1>8 DEF vars, RowsInv
<1> QED BY <1>0, <1>1, <1>3, <1>4, <1>5, <1>6, <1>7, <1>8 DEF Next

LEMMA RowsHold == Spec => []RowsInv
<1>1. Init => RowsInv
  BY DEF Init, RowsInv
<1> QED BY <1>1, RowsStep, TypeInvHolds, PTL DEF Spec

\* The last resort makes the only repair there is: any single sign, or single copy of a
\* line, that also makes the rows tie leaves the same rows, however many there are
\* (repairPass, packages/reconciler/src/golden-rule.ts).
THEOREM RepairsAreTheOnlyOnes == Spec => RepairIsUnambiguous
<1>1. ASSUME RowsInv, HeuristicRepair, repaired' = "heuristic"
      PROVE  /\ rows' \in Flips(rows) \cup Drops(rows)
             /\ \A txs \in Flips(rows) \cup Drops(rows) :
                   data.opening + Total(txs) = data.closing => Exported(txs) = Exported(rows')
  <2>1. rows \in Lines /\ data.opening \in Int /\ data.closing \in Int /\ repaired # "heuristic"
    BY <1>1 DEF RowsInv, HeuristicRepair
  <2>2. rows' \in repairPass(rows, deltaCents(rows))
    BY <1>1, <2>1 DEF HeuristicRepair
  <2>3. PICK fixed \in repairPass(rows, deltaCents(rows)) : fixed = rows'
    BY <2>2
  <2>4. /\ fixed \in Flips(rows) \cup Drops(rows)
        /\ \A other \in Flips(rows) \cup Drops(rows) :
              data.opening + Total(other) = data.closing => Exported(other) = Exported(fixed)
    BY <2>1, RepairIsTheOne
  <2> QED BY <2>3, <2>4
<1>2. ASSUME RowsInv
      PROVE  [HeuristicRepair /\ repaired' = "heuristic" =>
        LET flips == {FlipSign(rows, i) : i \in DOMAIN rows}
            drops == {DropRow(rows, p[2]) : p \in {q \in (DOMAIN rows) \X (DOMAIN rows) :
                        q[1] < q[2] /\ isExactDuplicate(rows[q[1]], rows[q[2]])}}
        IN  /\ rows' \in flips \cup drops
            /\ \A txs \in flips \cup drops :
                  data.opening + Total(txs) = data.closing => Exported(txs) = Exported(rows')]_vars
  BY <1>1, <1>2 DEF Flips, Drops
<1> QED BY <1>2, RowsHold, PTL DEF Spec, RepairIsUnambiguous

\* The rows named to the model in a repair request account for all that the rows are off
\* by, to the cent, if the last row prints the closing balance (findSuspectRows).
THEOREM SuspectsAreComplete == Spec => []SuspectsExplainDelta
<1>1. RowsInv => SuspectsExplainDelta
  <2> SUFFICES ASSUME RowsInv, pc = "repair", rows[Len(rows)].printed,
                      rows[Len(rows)].bal = data.closing
               PROVE  MapThenSumSet(LAMBDA i : suspectDelta(data.opening, rows, i),
                                    findSuspectRows(data.opening, rows)) = deltaCents(rows)
    BY DEF SuspectsExplainDelta
  <2>1. rows \in Lines /\ rows # <<>> /\ data.opening \in Int /\ data.closing \in Int
    BY DEF RowsInv
  <2>2. PICK txs \in Lines, opening \in Int, closing \in Int :
           txs = rows /\ opening = data.opening /\ closing = data.closing
    BY <2>1
  <2>3. MapThenSumSet(LAMBDA i : suspectDelta(opening, txs, i), findSuspectRows(opening, txs))
           = closing - opening - Total(txs)
    BY <2>1, <2>2, SuspectsAddUp
  <2>4. deltaCents(rows) = data.closing - data.opening - Total(rows)
    BY <2>1, JudgedTotal DEF deltaCents
  <2> QED BY <2>2, <2>3, <2>4
<1> QED BY <1>1, RowsHold, PTL

\* What is repaired, and what the model is asked to repair, is what is wrong, whatever the
\* answers: no other single repair ties as well, and the suspect rows explain the whole
\* difference (repairPass and findSuspectRows in packages/reconciler/src/golden-rule.ts).
THEOREM RepairsHitWhatIsWrong == Spec => RepairsAreSound
BY RepairsAreTheOnlyOnes, SuspectsAreComplete, PTL DEF RepairsAreSound

=============================================================================
