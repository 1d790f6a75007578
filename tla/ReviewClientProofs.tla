------------------------- MODULE ReviewClientProofs -------------------------
(***************************************************************************)
(* A tab of the review page, for any number of rows, requests, keystrokes  *)
(* and changes by others: it shows the changes it told its operator of,    *)
(* its selection follows its deletions, and its row editor writes what was *)
(* typed in it and keeps it.                                               *)
(***************************************************************************)
EXTENDS ReviewClient, TLAPS

Slots == 1..MaxCalls
AllFields == EditFields \cup {"cleansed"}
RowsOf == [Txs -> RowView \cup {None}]
CacheOf == [rows : RowsOf, shows : SUBSET Slots]
FetchOf == [st : {"idle", "asked", "read", "failed"}, got : CacheOf \cup {None}]

(* A patch has values for some of the fields.                              *)
IsPatch(patch) == DOMAIN patch \subseteq AllFields /\ \A f \in DOMAIN patch : patch[f] \in Vals

Stages == {"unused", "sent", "applied", "waiting", "settled", "refused", "failed", "closed", "given up"}
HasShape(r) ==
    /\ r = [kind |-> r.kind, ids |-> r.ids, patch |-> r.patch, touched |-> r.touched, st |-> r.st]
    /\ r.kind \in {"row", "cell", "bulk", "delete"} /\ r.ids \subseteq Txs /\ r.st \in Stages
    /\ r.touched \subseteq AllFields

(* What is sent, of the row editor: the fields its operator touched.       *)
SendsTouched(r) ==
    r.st = "sent" => /\ r.kind # "delete" => IsPatch(r.patch)
                     /\ r.kind = "row" => DOMAIN r.patch \subseteq r.touched

Told == {"waiting", "settled", "closed"}

NetShape ==
    /\ table \in RowsOf /\ applied \subseteq Slots
    /\ view \in CacheOf
    /\ fetch \in FetchOf /\ (fetch.st = "read" => fetch.got \in CacheOf)
    /\ DOMAIN call = Slots /\ call = [n \in Slots |-> call[n]]
    /\ \A n \in Slots : HasShape(call[n]) /\ SendsTouched(call[n])

(* Whatever the operator was told of was applied, and a refetch that was   *)
(* read after it shows it.                                                 *)
ToldIsApplied == \A n \in Slots : call[n].st \in Told \cup {"applied"} => n \in applied
ToldIsRead == fetch.st = "read" => \A n \in Slots : call[n].st \in Told => n \in fetch.got.shows
ToldIsShown == fetch.st = "idle" => \A n \in Slots : call[n].st \in Told => n \in view.shows

NetInv == NetShape /\ ToldIsApplied /\ ToldIsRead /\ ToldIsShown

FormOf == [base : [EditFields -> Vals], now : [EditFields -> Vals], touched : SUBSET EditFields]
CellOf == [tx : Txs, value : Vals, typed : BOOLEAN, saving : BOOLEAN]

(* An editor has a row on the screen, and differs from what it began with  *)
(* in touched fields only.                                                 *)
GridInv ==
    /\ editing \in Txs \cup {None}
    /\ form # None => /\ form \in FormOf /\ editing \in Shown
                      /\ \A f \in EditFields : form.now[f] # form.base[f] => f \in form.touched
    /\ cell # None => cell \in CellOf
    /\ selected \subseteq Txs

-----------------------------------------------------------------------------
LEMMA RowFields ==
    ASSUME NEW row \in RowView
    PROVE  /\ DOMAIN row = AllFields
           /\ \A f \in AllFields : row[f] \in Vals
           /\ row.cleansed \in Vals /\ row.trntype \in Vals
           /\ editFieldsFromTx(row) \in [EditFields -> Vals]
  BY DEF RowView, AllFields, EditFields, editFieldsFromTx

LEMMA FieldsAreRow ==
    ASSUME NEW g \in [AllFields -> Vals]
    PROVE  g \in RowView
  BY DEF RowView, AllFields, EditFields

LEMMA PatchedRow ==
    ASSUME NEW row \in RowView, NEW patch, IsPatch(patch)
    PROVE  Patched(row, patch) \in RowView
<1>1. Patched(row, patch) \in [AllFields -> Vals]
  BY RowFields DEF Patched, IsPatch
<1> QED BY <1>1, FieldsAreRow

LEMMA InitHolds == ClientInit => NetInv /\ GridInv
<1> SUFFICES ASSUME ClientInit PROVE NetInv /\ GridInv
  OBVIOUS
<1>1. table \in RowsOf /\ view \in CacheOf
  BY ClientAssumption DEF ClientInit, RowsOf, CacheOf
<1>2. fetch \in FetchOf /\ fetch.st = "idle"
  BY DEF ClientInit, Fetch, FetchOf
<1>3. /\ DOMAIN call = Slots /\ call = [n \in Slots |-> call[n]]
      /\ \A n \in Slots : call[n] = Unused
  BY DEF ClientInit, Slots
<1>4. HasShape(Unused) /\ Unused.st = "unused"
  BY DEF Unused, HasShape, Stages
<1>5. \A n \in Slots : HasShape(call[n]) /\ SendsTouched(call[n])
  BY <1>3, <1>4 DEF SendsTouched
<1> QED
  BY <1>1, <1>2, <1>3, <1>4, <1>5
  DEF ClientInit, NetInv, NetShape, ToldIsApplied, ToldIsRead, ToldIsShown, Told, GridInv

-----------------------------------------------------------------------------
(* Requests and refetches.                                                 *)

LEMMA Staged ==
    ASSUME NEW r, HasShape(r), NEW s \in Stages
    PROVE  LET q == [r EXCEPT !.st = s] IN
           /\ HasShape(q) /\ q.st = s /\ q.kind = r.kind /\ q.ids = r.ids
           /\ q.patch = r.patch /\ q.touched = r.touched
           /\ s # "sent" => SendsTouched(q)
  BY DEF HasShape, SendsTouched

LEMMA NetStays ==
    ASSUME NetInv, UNCHANGED <<table, applied, view, fetch, call>>
    PROVE  NetInv'
  BY DEF NetInv, NetShape, ToldIsApplied, ToldIsRead, ToldIsShown, HasShape, SendsTouched, IsPatch

LEMMA OneRequest ==
    ASSUME NetInv, NEW n \in Slots, DOMAIN call' = Slots, call' = [m \in Slots |-> call'[m]],
           \A m \in Slots \ {n} : call'[m] = call[m],
           HasShape(call'[n]), SendsTouched(call'[n]),
           UNCHANGED <<view, fetch>>, table' \in RowsOf,
           applied \subseteq applied', applied' \subseteq Slots,
           call'[n].st \in Told \cup {"applied"} => n \in applied',
           call'[n].st \in Told => call[n].st \in Told
    PROVE  NetInv'
<1>1. \A m \in Slots : HasShape(call'[m]) /\ SendsTouched(call'[m])
  BY DEF NetInv, NetShape
<1>2. NetShape'
  BY <1>1 DEF NetInv, NetShape, HasShape, SendsTouched, IsPatch
<1>3. ToldIsApplied' /\ ToldIsRead' /\ ToldIsShown'
  BY DEF NetInv, ToldIsApplied, ToldIsRead, ToldIsShown
<1> QED BY <1>2, <1>3 DEF NetInv

LEMMA SendKeeps ==
    ASSUME NetInv, NEW kind, NEW ids \in SUBSET Txs, NEW patch, NEW touched \in SUBSET AllFields,
           kind # "delete" => IsPatch(patch), kind = "row" => DOMAIN patch \subseteq touched,
           Send(kind, ids, patch, touched), UNCHANGED <<table, applied, view, fetch>>
    PROVE  NetInv'
<1> DEFINE r == [kind |-> kind, ids |-> ids, patch |-> patch, touched |-> touched, st |-> "sent"]
<1>1. PICK n \in Under({"unused"}) : call' = [call EXCEPT ![n] = r]
  BY DEF Send
<1>2. n \in Slots
  BY DEF Under, NetInv, NetShape
<1>3. HasShape(r)
  BY ClientAssumption DEF Send, HasShape, Stages
<1>4. SendsTouched(r)
  BY DEF SendsTouched
<1>5. /\ DOMAIN call' = Slots /\ call' = [m \in Slots |-> call'[m]] /\ call'[n] = r
      /\ \A m \in Slots \ {n} : call'[m] = call[m]
  BY <1>1, <1>2 DEF NetInv, NetShape
<1>6. table \in RowsOf /\ applied \subseteq Slots
  BY DEF NetInv, NetShape
<1>7. r.st \notin Told \cup {"applied"}
  BY DEF Told
<1> QED BY <1>2, <1>3, <1>4, <1>5, <1>6, <1>7, OneRequest

(* A request goes from one stage to another.                               *)
LEMMA StageKeeps ==
    ASSUME NetInv, NEW n \in Slots, NEW s \in Stages \ {"sent"}, call' = [call EXCEPT ![n].st = s],
           UNCHANGED <<view, fetch>>, table' \in RowsOf,
           applied \subseteq applied', applied' \subseteq Slots,
           s \in Told \cup {"applied"} => n \in applied',
           s \in Told => call[n].st \in Told
    PROVE  NetInv'
<1>1. HasShape(call[n])
  BY DEF NetInv, NetShape
<1>2. /\ DOMAIN call' = Slots /\ call' = [m \in Slots |-> call'[m]] /\ call'[n] = [call[n] EXCEPT !.st = s]
      /\ \A m \in Slots \ {n} : call'[m] = call[m]
  BY DEF NetInv, NetShape
<1>3. HasShape(call'[n]) /\ SendsTouched(call'[n]) /\ call'[n].st = s
  BY <1>1, <1>2, Staged
<1> QED BY <1>2, <1>3, OneRequest

LEMMA ServeKeeps ==
    ASSUME NetInv, NEW n \in Slots, Serve(n)
    PROVE  NetInv'
<1>1. table' \in RowsOf
  <2>1. table \in RowsOf /\ HasShape(call[n]) /\ SendsTouched(call[n]) /\ call[n].st = "sent"
    BY DEF NetInv, NetShape, Serve
  <2> DEFINE here == {t \in call[n].ids : table[t] # None}
  <2>2. table' = [t \in Txs |-> IF t \notin here THEN table[t]
                               ELSE IF call[n].kind = "delete" THEN None
                               ELSE Patched(table[t], call[n].patch)]
    BY DEF Serve, Execute
  <2>3. ASSUME NEW t \in here, call[n].kind # "delete"
        PROVE  Patched(table[t], call[n].patch) \in RowView
    <3>1. table[t] \in RowView
      BY <2>1 DEF RowsOf, HasShape
    <3>2. IsPatch(call[n].patch)
      BY <2>1, <2>3 DEF SendsTouched
    <3> QED BY <3>1, <3>2, PatchedRow
  <2>4. ASSUME NEW t \in Txs PROVE table'[t] \in RowView \cup {None}
    <3>1. table[t] \in RowView \cup {None}
      BY <2>1 DEF RowsOf
    <3> QED BY <2>2, <2>3, <3>1
  <2> QED BY <2>2, <2>4 DEF RowsOf
<1>2. n \in applied' /\ applied \subseteq applied' /\ applied' \subseteq Slots
  BY DEF Serve, NetInv, NetShape
<1>3. "applied" \in Stages \ {"sent"} /\ "applied" \notin Told
  BY DEF Stages, Told
<1> QED BY <1>1, <1>2, <1>3, StageKeeps DEF Serve

LEMMA LosesKeep ==
    ASSUME NetInv, NEW n \in Slots, NotFound(n) \/ Lost(n)
    PROVE  NetInv'
<1>1. {"refused", "failed"} \subseteq Stages \ (Told \cup {"applied", "sent"})
  BY DEF Stages, Told
<1>2. table \in RowsOf /\ applied \subseteq Slots
  BY DEF NetInv, NetShape
<1> QED BY <1>1, <1>2, StageKeeps DEF NotFound, Lost, server

LEMMA EndsKeeps ==
    ASSUME NetInv, NEW n \in Slots, Ends(n)
    PROVE  NetInv'
<1>1. UNCHANGED <<table, applied, view, fetch>>
  BY DEF Ends, server, SaveEnds, CellEnds, BulkEnds, DeleteEnds, Show
<1> DEFINE s == IF call[n].st = "settled" THEN "closed" ELSE "given up"
           r == [Unused EXCEPT !.st = s]
<1>2. /\ DOMAIN call' = Slots /\ call' = [m \in Slots |-> call'[m]] /\ call'[n] = r
      /\ \A m \in Slots \ {n} : call'[m] = call[m]
  BY DEF Ends, NetInv, NetShape
<1>3. HasShape(Unused) /\ s \in Stages /\ s # "sent"
  <2>1. HasShape(Unused)
    BY DEF HasShape, Unused, Stages
  <2>2. {"closed", "given up"} \subseteq Stages
    BY DEF Stages
  <2> QED BY <2>1, <2>2
<1>4. HasShape(r) /\ SendsTouched(r) /\ r.st = s
  BY <1>3, Staged
<1>5. s \in Told \cup {"applied"} => call[n].st \in Told /\ n \in applied
  <2>1. CASE call[n].st = "settled"
    BY <2>1 DEF Told, NetInv, ToldIsApplied
  <2>2. CASE call[n].st # "settled"
    <3>1. s = "given up"
      BY <2>2
    <3> HIDE DEF s
    <3> QED BY <3>1 DEF Told
  <2> QED BY <2>1, <2>2
<1>6. table \in RowsOf /\ applied \subseteq Slots
  BY DEF NetInv, NetShape
<1>7. /\ HasShape(call'[n]) /\ SendsTouched(call'[n])
      /\ call'[n].st \in Told \cup {"applied"} => call[n].st \in Told /\ n \in applied
  BY <1>2, <1>4, <1>5
<1> HIDE DEF s, r
<1> QED BY <1>1, <1>2, <1>6, <1>7, OneRequest

(* Requests that were waiting for a refetch are over; a new one may begin  *)
(* to wait, for a refetch that is yet to be read.                          *)
LEMMA WaitersGoOn ==
    ASSUME NetInv, UNCHANGED <<table, applied>>, view' \in CacheOf, fetch' \in FetchOf,
           fetch'.st # "read", DOMAIN call' = Slots, call' = [m \in Slots |-> call'[m]],
           \A m \in Slots : \/ call'[m] = call[m]
                            \/ /\ call[m].st = "waiting"
                               /\ call'[m] = [call[m] EXCEPT !.st = "settled"]
                            \/ /\ call[m].st = "applied" /\ fetch'.st # "idle"
                               /\ call'[m] = [call[m] EXCEPT !.st = "waiting"],
           fetch'.st = "idle" => \A m \in Slots : call[m].st \in Told => m \in view'.shows
    PROVE  NetInv'
<1>1. ASSUME NEW m \in Slots
      PROVE  /\ HasShape(call'[m]) /\ SendsTouched(call'[m])
             /\ call'[m].st \in Told \cup {"applied"} => call[m].st \in Told \cup {"applied"}
             /\ call'[m].st \in Told => call[m].st \in Told \/ fetch'.st # "idle"
  <2>1. HasShape(call[m]) /\ SendsTouched(call[m])
    BY DEF NetInv, NetShape
  <2>2. {"waiting", "settled"} \subseteq Stages \ {"sent"} /\ {"waiting", "settled"} \subseteq Told
    BY DEF Stages, Told
  <2>3. CASE call'[m] = call[m]
    BY <2>1, <2>3
  <2>4. CASE call[m].st = "waiting" /\ call'[m] = [call[m] EXCEPT !.st = "settled"]
    BY <2>1, <2>2, <2>4, Staged
  <2>5. CASE /\ call[m].st = "applied" /\ fetch'.st # "idle"
             /\ call'[m] = [call[m] EXCEPT !.st = "waiting"]
    BY <2>1, <2>2, <2>5, Staged
  <2> QED BY <2>3, <2>4, <2>5
<1>2. NetShape'
  BY <1>1 DEF NetInv, NetShape, HasShape, SendsTouched, IsPatch
<1>3. ToldIsApplied'
  BY <1>1 DEF NetInv, ToldIsApplied
<1>4. ToldIsRead' /\ ToldIsShown'
  BY <1>1 DEF ToldIsRead, ToldIsShown
<1> QED BY <1>2, <1>3, <1>4 DEF NetInv

LEMMA AnsweredKeeps ==
    ASSUME NetInv, NEW n \in Slots, Replied(n)
    PROVE  NetInv'
<1>1. fetch' \in FetchOf /\ fetch'.st = "asked"
  BY DEF Replied, Invalidate, Fetch, FetchOf
<1>2. view \in CacheOf /\ DOMAIN call = Slots
  BY DEF NetInv, NetShape
<1>3. /\ DOMAIN call' = Slots /\ call' = [m \in Slots |-> call'[m]]
      /\ \A m \in Slots : \/ call'[m] = call[m]
                          \/ call[m].st = "waiting" /\ call'[m] = [call[m] EXCEPT !.st = "settled"]
                          \/ call[m].st = "applied" /\ call'[m] = [call[m] EXCEPT !.st = "waiting"]
  BY <1>2 DEF Replied, Invalidate
<1> QED BY <1>1, <1>2, <1>3, WaitersGoOn DEF Replied, server

LEMMA FetchesKeep ==
    ASSUME NetInv, Refetch \/ FetchRows \/ Land \/ FetchFails
    PROVE  NetInv'
<1>1. /\ view \in CacheOf /\ table \in RowsOf /\ applied \subseteq Slots
      /\ DOMAIN call = Slots /\ call = [m \in Slots |-> call[m]]
  BY DEF NetInv, NetShape
<1>2. ASSUME NEW m \in Slots
      PROVE  \/ Waited[m] = call[m]
             \/ call[m].st = "waiting" /\ Waited[m] = [call[m] EXCEPT !.st = "settled"]
  <2>1. m \in DOMAIN call
    BY <1>1
  <2>2. CASE call[m].st = "waiting"
    BY <2>1, <2>2 DEF Waited
  <2>3. CASE call[m].st # "waiting"
    BY <2>1, <2>3 DEF Waited
  <2> QED BY <2>2, <2>3
<1>3. DOMAIN Waited = Slots /\ Waited = [m \in Slots |-> Waited[m]]
  BY <1>1 DEF Waited
<1>4. CASE Refetch
  <2>1. fetch' \in FetchOf /\ fetch'.st = "asked"
    BY <1>4 DEF Refetch, Fetch, FetchOf
  <2> QED BY <1>1, <1>4, <2>1, WaitersGoOn DEF Refetch, server
<1>5. CASE FetchRows
  <2>1. /\ fetch' \in FetchOf /\ fetch'.st = "read" /\ fetch'.got \in CacheOf
        /\ fetch'.got.shows = applied
    BY <1>1, <1>5 DEF FetchRows, FetchOf, CacheOf
  <2>2. UNCHANGED <<table, applied, view, call>>
    BY <1>5 DEF FetchRows, server
  <2>3. NetShape'
    BY <1>1, <2>1, <2>2 DEF NetInv, NetShape, HasShape, SendsTouched, IsPatch
  <2> QED BY <2>1, <2>2, <2>3 DEF NetInv, ToldIsApplied, ToldIsRead, ToldIsShown
<1>6. CASE Land
  <2>1. /\ view' = fetch.got /\ fetch' \in FetchOf /\ fetch'.st = "idle" /\ call' = Waited
        /\ UNCHANGED <<table, applied>>
    BY <1>6 DEF Land, Show, Fetch, FetchOf, server
  <2>2. fetch.got \in CacheOf /\ \A m \in Slots : call[m].st \in Told => m \in fetch.got.shows
    BY <1>6 DEF Land, NetInv, NetShape, ToldIsRead
  <2> QED BY <1>2, <1>3, <2>1, <2>2, WaitersGoOn
<1>7. CASE FetchFails
  <2>1. /\ fetch' \in FetchOf /\ fetch'.st = "failed" /\ call' = Waited
        /\ UNCHANGED <<table, applied, view>>
    BY <1>7 DEF FetchFails, Fetch, FetchOf, server
  <2> QED BY <1>1, <1>2, <1>3, <2>1, WaitersGoOn
<1> QED BY <1>4, <1>5, <1>6, <1>7

LEMMA OthersKeep ==
    ASSUME NetInv, NEW t \in Txs,
           OtherDeletes(t) \/ \E f \in EditFields \cup {"cleansed"}, v \in Vals : OtherEdits(t, f, v)
    PROVE  NetInv'
<1>1. table \in RowsOf
  BY DEF NetInv, NetShape
<1>2. table' \in RowsOf
  <2>1. CASE OtherDeletes(t)
    BY <1>1, <2>1 DEF OtherDeletes, RowsOf
  <2>2. ASSUME NEW f \in AllFields, NEW v \in Vals, OtherEdits(t, f, v) PROVE table' \in RowsOf
    <3>1. table[t] \in RowView /\ table' = [table EXCEPT ![t] = [table[t] EXCEPT ![f] = v]]
      BY <1>1, <2>2 DEF OtherEdits, RowsOf
    <3>2. [table[t] EXCEPT ![f] = v] \in RowView
      <4>1. [table[t] EXCEPT ![f] = v] \in [AllFields -> Vals]
        BY <3>1, RowFields DEF RowView
      <4> QED BY <4>1, FieldsAreRow
    <3> QED BY <1>1, <3>1, <3>2 DEF RowsOf
  <2> QED BY <2>1, <2>2 DEF AllFields
<1>3. UNCHANGED <<applied, view, fetch, call>>
  BY DEF OtherDeletes, OtherEdits
<1> QED
  BY <1>2, <1>3 DEF NetInv, NetShape, ToldIsApplied, ToldIsRead, ToldIsShown, HasShape, SendsTouched, IsPatch

-----------------------------------------------------------------------------
(* The screen.                                                             *)

LEMMA VisibleRows ==
    ASSUME NEW c \in CacheOf, NEW f
    PROVE  /\ Visible(c, f) \subseteq Txs
           /\ \A t \in Visible(c, f) : c.rows[t] \in RowView
  BY DEF Visible, CacheOf, RowsOf

(* An editor that opens has nothing typed; one that stays keeps its text.  *)
LEMMA ShowKeeps ==
    ASSUME GridInv, NEW e \in Txs \cup {None}, NEW c \in CacheOf, NEW f, Show(e, c, f),
           selected' \subseteq Txs
    PROVE  GridInv'
<1>1. editing' = e /\ view' = c /\ filter' = f /\ form' = Reseed(e, c, f)
  BY DEF Show
<1>2. Shown' = Visible(c, f)
  BY <1>1 DEF Shown
<1>3. ASSUME form' # None
      PROVE  /\ form' \in FormOf /\ editing' \in Shown'
             /\ \A g \in EditFields : form'.now[g] # form'.base[g] => g \in form'.touched
  <2>1. CASE e = editing /\ e \in Shown /\ e \in Visible(c, f)
    <3>1. form' = form
      BY <1>1, <2>1 DEF Reseed
    <3> QED BY <1>1, <1>2, <1>3, <2>1, <3>1 DEF GridInv
  <2>2. CASE ~(e = editing /\ e \in Shown /\ e \in Visible(c, f))
    <3>1. form' = Seeded(e, c, f)
      BY <1>1, <2>2 DEF Reseed
    <3>2. e \in Visible(c, f)
      BY <1>3, <3>1 DEF Seeded
    <3>3. c.rows[e] \in RowView
      BY <3>2, VisibleRows
    <3>4. editFieldsFromTx(c.rows[e]) \in [EditFields -> Vals]
      BY <3>3, RowFields
    <3>5. form' = [base |-> editFieldsFromTx(c.rows[e]), now |-> editFieldsFromTx(c.rows[e]),
                   touched |-> {}]
      BY <3>1, <3>2 DEF Seeded
    <3> QED BY <1>1, <1>2, <3>2, <3>4, <3>5 DEF FormOf
  <2> QED BY <2>1, <2>2
<1>4. cell' # None => cell' \in CellOf
  BY DEF Show, GridInv
<1> QED BY <1>1, <1>3, <1>4 DEF GridInv

LEMMA GridStays ==
    ASSUME GridInv, UNCHANGED <<editing, form, cell, view, filter>>, selected' \subseteq Txs
    PROVE  GridInv'
  BY DEF GridInv, Shown, Visible

ClientInv == NetInv /\ GridInv /\ SelectionTracksDeletes

(* What Show leaves alone of the requests.                                 *)
LEMMA ShowsSame ==
    ASSUME ClientInv, NEW e \in Txs \cup {None}, NEW f, Show(e, view, f),
           UNCHANGED <<table, applied, fetch, call>>, selected' \subseteq Txs,
           SelectionTracksDeletes'
    PROVE  ClientInv'
<1>1. view' = view /\ view \in CacheOf
  BY DEF Show, ClientInv, NetInv, NetShape
<1> QED BY <1>1, NetStays, ShowKeeps DEF ClientInv

LEMMA SelectionStays ==
    ASSUME SelectionTracksDeletes, UNCHANGED <<selected, claims>>
    PROVE  SelectionTracksDeletes'
  BY DEF SelectionTracksDeletes

(* Only the requests and the server move.                                  *)
LEMMA NetMoves ==
    ASSUME ClientInv, NetInv', UNCHANGED <<editing, form, cell, view, filter, selected, claims>>
    PROVE  ClientInv'
  BY GridStays, SelectionStays DEF ClientInv, GridInv

LEMMA EditorSteps ==
    ASSUME ClientInv,
           \/ \E t \in Txs : StartEdit(t)
           \/ \E f \in EditFields, v \in Vals : Type(f, v)
           \/ Cancel \/ Escape
           \/ \E f \in Filters \cup {None} : SetFilter(f)
    PROVE  ClientInv'
<1>1. editing \in Txs \cup {None} /\ selected \subseteq Txs
  BY DEF ClientInv, GridInv
<1>2. ASSUME NEW t \in Txs, StartEdit(t) PROVE ClientInv'
  BY <1>1, <1>2, ShowsSame, SelectionStays DEF StartEdit, server, ClientInv
<1>3. ASSUME NEW f \in EditFields, NEW v \in Vals, Type(f, v) PROVE ClientInv'
  <2>1. form \in FormOf /\ editing \in Shown
    BY <1>3 DEF Type, ClientInv, GridInv
  <2>2. /\ form' \in FormOf
        /\ \A g \in EditFields : form'.now[g] # form'.base[g] => g \in form'.touched
    BY <1>3, <2>1 DEF Type, FormOf, ClientInv, GridInv
  <2>3. GridInv'
    BY <1>3, <2>1, <2>2 DEF Type, ClientInv, GridInv, Shown, Visible
  <2> QED BY <1>3, <2>3, NetStays, SelectionStays DEF Type, server, ClientInv
<1>4. CASE Cancel
  BY <1>1, <1>4, ShowsSame, SelectionStays DEF Cancel, server, ClientInv
<1>5. CASE Escape
  <2>1. SelectionTracksDeletes'
    BY <1>5 DEF Escape, SelectionTracksDeletes
  <2> QED BY <1>5, <2>1, ShowsSame DEF Escape, server
<1>6. ASSUME NEW f, SetFilter(f) PROVE ClientInv'
  BY <1>1, <1>6, ShowsSame, SelectionStays DEF SetFilter, server, ClientInv
<1> QED BY <1>2, <1>3, <1>4, <1>5, <1>6

LEMMA CommitSteps == ASSUME ClientInv, commitEdit PROVE ClientInv'
<1> DEFINE patch == buildRowEditPatch(view.rows[editing], form.now, form.base)
<1>1. /\ form \in FormOf /\ editing \in Shown /\ selected \subseteq Txs
      /\ \A f \in EditFields : form.now[f] # form.base[f] => f \in form.touched
  BY DEF commitEdit, ClientInv, GridInv
<1>2. editing \in Txs
  BY <1>1 DEF Shown, Visible
<1>3. CASE DOMAIN patch = {}
  BY <1>1, <1>3, ShowsSame, SelectionStays DEF commitEdit, server, ClientInv
<1>4. CASE DOMAIN patch # {}
  <2>1. /\ Send("row", {editing}, patch, form.touched)
        /\ UNCHANGED <<table, applied, fetch, editing, form, cell, view, filter, selected, claims>>
    BY <1>4 DEF commitEdit, server
  <2>2. IsPatch(patch) /\ DOMAIN patch \subseteq form.touched
    BY <1>1 DEF buildRowEditPatch, IsPatch, FormOf, AllFields
  <2>3. form.touched \subseteq AllFields
    BY <1>1 DEF FormOf, AllFields
  <2> HIDE DEF patch
  <2>4. NetInv'
    BY <1>2, <2>1, <2>2, <2>3, SendKeeps DEF ClientInv
  <2> QED BY <2>1, <2>4, NetMoves
<1> QED BY <1>3, <1>4

LEMMA CellSteps ==
    ASSUME ClientInv,
           \/ \E t \in Txs : OpenCell(t)
           \/ \E v \in Vals : TypeCell(v)
           \/ commitCell \/ EscapeCell
    PROVE  ClientInv'
<1>1. /\ UNCHANGED <<table, applied, view, fetch, editing, form, filter, selected, claims>>
      /\ view \in CacheOf /\ selected \subseteq Txs
  BY DEF OpenCell, TypeCell, commitCell, EscapeCell, server, ClientInv, NetInv, NetShape, GridInv
<1>2. cell' # None => cell' \in CellOf
  <2>1. ASSUME NEW t \in Txs, OpenCell(t) PROVE cell' \in CellOf
    <3>1. view.rows[t].cleansed \in Vals
      BY <1>1, <2>1, VisibleRows, RowFields DEF OpenCell, Shown
    <3> QED BY <2>1, <3>1 DEF OpenCell, CellOf
  <2>2. ASSUME NEW v \in Vals, TypeCell(v) PROVE cell' \in CellOf
    BY <2>2 DEF TypeCell, CellOf, ClientInv, GridInv
  <2>3. CASE commitCell
    BY <2>3 DEF commitCell, CellOf, ClientInv, GridInv
  <2>4. CASE EscapeCell
    BY <2>4 DEF EscapeCell
  <2> QED BY <2>1, <2>2, <2>3, <2>4
<1>3. GridInv'
  BY <1>1, <1>2 DEF ClientInv, GridInv, Shown, Visible
<1>4. NetInv'
  <2>1. CASE UNCHANGED call
    BY <1>1, <2>1, NetStays DEF ClientInv
  <2>2. ASSUME commitCell, ~UNCHANGED call PROVE NetInv'
    <3>1. cell \in CellOf /\ Send("cell", {cell.tx}, [cleansed |-> cell.value],
                                  IF cell.typed THEN {"cleansed"} ELSE {})
      BY <2>2 DEF commitCell, ClientInv, GridInv
    <3>2. cell.tx \in Txs /\ IsPatch([cleansed |-> cell.value])
      BY <3>1 DEF CellOf, IsPatch, AllFields
    <3>3. (IF cell.typed THEN {"cleansed"} ELSE {}) \in SUBSET AllFields
      BY DEF AllFields
    <3> QED BY <1>1, <3>1, <3>2, <3>3, SendKeeps DEF ClientInv
  <2> QED BY <2>1, <2>2 DEF OpenCell, TypeCell, EscapeCell
<1> QED BY <1>1, <1>3, <1>4, SelectionStays DEF ClientInv

LEMMA SelectSteps ==
    ASSUME ClientInv,
           \/ toggleSelectOne \/ toggleSelectAll
           \/ \E v \in Vals : onBulkSave(v)
           \/ CloseDialog \/ onConfirm
           \/ \E kind, ids : AskDelete(kind, ids)
           \/ \E t \in Txs : deleteNext(t)
    PROVE  ClientInv'
<1>1. view \in CacheOf /\ selected \subseteq Txs /\ Shown \subseteq Txs
  BY VisibleRows DEF ClientInv, NetInv, NetShape, GridInv, Shown
<1>2. ASSUME NEW s \in SUBSET Txs, Select(s) PROVE ClientInv'
  <2>1. SelectionTracksDeletes'
    BY <1>2 DEF Select, ClientInv, SelectionTracksDeletes
  <2> QED BY <1>2, <2>1, NetStays, GridStays DEF Select, server, ClientInv
<1>3. ASSUME NEW v \in Vals, onBulkSave(v) PROVE ClientInv'
  <2>1. IsPatch([trntype |-> v]) /\ {"trntype"} \in SUBSET AllFields
    BY DEF IsPatch, AllFields, EditFields
  <2>2. NetInv'
    BY <1>1, <1>3, <2>1, SendKeeps DEF onBulkSave, server, ClientInv
  <2> QED BY <1>3, <2>2, NetMoves DEF onBulkSave, grid
<1>4. ASSUME NEW t \in Txs, deleteNext(t) PROVE ClientInv'
  <2>1. NetInv'
    <3>1. Send("delete", {t}, <<>>, {}) /\ UNCHANGED <<table, applied, view, fetch>>
      BY <1>4 DEF deleteNext, server
    <3>2. {t} \in SUBSET Txs /\ {} \in SUBSET AllFields
      OBVIOUS
    <3> QED BY <3>1, <3>2, SendKeeps DEF ClientInv
  <2> QED BY <1>4, <2>1, NetMoves DEF deleteNext, grid
<1>5. ASSUME CloseDialog \/ onConfirm \/ \E kind, ids : AskDelete(kind, ids) PROVE ClientInv'
  <2>1. NetInv'
    BY <1>5, NetStays DEF CloseDialog, onConfirm, AskDelete, server, ClientInv
  <2> QED BY <1>5, <2>1, NetMoves DEF CloseDialog, onConfirm, AskDelete
<1>6. ASSUME toggleSelectOne \/ toggleSelectAll PROVE \E s \in SUBSET Txs : Select(s)
  BY <1>1, <1>6 DEF toggleSelectOne, toggleSelectAll
<1> QED BY <1>2, <1>3, <1>4, <1>5, <1>6

(* A request that ends: only a deletion that went through, or found        *)
(* nothing in a bulk run, takes its row out of the selection.              *)
LEMMA EndsSteps == ASSUME ClientInv, NEW n \in Slots, Ends(n) PROVE ClientInv'
<1>1. NetInv'
  BY EndsKeeps DEF ClientInv
<1>2. /\ editing \in Txs \cup {None} /\ selected \subseteq Txs /\ view \in CacheOf
      /\ UNCHANGED <<table, applied, fetch>>
  BY DEF ClientInv, NetInv, NetShape, GridInv, Ends, server
<1>3. CASE SaveEnds(n)
  <2>1. \E e \in Txs \cup {None} : Show(e, view, filter)
    BY <1>2, <1>3 DEF SaveEnds, ClosedBy
  <2>2. GridInv'
    BY <1>2, <1>3, <2>1, ShowKeeps DEF SaveEnds, ClientInv
  <2> QED BY <1>1, <1>3, <2>2, SelectionStays DEF SaveEnds, ClientInv
<1>4. CASE CellEnds(n)
  <2>1. GridInv'
    BY <1>4 DEF CellEnds, ClientInv, GridInv, Shown, Visible
  <2> QED BY <1>1, <1>4, <2>1, SelectionStays DEF CellEnds, ClientInv
<1>5. CASE BulkEnds(n)
  <2>1. selected' \subseteq selected
    BY <1>5 DEF BulkEnds
  <2>2. SelectionTracksDeletes'
    BY <1>5, <2>1 DEF BulkEnds, ClientInv, SelectionTracksDeletes
  <2> QED BY <1>1, <1>2, <1>5, <2>1, <2>2, GridStays DEF BulkEnds, ClientInv
<1>6. CASE DeleteEnds(n)
  <2> DEFINE gone == call[n].st = "settled" \/ (run.bulk /\ call[n].st = "refused")
  <2>1. /\ selected' = IF gone THEN selected \ call[n].ids ELSE selected
        /\ claims' = [t \in Txs |->
                        CASE t \notin call[n].ids -> claims[t]
                          [] t \in call[n].ids /\ gone -> "gone"
                          [] OTHER -> IF run.bulk /\ t \in selected THEN "failed" ELSE claims[t]]
    BY <1>6 DEF DeleteEnds, deselect
  <2>2. ASSUME NEW t \in Txs
        PROVE  (claims'[t] = "gone" => t \notin selected') /\ (claims'[t] = "failed" => t \in selected')
    <3>1. (claims[t] = "gone" => t \notin selected) /\ (claims[t] = "failed" => t \in selected)
      BY DEF ClientInv, SelectionTracksDeletes
    <3> HIDE DEF gone
    <3>2. CASE t \notin call[n].ids
      <4>1. claims'[t] = claims[t]
        BY <2>1, <3>2
      <4> QED BY <2>1, <3>1, <3>2, <4>1
    <3>3. CASE t \in call[n].ids /\ gone
      <4>1. claims'[t] = "gone"
        BY <2>1, <3>3
      <4> QED BY <2>1, <3>3, <4>1
    <3>4. CASE t \in call[n].ids /\ ~gone
      <4>1. claims'[t] = IF run.bulk /\ t \in selected THEN "failed" ELSE claims[t]
        BY <2>1, <3>4
      <4> QED BY <2>1, <3>1, <3>4, <4>1
    <3> QED BY <3>2, <3>3, <3>4
  <2>3. SelectionTracksDeletes'
    BY <2>2 DEF SelectionTracksDeletes
  <2>4. selected' \subseteq Txs
    BY <1>2, <2>1
  <2> QED BY <1>1, <1>6, <2>3, <2>4, GridStays DEF DeleteEnds, ClientInv
<1> QED BY <1>3, <1>4, <1>5, <1>6 DEF Ends

LEMMA LandSteps == ASSUME ClientInv, Land PROVE ClientInv'
<1>1. NetInv'
  BY FetchesKeep DEF ClientInv
<1>2. /\ fetch.got \in CacheOf /\ editing \in Txs \cup {None} /\ selected' = selected
      /\ selected \subseteq Txs /\ Show(editing, fetch.got, filter)
  BY DEF Land, ClientInv, NetInv, NetShape, GridInv
<1>3. GridInv'
  BY <1>2, ShowKeeps DEF ClientInv
<1> QED BY <1>1, <1>3, SelectionStays DEF Land, ClientInv

LEMMA ClientStep == ASSUME ClientInv, [ClientNext]_clientVars PROVE ClientInv'
<1>1. DOMAIN call = Slots
  BY DEF ClientInv, NetInv, NetShape
<1>2. ASSUME NEW n \in Slots, Replied(n) \/ Serve(n) \/ NotFound(n) \/ Lost(n) PROVE ClientInv'
  <2>1. NetInv'
    BY <1>2, AnsweredKeeps, ServeKeeps, LosesKeep DEF ClientInv
  <2> QED BY <1>2, <2>1, NetMoves DEF Replied, Serve, NotFound, Lost, grid
<1>3. ASSUME Refetch \/ FetchRows \/ FetchFails PROVE ClientInv'
  <2>1. NetInv'
    BY <1>3, FetchesKeep DEF ClientInv
  <2> QED BY <1>3, <2>1, NetMoves DEF Refetch, FetchRows, FetchFails, grid
<1>4. ASSUME NEW t \in Txs,
             OtherDeletes(t) \/ \E f \in EditFields \cup {"cleansed"}, v \in Vals : OtherEdits(t, f, v)
      PROVE  ClientInv'
  <2>1. NetInv'
    BY <1>4, OthersKeep DEF ClientInv
  <2> QED BY <1>4, <2>1, NetMoves DEF OtherDeletes, OtherEdits, grid
<1>5. CASE UNCHANGED clientVars
  <2>1. NetInv'
    BY <1>5, NetStays DEF ClientInv, clientVars
  <2> QED BY <1>5, <2>1, NetMoves DEF clientVars
<1> QED
  BY <1>1, <1>2, <1>3, <1>4, <1>5, EditorSteps, CommitSteps, CellSteps, SelectSteps, EndsSteps, LandSteps
  DEF ClientNext

(* The invariant of the tab: what it has told its operator of is in the    *)
(* database, and, unless a refetch is under way, in the cached rows        *)
(* (the mutations of useStatementsList.ts); an open editor has the text it *)
(* was seeded with in the fields its operator left alone, and the selected *)
(* rows are what the last delete run left (TransactionGrid.tsx).           *)
THEOREM ClientInvariant == ClientSpec => []ClientInv
<1>1. ClientInit => ClientInv
  BY InitHolds DEF ClientInit, ClientInv, SelectionTracksDeletes
<1>2. ClientInv /\ [ClientNext]_clientVars => ClientInv'
  BY ClientStep
<1> QED BY <1>1, <1>2, PTL DEF ClientSpec

(* Once no refetch is under way the tab shows every change it has told its *)
(* operator of: invalidateQueries cancels the refetch it finds, so the one *)
(* a mutation waits for was read after the mutation (useStatementsList.ts).*)
THEOREM OwnEditsAreShown == ClientSpec => []OwnEditsShown
<1>1. ClientInv => OwnEditsShown
  BY DEF ClientInv, NetInv, NetShape, ToldIsShown, Told, OwnEditsShown, Under
<1> QED BY <1>1, ClientInvariant, PTL

(* deleteRowsEach takes a row that is gone out of the selection and leaves *)
(* one that failed in it for the retry, whatever the operator selects,     *)
(* saves or closes meanwhile (TransactionGrid.tsx).                        *)
THEOREM SelectionFollowsDeletes == ClientSpec => []SelectionTracksDeletes
<1>1. ClientInv => SelectionTracksDeletes
  BY DEF ClientInv
<1> QED BY <1>1, ClientInvariant, PTL

-----------------------------------------------------------------------------
(* The row editor.                                                         *)

(* The server takes a request from sent to applied, nothing else does.     *)
LEMMA OnlyServed ==
    ASSUME NetInv, [ClientNext]_clientVars, NEW n \in Slots, call[n].st = "sent", call'[n].st = "applied"
    PROVE  Serve(n)
<1>1. DOMAIN call = Slots /\ HasShape(call[n])
  BY DEF NetInv, NetShape
<1>2. ASSUME NEW kind, NEW ids, NEW patch, NEW touched, Send(kind, ids, patch, touched) PROVE FALSE
  <2>1. call'[n] = call[n] \/ call'[n].st = "sent"
    BY <1>1, <1>2 DEF Send, Under
  <2> QED BY <2>1
<1>3. ASSUME NEW m \in Slots, Replied(m) PROVE FALSE
  BY <1>1, <1>3 DEF Replied, Invalidate, HasShape
<1>4. ASSUME NEW m \in Slots, Ends(m) PROVE FALSE
  <2>1. call'[n] = call[n] \/ call'[n].st \in {"closed", "given up"}
    BY <1>1, <1>4 DEF Ends, Unused
  <2> QED BY <2>1
<1>5. ASSUME NEW m \in Slots, Serve(m) PROVE m = n
  BY <1>1, <1>5 DEF Serve
<1>6. ASSUME NEW m \in Slots, NotFound(m) \/ Lost(m) PROVE FALSE
  BY <1>1, <1>6 DEF NotFound, Lost, HasShape
<1>7. ASSUME call' = Waited PROVE FALSE
  BY <1>1, <1>7 DEF Waited
<1>8. ASSUME UNCHANGED call PROVE FALSE
  BY <1>8
<1>9. Slots = DOMAIN call
  BY <1>1
<1> QED
  BY <1>2, <1>3, <1>4, <1>5, <1>6, <1>7, <1>8, <1>9
  DEF ClientNext, StartEdit, OpenCell, deleteNext, AskDelete, Type, Cancel, Escape, commitEdit, TypeCell,
      onBulkSave, commitCell, EscapeCell, SetFilter, toggleSelectOne, toggleSelectAll, Select,
      CloseDialog, onConfirm, OtherEdits, OtherDeletes, Refetch, FetchRows, Land, FetchFails, clientVars

LEMMA SavesTouched ==
    ASSUME NetInv, [ClientNext]_clientVars, NEW n \in DOMAIN call, call[n].kind = "row", call[n].st = "sent",
           call'[n].st = "applied", NEW t \in call[n].ids, NEW f \in EditFields, table'[t][f] # table[t][f]
    PROVE  f \in call[n].touched
<1>1. n \in Slots /\ HasShape(call[n]) /\ SendsTouched(call[n]) /\ table \in RowsOf
  BY DEF NetInv, NetShape
<1>2. t \in Txs /\ IsPatch(call[n].patch) /\ DOMAIN call[n].patch \subseteq call[n].touched
  BY <1>1 DEF HasShape, SendsTouched
<1>3. Serve(n)
  BY <1>1, OnlyServed
<1>4. table'[t] = IF table[t] = None THEN table[t] ELSE Patched(table[t], call[n].patch)
  BY <1>2, <1>3 DEF Serve, Execute
<1>5. table[t] # None /\ table[t] \in RowView
  BY <1>1, <1>2, <1>4 DEF RowsOf
<1>6. f \in DOMAIN table[t]
  BY <1>5, RowFields DEF AllFields
<1>7. table'[t][f] = IF f \in DOMAIN call[n].patch THEN call[n].patch[f] ELSE table[t][f]
  BY <1>4, <1>5, <1>6 DEF Patched
<1> QED BY <1>2, <1>7

(* An editor that stays where it is keeps its text.                        *)
LEMMA ShowSpares ==
    ASSUME GridInv, NEW c, NEW f, Show(editing, c, f), form # None, form' # form
    PROVE  editing \notin Visible(view', filter')
<1>1. editing \in Shown
  BY DEF GridInv
<1>2. view' = c /\ filter' = f /\ form' = Reseed(editing, c, f)
  BY DEF Show
<1>3. editing \in Visible(c, f) => form' = form
  BY <1>1, <1>2 DEF Reseed
<1> QED BY <1>2, <1>3

LEMMA KeepsText ==
    ASSUME ClientInv, [ClientNext]_clientVars, form # None, form' # form
    PROVE  \/ call' = call /\ view' = view
           \/ editing \notin Visible(view', filter')
           \/ \E n \in DOMAIN call : /\ call[n].kind = "row" /\ editing \in call[n].ids
                                     /\ call[n].st = "settled" /\ call'[n].st = "closed"
<1>1. GridInv /\ DOMAIN call = Slots /\ call = [n \in Slots |-> call[n]]
  BY DEF ClientInv, NetInv, NetShape
<1>2. ASSUME NEW n \in Slots, Ends(n)
      PROVE  \/ editing \notin Visible(view', filter')
             \/ /\ call[n].kind = "row" /\ editing \in call[n].ids
                /\ call[n].st = "settled" /\ call'[n].st = "closed"
  <2>1. SaveEnds(n)
    BY <1>2 DEF Ends, CellEnds, BulkEnds, DeleteEnds
  <2>2. CASE call[n].st = "settled" /\ editing \in call[n].ids
    <3>1. call'[n].st = "closed"
      BY <1>1, <1>2, <2>2 DEF Ends, Unused
    <3> QED BY <2>1, <2>2, <3>1 DEF SaveEnds
  <2>3. CASE ~(call[n].st = "settled" /\ editing \in call[n].ids)
    <3>1. Show(editing, view, filter)
      BY <2>1, <2>3 DEF SaveEnds, ClosedBy
    <3> QED BY <1>1, <3>1, ShowSpares
  <2> QED BY <2>2, <2>3
<1>3. CASE Land
  <2>1. Show(editing, fetch.got, filter)
    BY <1>3 DEF Land
  <2> QED BY <1>1, <2>1, ShowSpares
<1>4. CASE commitEdit
  BY <1>4 DEF commitEdit, Show
<1>5. ASSUME \/ \E t \in Txs : StartEdit(t)
             \/ \E f \in EditFields, v \in Vals : Type(f, v)
             \/ Cancel \/ Escape
             \/ \E f \in Filters \cup {None} : SetFilter(f)
      PROVE  call' = call /\ view' = view
  BY <1>5 DEF StartEdit, Type, Cancel, Escape, SetFilter, Show
<1>6. ASSUME UNCHANGED form PROVE FALSE
  BY <1>6
<1> QED
  BY <1>1, <1>2, <1>3, <1>4, <1>5, <1>6
  DEF ClientNext, OpenCell, deleteNext, AskDelete, TypeCell, onBulkSave, commitCell, EscapeCell,
      toggleSelectOne, toggleSelectAll, Select, CloseDialog, onConfirm, Replied, Serve, NotFound, Lost,
      OtherEdits, OtherDeletes, Refetch, FetchRows, FetchFails, clientVars, grid

(* A save of the row editor changes no field its operator left alone, and  *)
(* no refetch, other row's save, cell or bulk edit takes away what he has  *)
(* typed (buildRowEditPatch and the effects of EditableRow,                *)
(* TransactionGrid.tsx).                                                   *)
THEOREM EditorsAreFaithful == ClientSpec => EditorIsFaithful
<1>1. ClientInv /\ [ClientNext]_clientVars =>
        [\A n \in DOMAIN call :
           (call[n].kind = "row" /\ call[n].st = "sent" /\ call'[n].st = "applied")
           => \A t \in call[n].ids, f \in EditFields :
                  table'[t][f] # table[t][f] => f \in call[n].touched]_clientVars
  BY SavesTouched DEF ClientInv
<1>2. ClientInv /\ [ClientNext]_clientVars =>
        [(form # None /\ form' # form)
         => \/ call' = call /\ view' = view
            \/ editing \notin Visible(view', filter')
            \/ \E n \in DOMAIN call : /\ call[n].kind = "row" /\ editing \in call[n].ids
                                      /\ call[n].st = "settled" /\ call'[n].st = "closed"]_clientVars
  BY KeepsText
<1>3. ClientSpec => NoStaleOverwrite
  BY <1>1, ClientInvariant, PTL DEF ClientSpec, NoStaleOverwrite
<1>4. ClientSpec => EditorKept
  BY <1>2, ClientInvariant, PTL DEF ClientSpec, EditorKept
<1> QED BY <1>3, <1>4 DEF EditorIsFaithful
=============================================================================
