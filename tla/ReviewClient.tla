---------------------------- MODULE ReviewClient ----------------------------
(***************************************************************************)
(* One browser tab on the review page of a statement: the cached rows      *)
(* (useStatement), the row editor, an inline cell and the selection of     *)
(* TransactionGrid, and the requests the tab has under way.  The API       *)
(* applies a request in one step (ReviewGate takes that step apart); other *)
(* operators change rows beside the tab, and replies and refetches arrive  *)
(* when they like.                                                         *)
(***************************************************************************)
EXTENDS Naturals

CONSTANTS
    Txs,            \* transactions of the statement
    None,           \* no row, no editor, no cell
    Vals,           \* the values a field may have
    Extracted,      \* rows as the extraction may have left them
    Filters,        \* the TRNTYPE filters the operator tries; None is "all"
    ClientKinds,    \* the kinds of request the operator makes
    MaxCalls,       \* bound: requests of the tab
    MaxTyped,       \* bound: keystrokes and clicks that change local state only
    MaxOthers       \* bound: changes by other operators, reconnects, faults

EditFields == {"description", "trntype"}
RowView == [description : Vals, trntype : Vals, cleansed : Vals]

ASSUME ClientAssumption ==
    /\ None \notin Txs \cup Vals /\ Extracted \subseteq RowView
    /\ Filters \subseteq Vals \cup {None}
    /\ ClientKinds \subseteq {"row", "cell", "bulk", "delete"}
    /\ MaxCalls \in Nat /\ MaxTyped \in Nat /\ MaxOthers \in Nat

VARIABLES
    table,          \* the rows in the database; None once deleted
    applied,        \* requests of this tab the server has carried out
    view,           \* what the tab shows: the rows and the requests they reflect
    fetch,          \* the refetch of the cache that is under way
    editing,        \* editingId
    form,           \* the row editor: seedRef, the fields, those the operator touched
    cell,           \* the CleansedCell or PayeeCell that is open
    filter,
    selected,       \* selectedIds
    dialog,         \* pendingDelete
    run,            \* the delete run; None unless deleteBusy
    claims,         \* what the last delete run said of a row the operator left alone
    call,           \* the requests of the tab
    used            \* bounds used up

clientVars == <<table, applied, view, fetch, editing, form, cell, filter,
               selected, dialog, run, claims, call, used>>
server == <<table, applied>>
grid == <<editing, form, cell, filter, selected, dialog, run, claims>>

Unused == [kind |-> "row", ids |-> {}, patch |-> <<>>, touched |-> {}, st |-> "unused"]
Fetch(st) == [st |-> st, got |-> None]

ClientInit ==
    /\ table \in [Txs -> Extracted]
    /\ applied = {}
    /\ view = [rows |-> table, shows |-> {}]
    /\ fetch = Fetch("idle")
    /\ editing = None /\ form = None /\ cell = None /\ filter = None
    /\ selected = {} /\ dialog = None /\ run = None
    /\ claims = [t \in Txs |-> "none"]
    /\ call = [n \in 1..MaxCalls |-> Unused]
    /\ used = [typed |-> 0, others |-> 0]

Spend(what, bound) ==
    /\ used[what] < bound
    /\ used' = [used EXCEPT ![what] = @ + 1]

-----------------------------------------------------------------------------
(* What is on the screen. *)

Visible(c, f) == {t \in Txs : c.rows[t] # None /\ f \in {None, c.rows[t].trntype}}
Shown == Visible(view, filter)

editFieldsFromTx(row) == [f \in EditFields |-> row[f]]

\* The state of a row's editor when its component mounts or leaves edit mode.
Seeded(e, c, f) ==
    IF e \in Visible(c, f)
    THEN [base |-> editFieldsFromTx(c.rows[e]), now |-> editFieldsFromTx(c.rows[e]), touched |-> {}]
    ELSE None

\* The re-seeding effect: an editor that stays open on a row that stays on the
\* screen keeps its text; every other one starts from the row.
Reseed(e, c, f) ==
    IF e = editing /\ e \in Shown /\ e \in Visible(c, f) THEN form ELSE Seeded(e, c, f)

\* The screen after a change of the editor, the cache or the filter.
Show(e, c, f) ==
    /\ editing' = e /\ view' = c /\ filter' = f
    /\ form' = Reseed(e, c, f)
    /\ cell' = IF cell # None /\ cell.tx \notin Visible(c, f) THEN None ELSE cell

-----------------------------------------------------------------------------
(* Requests. *)

Under(st) == {n \in DOMAIN call : call[n].st \in st}
Send(kind, ids, patch, touched) ==
    /\ kind \in ClientKinds
    /\ \E n \in Under({"unused"}) :
        /\ \A m \in Under({"unused"}) : n <= m
        /\ call' = [call EXCEPT ![n] = [kind |-> kind, ids |-> ids, patch |-> patch,
                                        touched |-> touched, st |-> "sent"]]

\* Mutant: a refetch that is already under way is taken for the new one.
JoinFetch(n) ==
    /\ fetch' = IF fetch.st \in {"asked", "read"} THEN fetch ELSE Fetch("asked")
    /\ call' = [call EXCEPT ![n].st = "waiting"]

\* invalidateQueries: a refetch under way is cancelled, which lets those who
\* waited for it go on, and a new one starts.
Invalidate(n) ==
    /\ fetch' = Fetch("asked")
    /\ call' = [m \in DOMAIN call |->
                 CASE m = n -> [call[m] EXCEPT !.st = "waiting"]
                   [] m # n /\ call[m].st = "waiting" -> [call[m] EXCEPT !.st = "settled"]
                   [] OTHER -> call[m]]

Replied(n) ==
    /\ call[n].st = "applied"
    /\ Invalidate(n)
    /\ UNCHANGED <<server, view, grid, used>>

-----------------------------------------------------------------------------
(* The row editor. *)

StartEdit(t) ==
    /\ t \in Shown /\ t # editing
    /\ Spend("typed", MaxTyped)
    /\ Show(t, view, filter)
    /\ UNCHANGED <<server, fetch, selected, dialog, run, claims, call>>

Type(f, v) ==
    /\ form # None /\ v # form.now[f]
    /\ Spend("typed", MaxTyped)
    /\ form' = [form EXCEPT !.now[f] = v, !.touched = @ \cup {f}]
    /\ UNCHANGED <<server, view, fetch, editing, cell, filter, selected, dialog, run, claims, call>>

Cancel ==
    /\ form # None
    /\ Show(None, view, filter)
    /\ UNCHANGED <<server, fetch, selected, dialog, run, claims, call, used>>

\* The Esc hot-key closes the editor and empties the selection; it also closes
\* the delete dialog, whose run goes on.
Escape ==
    /\ editing # None \/ selected # {} \/ dialog # None
    /\ Show(None, view, filter)
    /\ selected' = {} /\ dialog' = None
    /\ claims' = [t \in Txs |-> "none"]
    /\ UNCHANGED <<server, fetch, run, call, used>>

\* Mutant: whatever differs from the row is sent.
PatchByRow(tx, now, base) == [f \in {f \in EditFields : now[f] # tx[f]} |-> now[f]]

\* The fields to send: those the operator changed from the seed that also
\* differ from the row.
buildRowEditPatch(tx, now, base) ==
    [f \in {f \in EditFields : now[f] # base[f] /\ now[f] # tx[f]} |-> now[f]]

\* Save, the `s` hot-key, or focus leaving the row with auto-save on.
commitEdit ==
    /\ form # None
    /\ LET patch == buildRowEditPatch(view.rows[editing], form.now, form.base) IN
        IF DOMAIN patch = {}
        THEN Show(None, view, filter) /\ UNCHANGED call
        ELSE /\ Send("row", {editing}, patch, form.touched)
             /\ UNCHANGED <<editing, form, cell, view, filter>>
    /\ UNCHANGED <<server, fetch, selected, dialog, run, claims, used>>

\* Mutant: it closes whichever editor is open.
CloseAny(n) == None

\* A save that went through closes the editor of its own row only.
ClosedBy(n) == IF editing \in call[n].ids THEN None ELSE editing

SaveEnds(n) ==
    /\ call[n].kind = "row"
    /\ Show(IF call[n].st = "settled" THEN ClosedBy(n) ELSE editing, view, filter)
    /\ UNCHANGED <<selected, dialog, run, claims>>

-----------------------------------------------------------------------------
(* The inline Cleansed and Payee cells: one is open at a time. *)

OpenCell(t) ==
    /\ t \in Shown /\ cell = None /\ "cell" \in ClientKinds
    /\ Spend("typed", MaxTyped)
    /\ cell' = [tx |-> t, value |-> view.rows[t].cleansed, typed |-> FALSE, saving |-> FALSE]
    /\ UNCHANGED <<server, view, fetch, editing, form, filter, selected, dialog, run, claims, call>>

TypeCell(v) ==
    /\ cell # None /\ ~cell.saving /\ v # cell.value
    /\ Spend("typed", MaxTyped)
    /\ cell' = [cell EXCEPT !.value = v, !.typed = TRUE]
    /\ UNCHANGED <<server, view, fetch, editing, form, filter, selected, dialog, run, claims, call>>

\* Blur or Enter commits what differs from the row as it is now shown.
commitCell ==
    /\ cell # None /\ ~cell.saving
    /\ IF cell.value = view.rows[cell.tx].cleansed
       THEN cell' = None /\ UNCHANGED call
       ELSE /\ cell' = [cell EXCEPT !.saving = TRUE]
            /\ Send("cell", {cell.tx}, [cleansed |-> cell.value],
                    IF cell.typed THEN {"cleansed"} ELSE {})
    /\ UNCHANGED <<server, view, fetch, editing, form, filter, selected, dialog, run, claims, used>>

EscapeCell ==
    /\ cell # None /\ ~cell.saving
    /\ cell' = None
    /\ UNCHANGED <<server, view, fetch, editing, form, filter, selected, dialog, run, claims, call, used>>

\* The cell closes whether or not its save went through; the row's editor stays.
CellEnds(n) ==
    /\ call[n].kind = "cell"
    /\ cell' = IF cell # None /\ cell.saving /\ cell.tx \in call[n].ids THEN None ELSE cell
    /\ UNCHANGED <<view, editing, form, filter, selected, dialog, run, claims>>

-----------------------------------------------------------------------------
(* The filter, the selection and what is done to the selected rows. *)

SetFilter(f) ==
    /\ f \in Filters \cup {None} /\ f # filter /\ dialog = None
    /\ Spend("typed", MaxTyped)
    /\ Show(editing, view, f)
    /\ UNCHANGED <<server, fetch, selected, dialog, run, claims, call>>

Select(s) ==
    /\ Spend("typed", MaxTyped)
    /\ selected' = s
    /\ claims' = [t \in Txs |-> IF (t \in s) = (t \in selected) THEN claims[t] ELSE "none"]
    /\ UNCHANGED <<server, view, fetch, editing, form, cell, filter, dialog, run, call>>

toggleSelectOne == \E t \in Shown : Select(IF t \in selected THEN selected \ {t} ELSE selected \cup {t})
toggleSelectAll == dialog = None /\ Shown # {} /\ Select(IF Shown \subseteq selected THEN {} ELSE Shown)

\* "Apply": one PATCH for every selected row.
onBulkSave(v) ==
    /\ selected # {} /\ dialog = None
    /\ Send("bulk", selected, [trntype |-> v], {"trntype"})
    /\ UNCHANGED <<server, view, fetch, grid, used>>

BulkEnds(n) ==
    /\ call[n].kind = "bulk"
    /\ selected' = IF call[n].st = "settled" THEN {} ELSE selected
    /\ claims' = [t \in Txs |-> IF t \in selected' \/ t \notin selected THEN claims[t] ELSE "none"]
    /\ UNCHANGED <<view, editing, form, cell, filter, dialog, run>>

\* "Delete selected" or the cross of one row, then the dialog.
AskDelete(kind, ids) ==
    /\ dialog = None /\ ids # {} /\ "delete" \in ClientKinds
    /\ Spend("typed", MaxTyped)
    /\ dialog' = [kind |-> kind, ids |-> ids]
    /\ UNCHANGED <<server, view, fetch, editing, form, cell, filter, selected, run, claims, call>>

\* Cancel, a click beside the dialog: a run that has begun goes on.
CloseDialog ==
    /\ dialog # None
    /\ dialog' = None
    /\ UNCHANGED <<server, view, fetch, editing, form, cell, filter, selected, run, claims, call, used>>

onConfirm ==
    /\ dialog # None /\ run = None
    /\ run' = [ids |-> dialog.ids, left |-> dialog.ids, bulk |-> dialog.kind = "bulk"]
    /\ UNCHANGED <<server, view, fetch, editing, form, cell, filter, selected, dialog, claims, call, used>>

\* deleteRowsEach: one row after the other.
deleteNext(t) ==
    /\ run # None /\ t \in run.left
    /\ \A n \in DOMAIN call : call[n].kind = "delete" => call[n].st \in {"unused", "closed", "given up"}
    /\ Send("delete", {t}, <<>>, {})
    /\ UNCHANGED <<server, view, fetch, grid, used>>

\* Mutant: the selection is computed from the one the run began with.
DeselectFromRun(ids) == run.ids \ ids

deselect(ids) == selected \ ids

\* A deletion comes back.  In a bulk run a row that was not found counts as
\* gone; deleting one row, it is an error, which leaves the dialog open.
DeleteEnds(n) ==
    LET gone == call[n].st = "settled" \/ (run.bulk /\ call[n].st = "refused")
        rest == run.left \ call[n].ids IN
    /\ call[n].kind = "delete"
    /\ selected' = IF gone THEN deselect(call[n].ids) ELSE selected
    /\ claims' = [t \in Txs |->
                    CASE t \notin call[n].ids -> claims[t]
                      [] t \in call[n].ids /\ gone -> "gone"
                      [] OTHER -> IF run.bulk /\ t \in selected THEN "failed" ELSE claims[t]]
    /\ run' = IF rest = {} THEN None ELSE [run EXCEPT !.left = rest]
    /\ dialog' = IF rest = {} /\ (run.bulk \/ gone) THEN None ELSE dialog
    /\ UNCHANGED <<view, editing, form, cell, filter>>

\* The mutation resolves once its refetch is over, or throws.
Ends(n) ==
    /\ call[n].st \in {"settled", "refused", "failed"}
    /\ SaveEnds(n) \/ CellEnds(n) \/ BulkEnds(n) \/ DeleteEnds(n)
    /\ call' = [call EXCEPT ![n] = [Unused EXCEPT !.st = IF call[n].st = "settled" THEN "closed" ELSE "given up"]]
    /\ UNCHANGED <<server, fetch, used>>

-----------------------------------------------------------------------------
(* The server and the other operators. *)

Patched(row, patch) == [f \in DOMAIN row |-> IF f \in DOMAIN patch THEN patch[f] ELSE row[f]]

\* PATCH of one row or of several, DELETE of one: a single row that is gone is
\* a 404, a row of a bulk edit that is gone is passed over.
Execute(n) ==
    LET r == call[n]
        here == {t \in r.ids : table[t] # None} IN
    /\ r.kind = "bulk" \/ here # {}
    /\ table' = [t \in Txs |->
                  IF t \notin here THEN table[t]
                  ELSE IF r.kind = "delete" THEN None ELSE Patched(table[t], r.patch)]

Serve(n) ==
    /\ call[n].st = "sent"
    /\ Execute(n)
    /\ applied' = applied \cup {n}
    /\ call' = [call EXCEPT ![n].st = "applied"]
    /\ UNCHANGED <<view, fetch, grid, used>>

NotFound(n) ==
    /\ call[n].st = "sent" /\ call[n].kind \in {"row", "cell", "delete"}
    /\ \A t \in call[n].ids : table[t] = None
    /\ call' = [call EXCEPT ![n].st = "refused"]
    /\ UNCHANGED <<server, view, fetch, grid, used>>

\* The request or its answer is lost.
Lost(n) ==
    /\ call[n].st \in {"sent", "applied"}
    /\ Spend("others", MaxOthers)
    /\ call' = [call EXCEPT ![n].st = "failed"]
    /\ UNCHANGED <<server, view, fetch, grid>>

\* Another operator, or an enrichment batch that writes a cleansed description.
OtherEdits(t, f, v) ==
    /\ table[t] # None /\ table[t][f] # v
    /\ Spend("others", MaxOthers)
    /\ table' = [table EXCEPT ![t][f] = v]
    /\ UNCHANGED <<applied, view, fetch, grid, call>>

OtherDeletes(t) ==
    /\ table[t] # None
    /\ Spend("others", MaxOthers)
    /\ table' = [table EXCEPT ![t] = None]
    /\ UNCHANGED <<applied, view, fetch, grid, call>>

-----------------------------------------------------------------------------
(* The cached query. *)

\* A remount or a reconnect refetches what has gone stale.
Refetch ==
    /\ fetch.st \in {"idle", "failed"}
    /\ Spend("others", MaxOthers)
    /\ fetch' = Fetch("asked")
    /\ UNCHANGED <<server, view, grid, call>>

FetchRows ==
    /\ fetch.st = "asked"
    /\ fetch' = [st |-> "read", got |-> [rows |-> table, shows |-> applied]]
    /\ UNCHANGED <<server, view, grid, call, used>>

Waited == [n \in DOMAIN call |-> IF call[n].st = "waiting" THEN [call[n] EXCEPT !.st = "settled"] ELSE call[n]]

Land ==
    /\ fetch.st = "read"
    /\ Show(editing, fetch.got, filter)
    /\ fetch' = Fetch("idle")
    /\ call' = Waited
    /\ UNCHANGED <<server, selected, dialog, run, claims, used>>

FetchFails ==
    /\ fetch.st \in {"asked", "read"}
    /\ Spend("others", MaxOthers)
    /\ fetch' = Fetch("failed")
    /\ call' = Waited
    /\ UNCHANGED <<server, view, grid>>

ClientNext ==
    \/ \E t \in Txs : StartEdit(t) \/ OpenCell(t) \/ deleteNext(t) \/ (t \in Shown /\ AskDelete("one", {t}))
    \/ \E f \in EditFields, v \in Vals : Type(f, v)
    \/ Cancel \/ Escape \/ commitEdit
    \/ \E v \in Vals : TypeCell(v) \/ onBulkSave(v)
    \/ commitCell \/ EscapeCell
    \/ \E f \in Filters \cup {None} : SetFilter(f)
    \/ toggleSelectOne \/ toggleSelectAll
    \/ AskDelete("bulk", selected) \/ CloseDialog \/ onConfirm
    \/ \E n \in DOMAIN call : Replied(n) \/ Ends(n) \/ Serve(n) \/ NotFound(n) \/ Lost(n)
    \/ \E t \in Txs, f \in EditFields \cup {"cleansed"}, v \in Vals : OtherEdits(t, f, v)
    \/ \E t \in Txs : OtherDeletes(t)
    \/ Refetch \/ FetchRows \/ Land \/ FetchFails

ClientSpec == ClientInit /\ [][ClientNext]_clientVars

-----------------------------------------------------------------------------
(* Properties. *)

\* A save of the row editor changes no field its operator did not touch, though
\* the row was changed elsewhere and refetched while the editor was open ("saving
\* one field can never write a stale value back over another").
NoStaleOverwrite ==
    [][\A n \in DOMAIN call :
         (call[n].kind = "row" /\ call[n].st = "sent" /\ call'[n].st = "applied")
         => \A t \in call[n].ids, f \in EditFields :
                table'[t][f] # table[t][f] => f \in call[n].touched]_clientVars

\* What the operator has typed in an open row editor is dropped by his own
\* doing, by the save of that very row, or with the row: no refetch, late save
\* of another row, cell or bulk request takes it away.
EditorKept ==
    [][(form # None /\ form' # form)
       => \/ call' = call /\ view' = view
          \/ editing \notin Visible(view', filter')
          \/ \E n \in DOMAIN call : /\ call[n].kind = "row" /\ editing \in call[n].ids
                                    /\ call[n].st = "settled" /\ call'[n].st = "closed"]_clientVars

\* The row editor writes what its operator typed, and only he takes it away.
EditorIsFaithful == NoStaleOverwrite /\ EditorKept

\* Once the refetches have come to rest, the tab shows every change of its own
\* that it told the operator of: a refetch that was read before the change never
\* stands for the one the change asked for.
OwnEditsShown ==
    fetch.st = "idle" => \A n \in Under({"settled", "closed"}) : n \in view.shows

\* A row whose deletion went through, or was not found, is out of the selection,
\* and one whose deletion failed is still in it for the retry, until the operator
\* selects otherwise.
SelectionTracksDeletes ==
    \A t \in Txs : /\ claims[t] = "gone" => t \notin selected
                   /\ claims[t] = "failed" => t \in selected

=============================================================================
