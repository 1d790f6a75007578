-------------------------- MODULE EnrichmentProofs --------------------------
(***************************************************************************)
(* Proofs about Enrichment: whatever runs side by side and however a run   *)
(* ends, what it was charged is on the statement's ledger or in its hands, *)
(* but for what a call threw away and what the database refused to book,   *)
(* and none is charged past the cap; while no admin saves settings under a *)
(* run the cache replays an answer only for what made it; while nobody     *)
(* edits under an enrichment, what was typed stays.                        *)
(***************************************************************************)
EXTENDS Enrichment, FiniteFacts

-----------------------------------------------------------------------------
\* The sums of the model, in the two forms it has them.
Charges(f) == SumOf(f, Passes)
Costs(p) == MapThenSumSet(LAMBDA e : p[e].cost, Passes)

LEMMA ChargesAddUp ==
    ASSUME IsFiniteSet(Passes), NEW f, \A e \in Passes : f[e] \in Int
    PROVE  \E it : Adds(it, f, Passes) /\ Charges(f) = it[Passes]
BY SumAddsUp DEF Charges

LEMMA CostsAddUp ==
    ASSUME IsFiniteSet(Passes), NEW p, \A e \in Passes : p[e].cost \in Int,
           NEW f, f = [e \in Passes |-> p[e].cost]
    PROVE  \E it : Adds(it, f, Passes) /\ Costs(p) = it[Passes]
<1> DEFINE body(it) == [s \in SUBSET Passes |-> IF s = {} THEN 0
                             ELSE LET x == CHOOSE x \in s : TRUE IN p[x].cost + it[s \ {x}]]
           it == CHOOSE it : it = body(it)
<1>s. \A s \in SUBSET Passes : s # {} => f[Some(s)] = p[Some(s)].cost
  BY DEF Some
<1>1. PICK g : g = body(g)
  <2>1. PICK h : Adds(h, f, Passes)
    BY SumExists
  <2> DEFINE g == [s \in SUBSET Passes |-> h[s]]
  <2>2. \A s \in SUBSET Passes :
           g[s] = IF s = {} THEN 0 ELSE LET x == CHOOSE x \in s : TRUE IN p[x].cost + g[s \ {x}]
    BY <1>s, <2>1 DEF Adds, Some
  <2>3. g = [s \in SUBSET Passes |-> g[s]]
    OBVIOUS
  <2> HIDE DEF g
  <2>4. g = body(g)
    BY <2>2, <2>3
  <2> QED BY <2>4
<1>2. it = body(it)
  <2> HIDE DEF body
  <2> QED BY <1>1
<1>3. Costs(p) = it[Passes]
  BY DEF Costs, MapThenSumSet, MapThenFoldSet
<1> HIDE DEF it
<1>4. ASSUME NEW s \in SUBSET Passes
      PROVE  it[s] = IF s = {} THEN 0 ELSE f[Some(s)] + it[s \ {Some(s)}]
  BY <1>2, <1>s DEF Some
<1>5. Adds(it, f, Passes)
  BY <1>4 DEF Adds
<1> QED BY <1>3, <1>5

\* One run's costs and charges change, and the books stay balanced if they do.
LEMMA BooksBalance ==
    ASSUME NEW e \in Passes, NEW p, NEW q, NEW c, NEW d, NEW l \in Int, NEW m \in Int,
           \A k \in Passes : p[k].cost \in Int /\ q[k].cost \in Int /\ c[k] \in Int /\ d[k] \in Int,
           \A k \in Passes : k # e => q[k].cost = p[k].cost /\ d[k] = c[k],
           l + Costs(p) = Charges(c), m + q[e].cost + c[e] = l + p[e].cost + d[e]
    PROVE  m + Costs(q) = Charges(d)
<1>0. IsFiniteSet(Passes)
  BY EnrichmentAssumption
<1>1. PICK f : f = [k \in Passes |-> p[k].cost]
  OBVIOUS
<1>2. PICK g : g = [k \in Passes |-> q[k].cost]
  OBVIOUS
<1>3. PICK a : Adds(a, f, Passes) /\ Costs(p) = a[Passes]
  BY <1>0, <1>1, CostsAddUp
<1>4. PICK b : Adds(b, g, Passes) /\ Costs(q) = b[Passes]
  BY <1>0, <1>2, CostsAddUp
<1>5. PICK x : Adds(x, c, Passes) /\ Charges(c) = x[Passes]
  BY <1>0, ChargesAddUp
<1>6. PICK y : Adds(y, d, Passes) /\ Charges(d) = y[Passes]
  BY <1>0, ChargesAddUp
<1>7. /\ \A k \in Passes : f[k] \in Int /\ g[k] \in Int /\ (k # e => g[k] = f[k])
      /\ f[e] = p[e].cost /\ g[e] = q[e].cost
  BY <1>1, <1>2
<1>c. \A k \in Passes : c[k] \in Int /\ d[k] \in Int /\ (k # e => d[k] = c[k])
  OBVIOUS
<1>8. Passes \in SUBSET Passes
  OBVIOUS
<1>9. Follows(Passes, a, b, e, f, g)
  <2>1. \A k \in Passes : f[k] \in Int /\ g[k] \in Int /\ (k # e => g[k] = f[k])
    BY <1>7
  <2> QED BY <1>0, <1>3, <1>4, <2>1, SumChange
<1>10. Follows(Passes, x, y, e, c, d)
  BY <1>0, <1>5, <1>6, <1>c, SumChange
<1>11. f[e] \in Int /\ g[e] \in Int /\ c[e] \in Int /\ d[e] \in Int
  BY <1>7
<1> QED BY <1>3, <1>4, <1>5, <1>6, <1>7, <1>c, <1>9, <1>10, <1>11 DEF Follows

-----------------------------------------------------------------------------
(* What the runs hold of the books, the rows and the settings.             *)

RowFields == {"there", "payee", "text", "cat", "by", "enrichmentUserEdited", "userEdited"}
PassFields == {"pc", "wish", "cats", "todo", "payees", "version", "got", "left", "proc",
               "built", "cost"}

\* The run has its rows and not yet ended ...
Holding == {"version", "lookup", "build", "cap", "call", "keep", "apply"}
EnrichPc == {"toggles", "rows", "catch"} \cup Holding
CheckPc == {"checks", "local", "store", "text", "textcap", "read", "book", "stamp"}

\* ... or has no answers yet ...
Blank == {"idle", "toggles", "rows", "version", "lookup"}

\* ... or is where it may have made a charge that is not booked yet.
Charged == {"build", "cap", "call", "keep", "apply", "catch", "book"}

\* The rows of a run were edited by nobody, and it answers for no others.
HandsOff(p) ==
    p.pc \in Holding =>
        /\ \A r \in p.todo : r \in Rows /\ ~line[r].enrichmentUserEdited
        /\ p.left \subseteq p.todo /\ DOMAIN p.got \subseteq p.todo

\* What the label of a process says its answers are made by.
Maker(proc) == ByModel(Label(settings.llm, proc).model, settings.prompt)

AuthorOf(p) ==
    ByModel(IF p.built.model = NoModel THEN Router ELSE p.built.model, p.version.prompt)

\* The answer of a row that only its description shaped, and its parts so far.
Cleansed(p, r) ==
    /\ DOMAIN p.got[r] = {"text", "cat", "by"}
    /\ r \in p.payees \/ p.got[r].text = Maker("cleanse")

Second(p) == p.proc = "category" /\ "cleanse" \in p.wish

Honest(p) ==
    /\ p.pc \in {"lookup", "build", "cap", "call", "keep"} =>
          p.version = cacheVersionFor(p.wish, p.cats)
    /\ p.pc \in {"build", "cap", "call"} =>
          /\ p.proc \in p.wish
          /\ Second(p) => p.left \subseteq DOMAIN p.got /\ \A r \in p.left : Cleansed(p, r)
          /\ ~Second(p) => p.left \cap DOMAIN p.got = {}
    /\ p.pc \in {"cap", "call"} => AuthorOf(p) = Maker(p.proc)
    /\ p.pc = "keep" =>
          \A r \in p.left \cap DOMAIN p.got :
             /\ "cleanse" \in p.wish => r \in p.payees \/ p.got[r].text = Maker("cleanse")
             /\ "category" \in p.wish => p.got[r].by = Maker("category")

PassOK(p) ==
    /\ DOMAIN p = PassFields
    /\ p.pc \in {"idle", "over"} \cup EnrichPc \cup CheckPc
    /\ p.cost \in Nat /\ (p.pc \notin Charged => p.cost = 0)
    /\ p.pc \in Blank => DOMAIN p.got = {} /\ p.left = {}
    /\ p.wish \subseteq EnrichProc /\ (p.pc \in EnrichPc => p.wish # {})
    /\ ~EditMidRun => HandsOff(p)
    /\ ~ChangeMidRun => Honest(p)

\* A run that began past the cap is charged nothing.
CappedOK(e) ==
    /\ ledger >= Cap /\ spent[e] = 0
    /\ pass[e].pc \in {"call", "read"} => pass[e].built.provider # "anthropic"

\* What nobody books: the call threw it away or the database refused it.
LostShape == [thrown : Nat, refused : Nat]
Gone(l) == l.thrown + l.refused

\* SpendIsBooked in terms of these sums.
Booked == ledger + Gone(lost) + Costs(pass) = Charges(spent)

EnrichInv ==
    /\ DOMAIN line = Rows /\ \A r \in Rows : DOMAIN line[r] = RowFields
    /\ settings \in Configs /\ edits \in Nat /\ ledger \in Nat /\ spent \in [Passes -> Nat]
    /\ lost \in LostShape
    /\ DOMAIN pass = Passes /\ \A e \in Passes : PassOK(pass[e])
    /\ \A e \in Passes : pass[e].pc = "idle" => spent[e] = 0
    /\ capped \subseteq Passes /\ \A e \in capped : CappedOK(e)
    /\ Booked
    /\ ~ChangeMidRun => CacheIsHonest

\* A provider that was built answers under the label of its process.
LEMMA LabelIsBuilt ==
    ASSUME NEW cfg \in Settings, NEW proc \in EnrichProc, NEW built,
           built = buildProviderForProcess(cfg, proc), built # CannotBuild
    PROVE  Label(cfg, proc).model = IF built.model = NoModel THEN Router ELSE built.model
<1> DEFINE id == ProviderOf(cfg, proc)
           own == processModelForProvider(cfg.model[proc], id)
<1>1. id \in ProviderId
  BY DEF ProviderOf, Settings, Process, EnrichProc, ProviderId, providerOrderFor,
         resolveProviderPolicy, Resolved, Policy, Unset
<1>2. \A p \in ProviderId : resolveModelLabelForProvider(cfg, p) # NoModel
  BY ProvidersAssumption DEF resolveModelLabelForProvider, Resolved, Settings, Models
<1> HIDE DEF id, own
<1>3. CASE resolveAiMode(cfg) = "router"
  <2>1. built = RouterProvider
    BY <1>3 DEF buildProviderForProcess, constructRouter
  <2> QED BY <1>3, <2>1 DEF Label, RouterProvider
<1>4. CASE resolveAiMode(cfg) # "router" /\ id = "local"
  <2>1. built = constructLocal(cfg, proc, own)
    BY <1>4 DEF buildProviderForProcess, id, own
  <2>2. proc # "extraction"
    BY DEF EnrichProc
  <2>3. built.model = IF own # NoModel THEN own ELSE resolveModelLabelForProvider(cfg, "local")
    BY <2>1, <2>2 DEF constructLocal
  <2>4. Label(cfg, proc).model =
           IF own # NoModel THEN own ELSE resolveModelLabelForProvider(cfg, id)
    BY <1>4 DEF Label, resolveProcessLabel, id, own
  <2> QED BY <1>2, <1>4, <2>3, <2>4 DEF ProviderId
<1>5. CASE resolveAiMode(cfg) # "router" /\ id # "local"
  <2>1. id = "anthropic"
    BY <1>1, <1>5 DEF ProviderId
  <2>2. built = constructAnthropic(cfg, own)
    BY <1>5 DEF buildProviderForProcess, id, own
  <2>3. built.model =
           IF own # NoModel THEN own ELSE resolveModelLabelForProvider(cfg, "anthropic")
    BY <2>2 DEF constructAnthropic
  <2>4. Label(cfg, proc).model =
           IF own # NoModel THEN own ELSE resolveModelLabelForProvider(cfg, id)
    BY <1>5 DEF Label, resolveProcessLabel, id, own
  <2> QED BY <1>2, <2>1, <2>3, <2>4 DEF ProviderId
<1> QED BY <1>3, <1>4, <1>5

\* The settings and the rows' marks are as they were.
SameWorld ==
    /\ settings' = settings
    /\ DOMAIN line' = Rows /\ \A r \in Rows : DOMAIN line'[r] = RowFields
    /\ \A r \in Rows : line'[r].enrichmentUserEdited = line[r].enrichmentUserEdited

LEMMA RunKeeps ==
    ASSUME NEW p, PassOK(p), SameWorld
    PROVE  PassOK(p)'
<1>1. HandsOff(p) => HandsOff(p)'
  BY DEF HandsOff, SameWorld
<1>2. Honest(p) => Honest(p)'
  <2>1. settings' = settings
    BY DEF SameWorld
  <2> QED BY <2>1 DEF Honest, cacheVersionFor, Cleansed, Maker, Second, AuthorOf
<1> QED BY <1>1, <1>2 DEF PassOK

\* A step of one run: what it charges is in its hands or on the ledger.
LEMMA Works ==
    ASSUME EnrichInv, NEW e \in Passes, NEW p, NEW n \in Nat, NEW m \in Nat, NEW h \in LostShape,
           pass' = [pass EXCEPT ![e] = p], spent' = [spent EXCEPT ![e] = n], ledger' = m,
           lost' = h, m >= ledger,
           m + Gone(h) + p.cost + spent[e] = n + ledger + Gone(lost) + pass[e].cost,
           SameWorld, edits' = edits, PassOK(p), p.pc # "idle",
           capped' \subseteq capped \cup {e},
           e \in capped' => /\ m >= Cap /\ n = 0
                            /\ p.pc \in {"call", "read"} => p.built.provider # "anthropic",
           ~ChangeMidRun => CacheIsHonest'
    PROVE  EnrichInv'
<1>1. /\ DOMAIN line' = Rows /\ \A r \in Rows : DOMAIN line'[r] = RowFields
      /\ settings' \in Configs /\ edits' \in Nat /\ ledger' \in Nat /\ lost' \in LostShape
  BY DEF EnrichInv, SameWorld
<1>2. spent' \in [Passes -> Nat]
  BY DEF EnrichInv
<1>3. /\ DOMAIN pass' = Passes
      /\ pass'[e] = p /\ \A q \in Passes : q # e => pass'[q] = pass[q]
      /\ spent'[e] = n /\ \A q \in Passes : q # e => spent'[q] = spent[q]
  BY DEF EnrichInv
<1>4. ASSUME NEW q \in Passes PROVE PassOK(pass[q])'
  <2>1. CASE q = e
    <3>1. PassOK(p)'
      BY RunKeeps
    <3> QED BY <1>3, <2>1, <3>1
  <2>2. CASE q # e
    <3>1. PICK o : o = pass[q]
      OBVIOUS
    <3>2. PassOK(o)
      BY <3>1 DEF EnrichInv
    <3>3. PassOK(o)'
      BY <3>2, RunKeeps
    <3>4. pass'[q] = o
      BY <1>3, <2>2, <3>1
    <3> QED BY <3>3, <3>4
  <2> QED BY <2>1, <2>2
<1>5. \A q \in Passes : pass'[q].pc = "idle" => spent'[q] = 0
  BY <1>3 DEF EnrichInv
<1>6. capped' \subseteq Passes /\ \A q \in capped' : CappedOK(q)'
  <2>1. capped' \subseteq Passes
    BY DEF EnrichInv
  <2>2. ASSUME NEW q \in capped' PROVE CappedOK(q)'
    <3>1. CASE q = e
      BY <1>3, <2>2, <3>1 DEF CappedOK
    <3>2. CASE q # e
      <4>1. q \in capped /\ q \in Passes
        BY <2>1, <2>2, <3>2
      <4>2. ledger >= Cap /\ Cap \in Nat /\ ledger \in Nat /\ spent[q] = 0
        BY <4>1, EnrichmentAssumption DEF EnrichInv, CappedOK
      <4>3. ledger' >= Cap /\ spent'[q] = 0
        BY <1>3, <3>2, <4>1, <4>2
      <4>4. pass'[q].pc \in {"call", "read"} => pass'[q].built.provider # "anthropic"
        BY <1>3, <3>2, <4>1 DEF EnrichInv, CappedOK
      <4> QED BY <4>3, <4>4 DEF CappedOK
    <3> QED BY <3>1, <3>2
  <2> QED BY <2>1, <2>2
<1>7. Booked'
  <2>1. PICK P, Q, c, d : P = pass /\ Q = pass' /\ c = spent /\ d = spent'
    OBVIOUS
  <2>g. Gone(lost) \in Nat /\ Gone(h) \in Nat
    BY DEF EnrichInv, LostShape, Gone
  <2>2. PICK l \in Nat : l = ledger + Gone(lost)
    BY <2>g DEF EnrichInv
  <2>b. PICK b \in Nat : b = m + Gone(h)
    BY <2>g
  <2>3. l + Costs(P) = Charges(c)
    <3>1. ledger + Gone(lost) + Costs(pass) = Charges(spent)
      BY DEF EnrichInv, Booked
    <3> QED BY <2>1, <2>2, <3>1
  <2>4. p.cost \in Nat /\ \A k \in Passes : P[k].cost \in Nat
    BY <2>1 DEF EnrichInv, PassOK
  <2>5. \A k \in Passes : c[k] \in Nat /\ d[k] \in Nat
    BY <1>2, <2>1 DEF EnrichInv
  <2>6. Q[e] = p /\ d[e] = n /\ \A k \in Passes : k # e => Q[k] = P[k] /\ d[k] = c[k]
    BY <1>3, <2>1
  <2>7. \A k \in Passes : P[k].cost \in Int /\ Q[k].cost \in Int /\ c[k] \in Int /\ d[k] \in Int
    <3>1. \A k \in Passes : Q[k].cost \in Nat
      BY <2>4, <2>6
    <3> QED BY <2>4, <2>5, <3>1
  <2>8. \A k \in Passes : k # e => Q[k].cost = P[k].cost /\ d[k] = c[k]
    BY <2>6
  <2>9. b + Q[e].cost + c[e] = l + P[e].cost + d[e]
    <3>1. b + Q[e].cost + c[e] = n + l + P[e].cost
      <4>1. ledger \in Nat
        BY DEF EnrichInv
      <4> QED BY <2>1, <2>2, <2>6, <2>b, <2>g, <4>1
    <3>2. l \in Int /\ P[e].cost \in Int /\ n \in Int /\ d[e] = n
      BY <2>6, <2>7
    <3> QED BY <3>1, <3>2
  <2>10. l \in Int /\ b \in Int
    OBVIOUS
  <2>11. b + Costs(Q) = Charges(d)
    BY <2>3, <2>7, <2>8, <2>9, <2>10, BooksBalance
  <2>12. ledger' + Gone(lost') + Costs(pass') = Charges(spent')
    BY <2>1, <2>11, <2>b
  <2> QED BY <2>12 DEF Booked
<1> QED BY <1>1, <1>2, <1>3, <1>4, <1>5, <1>6, <1>7 DEF EnrichInv

LEMMA BookedIsBooked == ASSUME EnrichInv PROVE SpendIsBooked
<1>1. Recorded = ledger + Costs(pass) /\ Spent = Charges(spent)
  BY DEF Recorded, Spent, Costs, Charges, SumOf
<1>2. Costs(pass) \in Int
  <2>1. PICK P : P = pass
    OBVIOUS
  <2>2. \A e \in Passes : P[e].cost \in Int
    BY <2>1 DEF EnrichInv, PassOK
  <2>3. IsFiniteSet(Passes)
    BY EnrichmentAssumption
  <2>4. PICK f : f = [e \in Passes |-> P[e].cost]
    OBVIOUS
  <2>5. PICK it : Adds(it, f, Passes) /\ Costs(P) = it[Passes]
    BY <2>2, <2>3, <2>4, CostsAddUp
  <2>6. \A e \in Passes : f[e] \in Int
    BY <2>2, <2>4
  <2>7. Passes \in SUBSET Passes
    OBVIOUS
  <2>8. it[Passes] \in Int
    BY <2>3, <2>5, <2>6, <2>7, AddsIsSum
  <2> QED BY <2>1, <2>5, <2>8
<1>3. ledger \in Nat /\ lost.thrown \in Nat /\ lost.refused \in Nat
  BY DEF EnrichInv, LostShape
<1> QED BY <1>1, <1>2, <1>3 DEF EnrichInv, Booked, Gone, SpendIsBooked

-----------------------------------------------------------------------------
(* The steps of an enrichment.                                             *)

\* A step of one run that charges and books nothing.
LEMMA Moves ==
    ASSUME EnrichInv, NEW e \in Passes, NEW p, pass' = [pass EXCEPT ![e] = p],
           UNCHANGED <<line, ledger, spent, lost, capped, settings, edits>>,
           ~ChangeMidRun => CacheIsHonest',
           PassOK(p), p.pc # "idle", p.cost = pass[e].cost,
           e \in capped /\ p.pc \in {"call", "read"} => p.built.provider # "anthropic"
    PROVE  EnrichInv'
<1>1. PICK n \in Nat : n = spent[e]
  BY DEF EnrichInv
<1>2. PICK m \in Nat : m = ledger
  BY DEF EnrichInv
<1>3. spent' = [spent EXCEPT ![e] = n]
  BY <1>1 DEF EnrichInv
<1>4. ledger' = m /\ m >= ledger /\ p.cost \in Nat /\ pass[e].cost \in Nat /\ spent[e] \in Nat
  BY <1>2 DEF EnrichInv, PassOK
<1>h. PICK h \in LostShape : h = lost /\ Gone(h) \in Nat
  BY DEF EnrichInv, LostShape, Gone
<1>5. m + Gone(h) + p.cost + spent[e] = n + ledger + Gone(lost) + pass[e].cost
  BY <1>1, <1>2, <1>4, <1>h
<1>6. SameWorld
  BY DEF SameWorld, EnrichInv
<1>7. capped' \subseteq capped \cup {e}
  OBVIOUS
<1>8. e \in capped' => /\ m >= Cap /\ n = 0
                       /\ p.pc \in {"call", "read"} => p.built.provider # "anthropic"
  BY <1>1, <1>2 DEF EnrichInv, CappedOK
<1>9. lost' = h
  BY <1>h
<1> QED BY <1>3, <1>4, <1>5, <1>6, <1>7, <1>8, <1>9, Works

LEMMA CacheStays ==
    ASSUME EnrichInv, redis' = redis
    PROVE  ~ChangeMidRun => CacheIsHonest'
BY DEF EnrichInv, CacheIsHonest

\* What is known of the run that steps.
LEMMA AtHand ==
    ASSUME EnrichInv, NEW e \in Passes
    PROVE  \E o : o = pass[e] /\ PassOK(o) /\ DOMAIN o = PassFields
BY DEF EnrichInv, PassOK

LEMMA OverIsOK ==
    ASSUME NEW p, p = [NewPass EXCEPT !.pc = "over"]
    PROVE  PassOK(p) /\ p.pc = "over" /\ p.cost = 0
<1>1. DOMAIN p = PassFields /\ p.pc = "over" /\ p.cost = 0 /\ p.wish = {}
  BY DEF NewPass, PassFields
<1>2. HandsOff(p) /\ Honest(p)
  BY <1>1 DEF HandsOff, Honest, Holding
<1> QED BY <1>1, <1>2 DEF PassOK, EnrichPc, CheckPc, Holding, Charged, Blank

LEMMA EndsHere ==
    ASSUME EnrichInv, NEW e \in Passes, Over(e), pass[e].cost = 0,
           UNCHANGED <<line, redis, ledger, spent, lost, capped, settings, edits>>
    PROVE  EnrichInv'
<1>1. PICK p : p = [NewPass EXCEPT !.pc = "over"]
  OBVIOUS
<1>2. pass' = [pass EXCEPT ![e] = p]
  BY <1>1 DEF Over, SetPass
<1>3. PassOK(p) /\ p.pc # "idle" /\ p.cost = pass[e].cost /\ ~ (p.pc \in {"call", "read"})
  BY <1>1, OverIsOK
<1>4. ~ChangeMidRun => CacheIsHonest'
  BY CacheStays
<1> QED BY <1>2, <1>3, <1>4, Moves

\* A step that leaves the books and the cache alone, by its new record.
LEMMA Quiet ==
    ASSUME EnrichInv, NEW e \in Passes, NEW p, pass' = [pass EXCEPT ![e] = p],
           UNCHANGED <<line, redis, ledger, spent, lost, capped, settings, edits>>,
           PassOK(p), p.pc # "idle", p.cost = pass[e].cost,
           e \in capped /\ p.pc \in {"call", "read"} => p.built.provider # "anthropic"
    PROVE  EnrichInv'
<1>1. ~ChangeMidRun => CacheIsHonest'
  BY CacheStays
<1> QED BY <1>1, Moves

LEMMA ReadTogglesKeeps ==
    ASSUME EnrichInv, NEW e \in Passes, ReadToggles(e)
    PROVE  EnrichInv'
<1>1. PICK o : o = pass[e] /\ PassOK(o) /\ DOMAIN o = PassFields
  BY AtHand
<1>2. o.pc = "toggles" /\ o.cost = 0
  BY <1>1 DEF ReadToggles, PassOK, Charged
<1>3. UNCHANGED <<line, redis, ledger, spent, lost, capped, settings, edits>>
  BY DEF ReadToggles, adminVars
<1>4. CASE Over(e)
  BY <1>1, <1>2, <1>3, <1>4, EndsHere
<1>5. CASE ~Over(e)
  <2>1. PICK c : pass' = [pass EXCEPT ![e].pc = "rows", ![e].cats = c]
    BY <1>5 DEF ReadToggles
  <2>2. PICK p : p = [o EXCEPT !.pc = "rows", !.cats = c]
    OBVIOUS
  <2>3. pass' = [pass EXCEPT ![e] = p]
    BY <1>1, <2>1, <2>2 DEF EnrichInv, PassFields
  <2>4. /\ DOMAIN p = PassFields /\ p.pc = "rows" /\ p.cost = o.cost /\ p.wish = o.wish
        /\ p.got = o.got /\ p.left = o.left
    BY <1>1, <2>2 DEF PassFields
  <2>5. HandsOff(p) /\ Honest(p)
    BY <2>4 DEF HandsOff, Honest, Holding
  <2>6. PassOK(p)
    BY <1>1, <1>2, <2>4, <2>5 DEF PassOK, EnrichPc, Holding, CheckPc, Charged, Blank
  <2>7. p.pc # "idle" /\ p.cost = pass[e].cost /\ ~ (p.pc \in {"call", "read"})
    BY <1>1, <2>4
  <2> QED BY <1>3, <2>3, <2>6, <2>7, Quiet
<1> QED BY <1>4, <1>5

LEMMA ReadRowsKeeps ==
    ASSUME EnrichInv, NEW e \in Passes, ReadCandidates(e)
    PROVE  EnrichInv'
<1>1. PICK o : o = pass[e] /\ PassOK(o) /\ DOMAIN o = PassFields
  BY AtHand
<1>2. o.pc = "rows" /\ o.cost = 0
  BY <1>1 DEF ReadCandidates, PassOK, Charged
<1>3. UNCHANGED <<line, redis, ledger, spent, lost, capped, settings, edits>>
  BY DEF ReadCandidates, adminVars
<1>4. CASE Over(e)
  BY <1>1, <1>2, <1>3, <1>4, EndsHere
<1>5. CASE ~Over(e)
  <2>1. PICK t, y : /\ t = {r \in Rows : line[r].there /\ ~line[r].enrichmentUserEdited}
                    /\ pass' = [pass EXCEPT ![e].pc = "version", ![e].todo = t, ![e].payees = y]
    BY <1>5 DEF ReadCandidates
  <2>2. PICK p : p = [o EXCEPT !.pc = "version", !.todo = t, !.payees = y]
    OBVIOUS
  <2>3. pass' = [pass EXCEPT ![e] = p]
    BY <1>1, <2>1, <2>2 DEF EnrichInv, PassFields
  <2>4. /\ DOMAIN p = PassFields /\ p.pc = "version" /\ p.cost = o.cost /\ p.wish = o.wish
        /\ p.got = o.got /\ p.left = o.left /\ p.todo = t
    BY <1>1, <2>2 DEF PassFields
  <2>5. DOMAIN p.got = {} /\ p.left = {}
    BY <1>1, <1>2, <2>4 DEF PassOK, Blank
  <2>6. HandsOff(p) /\ Honest(p)
    BY <2>1, <2>4, <2>5 DEF HandsOff, Honest, Holding
  <2>7. PassOK(p)
    BY <1>1, <1>2, <2>4, <2>5, <2>6 DEF PassOK, EnrichPc, Holding, CheckPc, Charged, Blank
  <2>8. p.pc # "idle" /\ p.cost = pass[e].cost /\ ~ (p.pc \in {"call", "read"})
    BY <1>1, <2>4
  <2> QED BY <1>3, <2>3, <2>7, <2>8, Quiet
<1> QED BY <1>4, <1>5

LEMMA ReadVersionKeeps ==
    ASSUME EnrichInv, NEW e \in Passes, ReadVersion(e)
    PROVE  EnrichInv'
<1>1. PICK o : o = pass[e] /\ PassOK(o) /\ DOMAIN o = PassFields
  BY AtHand
<1>2. o.pc = "version" /\ o.cost = 0
  BY <1>1 DEF ReadVersion, PassOK, Charged
<1>3. UNCHANGED <<line, redis, ledger, spent, lost, capped, settings, edits>>
  BY DEF ReadVersion, adminVars
<1>4. PICK p : p = [o EXCEPT !.pc = "lookup", !.version = cacheVersionFor(o.wish, o.cats)]
  OBVIOUS
<1>5. pass' = [pass EXCEPT ![e] = p]
  BY <1>1, <1>4 DEF ReadVersion, EnrichInv, PassFields
<1>6. /\ DOMAIN p = PassFields /\ p.pc = "lookup" /\ p.cost = o.cost /\ p.wish = o.wish
      /\ p.cats = o.cats /\ p.got = o.got /\ p.left = o.left /\ p.todo = o.todo
      /\ p.version = cacheVersionFor(p.wish, p.cats)
  BY <1>1, <1>4 DEF PassFields
<1>7. HandsOff(o) => HandsOff(p)
  BY <1>2, <1>6 DEF HandsOff, Holding
<1>8. Honest(p)
  BY <1>6 DEF Honest
<1>9. PassOK(p)
  BY <1>1, <1>2, <1>6, <1>7, <1>8 DEF PassOK, EnrichPc, Holding, CheckPc, Charged, Blank
<1>10. p.pc # "idle" /\ p.cost = pass[e].cost /\ ~ (p.pc \in {"call", "read"})
  BY <1>1, <1>6
<1> QED BY <1>3, <1>5, <1>9, <1>10, Quiet

LEMMA NextIsWished ==
    ASSUME NEW w, w \subseteq EnrichProc, w # {}
    PROVE  /\ NextProc(w) \in w
           /\ NextProc(w) = "category" => "cleanse" \notin w
BY DEF NextProc, EnrichProc

LEMMA LookupKeeps ==
    ASSUME EnrichInv, NEW e \in Passes, Lookup(e)
    PROVE  EnrichInv'
<1>1. PICK o : o = pass[e] /\ PassOK(o) /\ DOMAIN o = PassFields
  BY AtHand
<1>2. /\ o.pc = "lookup" /\ o.cost = 0 /\ DOMAIN o.got = {} /\ o.left = {}
      /\ o.wish \subseteq EnrichProc /\ o.wish # {}
  BY <1>1 DEF Lookup, PassOK, Charged, Blank, EnrichPc, Holding
<1>3. UNCHANGED <<line, redis, ledger, spent, lost, capped, settings, edits>>
  BY DEF Lookup, adminVars
<1>4. ASSUME NEW p, pass' = [pass EXCEPT ![e] = p], DOMAIN p = PassFields,
             p.pc \in {"build", "apply"}, p.cost = o.cost, p.wish = o.wish, p.cats = o.cats,
             p.version = o.version, p.todo = o.todo,
             p.left \subseteq o.todo, DOMAIN p.got \subseteq o.todo,
             p.pc = "build" => p.proc = NextProc(o.wish) /\ p.left \cap DOMAIN p.got = {}
      PROVE  EnrichInv'
  <2>1. HandsOff(o) => HandsOff(p)
    BY <1>2, <1>4 DEF HandsOff, Holding
  <2>2. Honest(o) => Honest(p)
    <3>1. ~ (p.pc = "build" /\ Second(p)) /\ (p.pc = "build" => p.proc \in p.wish)
      BY <1>2, <1>4, NextIsWished DEF Second
    <3>2. ~ (p.pc \in {"cap", "call", "keep", "lookup"})
      BY <1>4
    <3>3. Honest(o) => (p.pc = "build" => p.version = cacheVersionFor(p.wish, p.cats))
      BY <1>2, <1>4 DEF Honest
    <3> QED BY <1>4, <3>1, <3>2, <3>3 DEF Honest
  <2>3. PassOK(p)
    BY <1>1, <1>2, <1>4, <2>1, <2>2 DEF PassOK, EnrichPc, Holding, CheckPc, Charged, Blank
  <2>4. p.pc # "idle" /\ p.cost = pass[e].cost /\ ~ (p.pc \in {"call", "read"})
    BY <1>1, <1>4
  <2> QED BY <1>3, <1>4, <2>3, <2>4, Quiet
<1>5. PICK miss : miss = [o EXCEPT !.pc = "build", !.left = o.todo, !.proc = NextProc(o.wish)]
  OBVIOUS
<1>6. /\ DOMAIN miss = PassFields /\ miss.pc = "build" /\ miss.cost = o.cost
      /\ miss.wish = o.wish /\ miss.cats = o.cats /\ miss.version = o.version
      /\ miss.todo = o.todo /\ miss.left = o.todo /\ miss.got = o.got
      /\ miss.proc = NextProc(o.wish)
  BY <1>1, <1>5 DEF PassFields
<1>7. CASE SetPass(e, miss)
  BY <1>2, <1>4, <1>6, <1>7 DEF SetPass
<1>8. CASE ~SetPass(e, miss)
  <2>1. PICK c, ask, got :
           /\ ask = o.todo \cap o.payees
           /\ got = [r \in o.todo \ ask |-> c.answer]
           /\ SetPass(e, IF ask = {} THEN [o EXCEPT !.pc = "apply", !.got = got]
                     ELSE [miss EXCEPT !.got = got, !.left = ask])
    BY <1>1, <1>5, <1>8 DEF Lookup
  <2>2. PICK p : p = IF ask = {} THEN [o EXCEPT !.pc = "apply", !.got = got]
                     ELSE [miss EXCEPT !.got = got, !.left = ask]
    OBVIOUS
  <2>3. pass' = [pass EXCEPT ![e] = p]
    BY <2>1, <2>2 DEF SetPass
  <2>4. DOMAIN got = o.todo \ ask
    BY <2>1
  <2>5. CASE ask = {}
    <3>1. /\ DOMAIN p = PassFields /\ p.pc = "apply" /\ p.cost = o.cost /\ p.wish = o.wish
          /\ p.cats = o.cats /\ p.version = o.version /\ p.todo = o.todo
          /\ p.left = {} /\ p.got = got
      BY <1>1, <1>2, <2>2, <2>5 DEF PassFields
    <3> QED BY <1>4, <2>3, <2>4, <3>1
  <2>6. CASE ask # {}
    <3>1. /\ DOMAIN p = PassFields /\ p.pc = "build" /\ p.cost = o.cost /\ p.wish = o.wish
          /\ p.cats = o.cats /\ p.version = o.version /\ p.todo = o.todo
          /\ p.left = ask /\ p.got = got /\ p.proc = NextProc(o.wish)
      BY <1>1, <1>6, <2>2, <2>6 DEF PassFields
    <3> QED BY <1>4, <2>1, <2>3, <2>4, <3>1
  <2> QED BY <2>5, <2>6
<1> QED BY <1>7, <1>8

LEMMA BuildKeeps ==
    ASSUME EnrichInv, NEW e \in Passes, Build(e)
    PROVE  EnrichInv'
<1>1. PICK o : o = pass[e] /\ PassOK(o) /\ DOMAIN o = PassFields
  BY AtHand
<1>2. /\ o.pc = "build" /\ o.cost \in Nat /\ o.wish \subseteq EnrichProc
  BY <1>1 DEF Build, PassOK
<1>3. UNCHANGED <<line, redis, ledger, spent, lost, capped, settings, edits>>
  BY DEF Build, adminVars
<1>4. PICK cfg, built : cfg = settings.llm /\ built = buildProviderForProcess(cfg, o.proc)
  OBVIOUS
<1>5. PICK p : p = [o EXCEPT !.built = built, !.pc = IF built = CannotBuild THEN "catch" ELSE "cap"]
  OBVIOUS
<1>6. pass' = [pass EXCEPT ![e] = p]
  BY <1>1, <1>4, <1>5 DEF Build, EnrichInv, PassFields
<1>7. /\ DOMAIN p = PassFields /\ p.cost = o.cost /\ p.wish = o.wish
      /\ p.cats = o.cats /\ p.version = o.version /\ p.todo = o.todo
      /\ p.left = o.left /\ p.got = o.got /\ p.proc = o.proc /\ p.payees = o.payees
      /\ p.built = built /\ p.pc = IF built = CannotBuild THEN "catch" ELSE "cap"
  BY <1>1, <1>5 DEF PassFields
<1>8. HandsOff(o) => HandsOff(p)
  BY <1>2, <1>7 DEF HandsOff, Holding
<1>9. Honest(o) => Honest(p)
  <2>1. SUFFICES ASSUME Honest(o), p.pc = "cap" PROVE Honest(p)
    BY <1>7 DEF Honest
  <2>2. /\ o.version = cacheVersionFor(o.wish, o.cats) /\ o.proc \in o.wish
        /\ Second(o) => o.left \subseteq DOMAIN o.got /\ \A r \in o.left : Cleansed(o, r)
        /\ ~Second(o) => o.left \cap DOMAIN o.got = {}
    BY <1>2, <2>1 DEF Honest
  <2>3. Second(p) = Second(o) /\ \A r : Cleansed(o, r) => Cleansed(p, r)
    BY <1>7 DEF Second, Cleansed
  <2>4. cfg \in Settings
    BY <1>4, EnrichmentAssumption DEF EnrichInv
  <2>5. o.proc \in EnrichProc /\ built # CannotBuild
    BY <1>2, <1>7, <2>1, <2>2
  <2>6. Label(cfg, o.proc).model = IF built.model = NoModel THEN Router ELSE built.model
    BY <1>4, <2>4, <2>5, LabelIsBuilt
  <2>7. p.version.prompt = settings.prompt
    BY <1>7, <2>2 DEF cacheVersionFor
  <2>8. AuthorOf(p) = Maker(p.proc)
    BY <1>4, <1>7, <2>6, <2>7 DEF AuthorOf, Maker
  <2> QED BY <1>7, <2>1, <2>2, <2>3, <2>8 DEF Honest
<1>10. PassOK(p)
  BY <1>1, <1>2, <1>7, <1>8, <1>9 DEF PassOK, EnrichPc, Holding, CheckPc, Charged, Blank
<1>11. p.pc # "idle" /\ p.cost = pass[e].cost /\ ~ (p.pc \in {"call", "read"})
  BY <1>1, <1>7
<1> QED BY <1>3, <1>6, <1>10, <1>11, Quiet

\* A run that began past the cap does not reach a call that costs.
LEMMA CapHolds ==
    ASSUME EnrichInv, NEW e \in capped, CapAllows(e)
    PROVE  pass[e].built.provider # "anthropic"
BY DEF EnrichInv, CappedOK, CapAllows, capBlocked, SpendOnRecord

LEMMA CheckCapKeeps ==
    ASSUME EnrichInv, NEW e \in Passes, CheckCap(e)
    PROVE  EnrichInv'
<1>1. PICK o : o = pass[e] /\ PassOK(o) /\ DOMAIN o = PassFields
  BY AtHand
<1>2. o.pc = "cap"
  BY <1>1 DEF CheckCap
<1>3. UNCHANGED <<line, redis, ledger, spent, lost, capped, settings, edits>>
  BY DEF CheckCap, adminVars
<1>4. PICK pc : pc = IF CapAllows(e) THEN "call" ELSE "catch"
  OBVIOUS
<1>5. PICK p : p = [o EXCEPT !.pc = pc]
  OBVIOUS
<1>6. pass' = [pass EXCEPT ![e] = p]
  BY <1>1, <1>4, <1>5 DEF CheckCap, PassGoes, EnrichInv, PassFields
<1>7. /\ DOMAIN p = PassFields /\ p.cost = o.cost /\ p.wish = o.wish
      /\ p.cats = o.cats /\ p.version = o.version /\ p.todo = o.todo
      /\ p.left = o.left /\ p.got = o.got /\ p.proc = o.proc /\ p.payees = o.payees
      /\ p.built = o.built /\ p.pc = pc /\ pc \in {"call", "catch"}
  BY <1>1, <1>4, <1>5 DEF PassFields
<1>8. HandsOff(o) => HandsOff(p)
  BY <1>2, <1>7 DEF HandsOff, Holding
<1>9. Honest(o) => Honest(p)
  <2>1. Second(p) = Second(o) /\ \A r : Cleansed(o, r) => Cleansed(p, r)
    BY <1>7 DEF Second, Cleansed
  <2>2. AuthorOf(p) = AuthorOf(o)
    BY <1>7 DEF AuthorOf
  <2> QED BY <1>2, <1>7, <2>1, <2>2 DEF Honest
<1>10. PassOK(p)
  BY <1>1, <1>2, <1>7, <1>8, <1>9 DEF PassOK, EnrichPc, Holding, CheckPc, Charged, Blank
<1>11. p.pc # "idle" /\ p.cost = pass[e].cost
  BY <1>1, <1>7
<1>12. e \in capped /\ p.pc \in {"call", "read"} => p.built.provider # "anthropic"
  BY <1>1, <1>4, <1>7, CapHolds
<1> QED BY <1>3, <1>6, <1>10, <1>11, <1>12, Quiet

\* A call that is charged, its cost in the hands of the run.
LEMMA CallKeeps ==
    ASSUME EnrichInv, NEW e \in Passes, NEW p, NEW end \in CallEnd,
           pass' = [pass EXCEPT ![e] = p], Charge(e, end), pass[e].pc \in {"call", "read"},
           UNCHANGED <<line, redis, ledger, capped, settings, edits>>,
           PassOK(p), p.pc \notin {"idle", "call", "read"},
           p.cost = pass[e].cost + CostOf(e, end)
    PROVE  EnrichInv'
<1>1. PICK c \in Nat : c = PriceOf(e)
  BY EnrichmentAssumption DEF PriceOf
<1>2. PICK m \in Nat : m = ledger
  BY DEF EnrichInv
<1>3. spent[e] \in Nat /\ pass[e].cost \in Nat
  BY DEF EnrichInv, PassOK
<1>4. PICK n \in Nat : n = spent[e] + IF end = "fails" THEN 0 ELSE c
  BY <1>3
<1>5. spent' = [spent EXCEPT ![e] = n]
  BY <1>1, <1>4 DEF Charge, EnrichInv
<1>6. ledger' = m /\ m >= ledger
  BY <1>2
<1>l. lost.thrown \in Nat /\ lost.refused \in Nat
  BY DEF EnrichInv, LostShape
<1>t. PICK t \in Nat : t = lost.thrown + IF end = "cutOff" THEN c ELSE 0
  BY <1>l
<1>h. PICK h : h = [lost EXCEPT !.thrown = t]
  OBVIOUS
<1>g. h \in LostShape /\ h.thrown = t /\ h.refused = lost.refused
  BY <1>h DEF EnrichInv, LostShape
<1>k. lost' = h
  BY <1>1, <1>t, <1>h DEF Charge
<1>7. m + Gone(h) + p.cost + spent[e] = n + ledger + Gone(lost) + pass[e].cost
  <2>1. Gone(h) = t + lost.refused /\ Gone(lost) = lost.thrown + lost.refused
    BY <1>g DEF Gone
  <2>2. p.cost = pass[e].cost + IF end = "answers" THEN c ELSE 0
    BY <1>1 DEF CostOf
  <2> QED BY <1>2, <1>3, <1>4, <1>l, <1>t, <2>1, <2>2 DEF CallEnd
<1>8. SameWorld
  BY DEF SameWorld, EnrichInv
<1>9. capped' \subseteq capped \cup {e}
  OBVIOUS
<1>10. e \in capped' => /\ m >= Cap /\ n = 0
                        /\ p.pc \in {"call", "read"} => p.built.provider # "anthropic"
  <2>1. SUFFICES ASSUME e \in capped PROVE m >= Cap /\ n = 0
    OBVIOUS
  <2>2. CappedOK(e)
    BY <2>1 DEF EnrichInv
  <2>3. pass[e].built.provider # "anthropic" /\ spent[e] = 0 /\ ledger >= Cap
    BY <2>2 DEF CappedOK
  <2>4. c = 0
    BY <1>1, <2>3 DEF PriceOf
  <2> QED BY <1>2, <1>4, <2>3, <2>4
<1>11. ~ChangeMidRun => CacheIsHonest'
  BY CacheStays
<1> QED BY <1>5, <1>6, <1>g, <1>k, <1>7, <1>8, <1>9, <1>10, <1>11, Works

LEMMA CallAnswersKeeps ==
    ASSUME EnrichInv, NEW e \in Passes, CallAnswers(e)
    PROVE  EnrichInv'
<1>1. PICK o : o = pass[e] /\ PassOK(o) /\ DOMAIN o = PassFields
  BY AtHand
<1>2. o.pc = "call" /\ o.cost \in Nat /\ o.wish \subseteq EnrichProc
  BY <1>1 DEF CallAnswers, PassOK
<1>3. UNCHANGED <<line, redis, ledger, capped, settings, edits>> /\ Charge(e, "answers")
  BY DEF CallAnswers, adminVars
<1>4. PICK some \in SUBSET o.left, adopt \in BOOLEAN, c \in o.cats \cup {NoCategory} :
         SetPass(e, Answered(o, some, Author(e), adopt, c, CostOf(e, "answers")))
  BY <1>1 DEF CallAnswers
<1>5. PICK a, cost : a = Author(e) /\ a = AuthorOf(o) /\ cost = CostOf(e, "answers")
  BY <1>1 DEF Author, AuthorOf
<1> DEFINE before(r) == IF r \in DOMAIN o.got THEN o.got[r] ELSE EmptyAnswer
           after(r) == IF o.proc = "category" THEN [before(r) EXCEPT !.cat = c, !.by = a]
                       ELSE [before(r) EXCEPT !.text = IF adopt /\ r \in o.payees THEN Payee
                                                       ELSE a]
<1>6. PICK kept, next :
         /\ kept = [r \in (DOMAIN o.got \ o.left) \cup some |->
                       IF r \in some THEN after(r) ELSE o.got[r]]
         /\ next = IF o.proc = "cleanse" THEN NextProc(o.wish \ {"cleanse"}) ELSE "none"
  OBVIOUS
<1>7. PICK p : /\ p = Answered(o, some, a, adopt, c, cost)
               /\ p = [o EXCEPT !.got = kept, !.cost = @ + cost, !.proc = next,
                                !.left = IF next = "none" THEN o.left ELSE some,
                                !.pc = IF next = "none" THEN "keep" ELSE "build"]
  BY <1>6 DEF Answered
<1>8. pass' = [pass EXCEPT ![e] = p]
  BY <1>4, <1>5, <1>7 DEF SetPass
<1> HIDE DEF before, after
<1>9. /\ DOMAIN p = PassFields /\ p.cost = o.cost + cost /\ p.wish = o.wish
      /\ p.cats = o.cats /\ p.version = o.version /\ p.todo = o.todo
      /\ p.payees = o.payees /\ p.got = kept /\ p.proc = next
      /\ p.left = IF next = "none" THEN o.left ELSE some
      /\ p.pc = IF next = "none" THEN "keep" ELSE "build"
  BY <1>1, <1>7 DEF PassFields
<1>10. /\ DOMAIN kept = (DOMAIN o.got \ o.left) \cup some
       /\ \A r \in some : kept[r] = after(r)
  BY <1>6
<1>11. HandsOff(o) => HandsOff(p)
  <2>1. SUFFICES ASSUME HandsOff(o) PROVE HandsOff(p)
    OBVIOUS
  <2>2. o.left \subseteq o.todo /\ DOMAIN o.got \subseteq o.todo
        /\ \A r \in o.todo : r \in Rows /\ ~line[r].enrichmentUserEdited
    BY <1>2, <2>1 DEF HandsOff, Holding
  <2>3. p.left \subseteq o.todo /\ DOMAIN p.got \subseteq o.todo
    BY <1>9, <1>10, <2>2
  <2> QED BY <1>9, <2>2, <2>3 DEF HandsOff
<1>12. ASSUME Honest(o) PROVE Honest(p)
  <2>1. /\ o.version = cacheVersionFor(o.wish, o.cats) /\ o.proc \in o.wish
        /\ Second(o) => o.left \subseteq DOMAIN o.got /\ \A r \in o.left : Cleansed(o, r)
        /\ ~Second(o) => o.left \cap DOMAIN o.got = {}
        /\ a = Maker(o.proc)
    BY <1>2, <1>5, <1>12 DEF Honest
  <2>2. p.version = cacheVersionFor(p.wish, p.cats)
    BY <1>9, <2>1
  <2>e. DOMAIN EmptyAnswer = {"text", "cat", "by"}
    BY DEF EmptyAnswer
  <2>3. CASE o.proc = "cleanse"
    <3>1. ASSUME NEW r \in some
          PROVE  /\ DOMAIN kept[r] = {"text", "cat", "by"}
                 /\ r \in o.payees \/ kept[r].text = Maker("cleanse")
      <4>1. r \notin DOMAIN o.got
        BY <2>1, <2>3 DEF Second
      <4>2. before(r) = EmptyAnswer
        BY <4>1 DEF before
      <4>3. kept[r] = [EmptyAnswer EXCEPT !.text = IF adopt /\ r \in o.payees THEN Payee ELSE a]
        BY <1>10, <2>3, <4>2 DEF after
      <4>4. DOMAIN kept[r] = {"text", "cat", "by"}
        BY <2>e, <4>3
      <4>5. r \in o.payees \/ kept[r].text = a
        BY <2>e, <4>3
      <4> QED BY <2>1, <2>3, <4>4, <4>5
    <3>2. CASE next = "none"
      <4>1. "category" \notin o.wish
        BY <1>2, <1>6, <2>3, <3>2 DEF NextProc, EnrichProc
      <4>2. p.left \cap DOMAIN p.got = some
        BY <1>9, <1>10, <3>2
      <4>3. p.pc = "keep"
        BY <1>9, <3>2
      <4> QED BY <1>9, <2>2, <3>1, <4>1, <4>2, <4>3 DEF Honest
    <3>3. CASE next # "none"
      <4>1. next = "category" /\ "category" \in o.wish /\ "cleanse" \in o.wish
        BY <1>2, <1>6, <2>1, <2>3, <3>3 DEF NextProc, EnrichProc
      <4>2. Second(p) /\ p.left = some /\ p.left \subseteq DOMAIN p.got /\ p.pc = "build"
        BY <1>9, <1>10, <3>3, <4>1 DEF Second
      <4>3. \A r \in p.left : Cleansed(p, r)
        BY <1>9, <3>1, <4>2 DEF Cleansed
      <4> QED BY <1>9, <2>2, <4>1, <4>2, <4>3 DEF Honest
    <3> QED BY <3>2, <3>3
  <2>4. CASE o.proc = "category"
    <3>1. next = "none" /\ p.pc = "keep" /\ p.left = o.left
      BY <1>6, <1>9, <2>4
    <3>2. p.left \cap DOMAIN p.got = some
      BY <1>9, <1>10, <3>1
    <3>3. ASSUME NEW r \in some
          PROVE  /\ "cleanse" \in o.wish => r \in o.payees \/ kept[r].text = Maker("cleanse")
                 /\ kept[r].by = Maker("category")
      <4>1. DOMAIN before(r) = {"text", "cat", "by"}
        <5>1. CASE Second(o)
          BY <2>1, <5>1 DEF before, Cleansed
        <5>2. CASE ~Second(o)
          BY <2>1, <2>e, <5>2 DEF before
        <5> QED BY <5>1, <5>2
      <4>2. kept[r] = [before(r) EXCEPT !.cat = c, !.by = a]
        BY <1>10, <2>4 DEF after
      <4>3. kept[r].by = a /\ kept[r].text = before(r).text
        BY <4>1, <4>2
      <4>4. ASSUME "cleanse" \in o.wish
            PROVE  r \in o.payees \/ before(r).text = Maker("cleanse")
        <5>1. Second(o) /\ r \in o.left
          BY <2>4, <4>4 DEF Second
        <5> QED BY <2>1, <5>1 DEF before, Cleansed
      <4> QED BY <2>1, <2>4, <4>3, <4>4
    <3> QED BY <1>9, <2>2, <3>1, <3>2, <3>3 DEF Honest
  <2> QED BY <1>2, <2>1, <2>3, <2>4 DEF EnrichProc
<1>13. cost \in Nat
  BY <1>5, EnrichmentAssumption DEF CostOf, PriceOf
<1>14. PassOK(p)
  BY <1>1, <1>2, <1>9, <1>11, <1>12, <1>13
     DEF PassOK, EnrichPc, Holding, CheckPc, Charged, Blank
<1>15. p.pc \notin {"idle", "call", "read"} /\ p.cost = pass[e].cost + CostOf(e, "answers")
  BY <1>1, <1>5, <1>9
<1>16. pass[e].pc \in {"call", "read"} /\ "answers" \in CallEnd
  BY <1>1, <1>2 DEF CallEnd
<1> QED BY <1>3, <1>8, <1>14, <1>15, <1>16, CallKeeps

Caught(p, c) == [p EXCEPT !.pc = "catch", !.cost = c]

\* A run on its way to its catch block holds its costs and nothing else.
LEMMA CatchIsOK ==
    ASSUME NEW o, NEW p, NEW c \in Nat, PassOK(o), o.pc \in EnrichPc,
           p = Caught(o, c)
    PROVE  PassOK(p) /\ p.pc = "catch" /\ p.cost = c
<1>1. /\ DOMAIN p = PassFields /\ p.pc = "catch" /\ p.cost = c /\ p.wish = o.wish
  BY DEF PassOK, PassFields, Caught
<1>2. HandsOff(p) /\ Honest(p)
  BY <1>1 DEF HandsOff, Honest, Holding
<1> QED BY <1>1, <1>2 DEF PassOK, EnrichPc, CheckPc, Holding, Charged, Blank

LEMMA CallFailsKeeps ==
    ASSUME EnrichInv, NEW e \in Passes, CallFails(e)
    PROVE  EnrichInv'
<1>1. PICK o : o = pass[e] /\ PassOK(o) /\ DOMAIN o = PassFields
  BY AtHand
<1>2. o.pc = "call" /\ o.cost \in Nat
  BY <1>1 DEF CallFails, PassOK
<1>3. UNCHANGED <<line, redis, ledger, capped, settings, edits>>
  BY DEF CallFails, adminVars
<1>4. PICK end \in CallEnd :
         /\ Charge(e, end)
         /\ pass' = [pass EXCEPT ![e].pc = "catch", ![e].cost = @ + CostOf(e, end)]
  BY DEF CallFails
<1>5. PICK c \in Nat : c = o.cost + CostOf(e, end)
  BY <1>2, EnrichmentAssumption DEF CostOf, PriceOf
<1>6. PICK p : p = Caught(o, c)
  OBVIOUS
<1>7. pass' = [pass EXCEPT ![e] = p]
  BY <1>1, <1>4, <1>5, <1>6 DEF EnrichInv, PassFields, Caught
<1>8. PassOK(p) /\ p.pc = "catch" /\ p.cost = c
  <2>1. o.pc \in EnrichPc
    BY <1>2 DEF EnrichPc, Holding
  <2> QED BY <1>1, <1>6, <2>1, CatchIsOK
<1>9. p.pc \notin {"idle", "call", "read"} /\ p.cost = pass[e].cost + CostOf(e, end)
  BY <1>1, <1>5, <1>8
<1>10. pass[e].pc \in {"call", "read"}
  BY <1>1, <1>2
<1> QED BY <1>3, <1>4, <1>7, <1>8, <1>9, <1>10, CallKeeps

LEMMA ApplyFailsKeeps ==
    ASSUME EnrichInv, NEW e \in Passes, ApplyFails(e)
    PROVE  EnrichInv'
<1>1. PICK o : o = pass[e] /\ PassOK(o) /\ DOMAIN o = PassFields
  BY AtHand
<1>2. o.pc = "apply" /\ o.cost \in Nat
  BY <1>1 DEF ApplyFails, PassOK
<1>3. UNCHANGED <<line, redis, ledger, spent, lost, capped, settings, edits>>
  BY DEF ApplyFails, adminVars
<1>4. PICK p : p = Caught(o, o.cost)
  OBVIOUS
<1>5. pass' = [pass EXCEPT ![e] = p]
  <2>1. p = [o EXCEPT !.pc = "catch"]
    BY <1>1, <1>4 DEF PassFields, Caught
  <2> QED BY <1>1, <2>1 DEF ApplyFails, PassGoes, EnrichInv
<1>6. PassOK(p) /\ p.pc = "catch" /\ p.cost = o.cost
  <2>1. o.pc \in EnrichPc /\ o.cost \in Nat
    BY <1>2 DEF EnrichPc, Holding
  <2> QED BY <1>1, <1>4, <2>1, CatchIsOK
<1>7. p.pc # "idle" /\ p.cost = pass[e].cost /\ ~ (p.pc \in {"call", "read"})
  BY <1>1, <1>6
<1> QED BY <1>3, <1>5, <1>6, <1>7, Quiet

LEMMA KeepKeeps ==
    ASSUME EnrichInv, NEW e \in Passes, KeepAnswers(e)
    PROVE  EnrichInv'
<1>1. PICK o : o = pass[e] /\ PassOK(o) /\ DOMAIN o = PassFields
  BY AtHand
<1>2. o.pc = "keep" /\ o.cost \in Nat
  BY <1>1 DEF KeepAnswers, PassOK
<1>3. UNCHANGED <<line, ledger, spent, lost, capped, settings, edits>>
  BY DEF KeepAnswers, adminVars
<1>4. PICK p : p = [o EXCEPT !.pc = "apply"]
  OBVIOUS
<1>5. pass' = [pass EXCEPT ![e] = p]
  BY <1>1, <1>4 DEF KeepAnswers, PassGoes, EnrichInv
<1>6. /\ DOMAIN p = PassFields /\ p.pc = "apply" /\ p.cost = o.cost /\ p.wish = o.wish
      /\ p.todo = o.todo /\ p.left = o.left /\ p.got = o.got
  BY <1>1, <1>4 DEF PassFields
<1>7. HandsOff(o) => HandsOff(p)
  BY <1>2, <1>6 DEF HandsOff, Holding
<1>8. Honest(p)
  BY <1>6 DEF Honest
<1>9. PassOK(p)
  BY <1>1, <1>2, <1>6, <1>7, <1>8 DEF PassOK, EnrichPc, Holding, CheckPc, Charged, Blank
<1>10. p.pc # "idle" /\ p.cost = pass[e].cost /\ ~ (p.pc \in {"call", "read"})
  BY <1>1, <1>6
<1>11. ASSUME ~ChangeMidRun PROVE CacheIsHonest'
  <2>1. /\ o.version = cacheVersionFor(o.wish, o.cats)
        /\ \A r \in o.left \cap DOMAIN o.got :
             /\ "cleanse" \in o.wish => r \in o.payees \/ o.got[r].text = Maker("cleanse")
             /\ "category" \in o.wish => o.got[r].by = Maker("category")
    BY <1>1, <1>2, <1>11 DEF PassOK, Honest
  <2>2. ASSUME NEW c \in redis', c \notin redis
        PROVE  \E r \in o.left \cap DOMAIN o.got :
                  Pure(o, r) /\ c.version = o.version /\ c.answer = o.got[r]
    BY <1>1, <2>2 DEF KeepAnswers
  <2>3. ASSUME NEW c \in redis'
        PROVE  LET by(proc, author) ==
                      \E m \in c.version.models :
                          m[1] = proc /\ author = ByModel(m[2].model, c.version.prompt)
               IN  /\ "cleanse" \in c.version.wish => by("cleanse", c.answer.text)
                   /\ "category" \in c.version.wish =>
                        by("category", c.answer.by) /\ c.answer.cat \in c.version.cats
    <3>1. CASE c \in redis
      BY <1>11, <3>1 DEF EnrichInv, CacheIsHonest
    <3>2. CASE c \notin redis
      <4>1. PICK r \in o.left \cap DOMAIN o.got :
                   Pure(o, r) /\ c.version = o.version /\ c.answer = o.got[r]
        BY <2>2, <3>2
      <4>2. /\ c.version.wish = o.wish /\ c.version.prompt = settings.prompt
            /\ c.version.models = {<<q, Label(settings.llm, q)>> : q \in o.wish}
            /\ "category" \in o.wish => c.version.cats = o.cats
        BY <2>1, <4>1 DEF cacheVersionFor
      <4>3. ASSUME NEW q \in o.wish, NEW a, a = Maker(q)
            PROVE  \E m \in c.version.models :
                      m[1] = q /\ a = ByModel(m[2].model, c.version.prompt)
        <5>1. <<q, Label(settings.llm, q)>> \in c.version.models
          BY <4>2
        <5>2. a = ByModel(Label(settings.llm, q).model, c.version.prompt)
          BY <4>2, <4>3 DEF Maker
        <5> QED BY <5>1, <5>2
      <4>4. "cleanse" \in o.wish => c.answer.text = Maker("cleanse")
        BY <2>1, <4>1 DEF Pure
      <4>5. "category" \in o.wish => c.answer.by = Maker("category") /\ c.answer.cat \in o.cats
        BY <2>1, <4>1 DEF Pure
      <4> QED BY <4>2, <4>3, <4>4, <4>5
    <3> QED BY <3>1, <3>2
  <2> QED BY <2>3 DEF CacheIsHonest
<1> QED BY <1>3, <1>5, <1>9, <1>10, <1>11, Moves

Booking(cost) == addStatementLlmCost(cost) \/ RefuseSpend(cost)

\* A run books what it holds, or the database refuses it.
LEMMA Books ==
    ASSUME EnrichInv, NEW e \in Passes, NEW p, pass' = [pass EXCEPT ![e] = p],
           Booking(pass[e].cost), PassOK(p), p.cost = 0,
           p.pc \notin {"idle", "call", "read"},
           UNCHANGED <<redis, spent, capped, edits>>, SameWorld
    PROVE  EnrichInv'
<1>1. /\ ledger \in Nat /\ spent[e] \in Nat /\ pass[e].cost \in Nat
      /\ lost.thrown \in Nat /\ lost.refused \in Nat
  BY DEF EnrichInv, PassOK, LostShape
<1>2. PICK m \in Nat, h \in LostShape :
         /\ ledger' = m /\ lost' = h /\ m >= ledger
         /\ m + Gone(h) = ledger + Gone(lost) + pass[e].cost
  <2>1. CASE addStatementLlmCost(pass[e].cost)
    <3>1. PICK c \in Nat, g \in Nat : c = pass[e].cost /\ g = Gone(lost)
      BY <1>1 DEF Gone
    <3>2. PICK m \in Nat : m = ledger + c
      BY <1>1
    <3>3. lost \in LostShape /\ ledger' = m /\ lost' = lost
      BY <2>1, <3>1, <3>2 DEF addStatementLlmCost, EnrichInv
    <3>4. m >= ledger /\ m + g = ledger + g + c
      BY <1>1, <3>2
    <3> QED BY <3>1, <3>3, <3>4
  <2>2. CASE RefuseSpend(pass[e].cost)
    <3>1. PICK m \in Nat, t \in Nat : m = ledger /\ t = lost.refused + pass[e].cost
      BY <1>1
    <3>2. PICK h : h = [lost EXCEPT !.refused = t]
      OBVIOUS
    <3>3. h \in LostShape /\ h.thrown = lost.thrown /\ h.refused = t
      BY <3>2 DEF EnrichInv, LostShape
    <3>4. ledger' = m /\ lost' = h /\ m >= ledger
      BY <2>2, <3>1, <3>2 DEF RefuseSpend
    <3>5. m + Gone(h) = ledger + Gone(lost) + pass[e].cost
      BY <1>1, <3>1, <3>3 DEF Gone
    <3> QED BY <3>3, <3>4, <3>5
  <2> QED BY <2>1, <2>2 DEF Booking
<1>3. PICK n \in Nat : n = spent[e]
  BY <1>1
<1>5. spent' = [spent EXCEPT ![e] = n]
  BY <1>3 DEF EnrichInv
<1>6. m + Gone(h) + p.cost + spent[e] = n + ledger + Gone(lost) + pass[e].cost
  <2>1. Gone(lost) \in Nat /\ Gone(h) \in Nat
    BY <1>1 DEF Gone, LostShape
  <2> QED BY <1>1, <1>2, <1>3, <2>1
<1>7. p.pc # "idle"
  OBVIOUS
<1>8. capped' \subseteq capped \cup {e}
  OBVIOUS
<1>9. e \in capped' => /\ m >= Cap /\ n = 0
                       /\ p.pc \in {"call", "read"} => p.built.provider # "anthropic"
  <2>1. SUFFICES ASSUME e \in capped PROVE m >= Cap /\ n = 0
    OBVIOUS
  <2>2. ledger >= Cap /\ spent[e] = 0
    BY <2>1 DEF EnrichInv, CappedOK
  <2> QED BY <1>1, <1>2, <1>3, <2>2, EnrichmentAssumption
<1>10. ~ChangeMidRun => CacheIsHonest'
  BY CacheStays
<1> QED BY <1>2, <1>5, <1>6, <1>7, <1>8, <1>9, <1>10, Works

LEMMA ApplyKeeps ==
    ASSUME EnrichInv, NEW e \in Passes, Apply(e)
    PROVE  EnrichInv'
<1>1. PICK p : p = [NewPass EXCEPT !.pc = "over"]
  OBVIOUS
<1>2. pass' = [pass EXCEPT ![e] = p]
  BY <1>1 DEF Apply, Over, SetPass
<1>3. PassOK(p) /\ p.cost = 0 /\ p.pc \notin {"idle", "call", "read"}
  BY <1>1, OverIsOK
<1>4. UNCHANGED <<redis, spent, capped, edits>> /\ Booking(pass[e].cost)
  BY DEF Apply, Booking, adminVars
<1>5. SameWorld
  <2>1. DOMAIN line' = Rows
    BY DEF Apply
  <2>2. ASSUME NEW r \in Rows
        PROVE  /\ DOMAIN line'[r] = RowFields
               /\ line'[r].enrichmentUserEdited = line[r].enrichmentUserEdited
    <3>1. DOMAIN line[r] = RowFields
      BY DEF EnrichInv
    <3>2. \/ line'[r] = line[r]
          \/ \E t, c, b : line'[r] = [line[r] EXCEPT !.text = t, !.cat = c, !.by = b]
      BY DEF Apply
    <3> QED BY <3>1, <3>2 DEF RowFields
  <2>3. settings' = settings
    BY DEF Apply, adminVars
  <2> QED BY <2>1, <2>2, <2>3 DEF SameWorld
<1> QED BY <1>2, <1>3, <1>4, <1>5, Books

LEMMA CatchKeeps ==
    ASSUME EnrichInv, NEW e \in Passes, Catch(e)
    PROVE  EnrichInv'
<1>1. PICK p : p = [NewPass EXCEPT !.pc = "over"]
  OBVIOUS
<1>2. pass' = [pass EXCEPT ![e] = p]
  BY <1>1 DEF Catch, Over, SetPass
<1>3. PassOK(p) /\ p.cost = 0 /\ p.pc \notin {"idle", "call", "read"}
  BY <1>1, OverIsOK
<1>4. UNCHANGED <<redis, spent, capped, edits>> /\ Booking(pass[e].cost)
  BY DEF Catch, BookFailed, Booking, adminVars
<1>5. SameWorld
  BY DEF Catch, adminVars, SameWorld, EnrichInv
<1> QED BY <1>2, <1>3, <1>4, <1>5, Books

LEMMA EnrichStepKeeps ==
    ASSUME EnrichInv, NEW e \in Passes, EnrichStep(e)
    PROVE  EnrichInv'
BY ReadTogglesKeeps, ReadRowsKeeps, ReadVersionKeeps, LookupKeeps, BuildKeeps, CheckCapKeeps,
   CallAnswersKeeps, CallFailsKeeps, KeepKeeps, ApplyKeeps, ApplyFailsKeeps, CatchKeeps
   DEF EnrichStep

-----------------------------------------------------------------------------
(* The steps of a run that reads check payees.                             *)

LEMMA BeginKeeps ==
    ASSUME EnrichInv, NEW e \in Passes, NEW wish \in Wishes, StartPass(e, wish)
    PROVE  EnrichInv'
<1>1. PICK o : o = pass[e] /\ PassOK(o) /\ DOMAIN o = PassFields
  BY AtHand
<1>2. o.pc = "idle" /\ o.cost = 0 /\ spent[e] = 0
  BY <1>1 DEF StartPass, EnrichInv, PassOK, Charged
<1>3. UNCHANGED <<line, redis, ledger, spent, lost, settings, edits>>
  BY DEF StartPass, adminVars
<1>4. PICK p : p = [NewPass EXCEPT !.pc = IF wish = {} THEN "checks" ELSE "toggles", !.wish = wish]
  OBVIOUS
<1>5. pass' = [pass EXCEPT ![e] = p]
  BY <1>4 DEF StartPass, SetPass
<1>6. /\ DOMAIN p = PassFields /\ p.pc = (IF wish = {} THEN "checks" ELSE "toggles")
      /\ p.cost = 0 /\ p.wish = wish /\ DOMAIN p.got = {} /\ p.left = {}
  BY <1>4 DEF NewPass, PassFields
<1>7. PassOK(p)
  <2>1. HandsOff(p) /\ Honest(p)
    BY <1>6 DEF HandsOff, Honest, Holding
  <2>2. wish \subseteq EnrichProc
    BY EnrichmentAssumption
  <2> QED BY <1>6, <2>1, <2>2 DEF PassOK, EnrichPc, CheckPc, Holding, Charged
<1>8. PICK m \in Nat : m = ledger
  BY DEF EnrichInv
<1>9. PICK n \in Nat : n = 0
  OBVIOUS
<1>10. ledger' = m /\ m >= ledger /\ spent' = [spent EXCEPT ![e] = n]
  BY <1>2, <1>3, <1>8, <1>9 DEF EnrichInv
<1>h. PICK h \in LostShape : h = lost /\ lost' = h /\ Gone(h) \in Nat
  BY <1>3 DEF EnrichInv, LostShape, Gone
<1>11. m + Gone(h) + p.cost + spent[e] = n + ledger + Gone(lost) + pass[e].cost
  BY <1>1, <1>2, <1>6, <1>8, <1>9, <1>h
<1>12. SameWorld
  BY <1>3 DEF SameWorld, EnrichInv
<1>13. capped' \subseteq capped \cup {e}
  BY DEF StartPass
<1>14. e \in capped' => /\ m >= Cap /\ n = 0
                        /\ p.pc \in {"call", "read"} => p.built.provider # "anthropic"
  <2>1. e \in capped' => ledger >= Cap
    BY DEF StartPass, SpendOnRecord, EnrichInv, CappedOK
  <2> QED BY <1>6, <1>8, <1>9, <2>1
<1>15. ~ChangeMidRun => CacheIsHonest'
  BY <1>3, CacheStays
<1>16. p.pc # "idle" /\ edits' = edits /\ lost' = h
  BY <1>3, <1>6, <1>h
<1> QED BY <1>5, <1>7, <1>10, <1>11, <1>12, <1>13, <1>14, <1>15, <1>16, Works

\* A run that reads check payees owes the cache and the rows nothing.
LEMMA CheckIsOK ==
    ASSUME NEW p, DOMAIN p = PassFields, p.pc \in CheckPc, p.cost \in Nat,
           p.pc # "book" => p.cost = 0, p.wish \subseteq EnrichProc
    PROVE  PassOK(p)
<1>1. HandsOff(p) /\ Honest(p)
  BY DEF HandsOff, Honest, Holding, CheckPc
<1> QED BY <1>1 DEF PassOK, EnrichPc, Holding, CheckPc, Charged, Blank

\* A step of such a run that charges and books nothing.
LEMMA CheckMoves ==
    ASSUME EnrichInv, NEW e \in Passes, NEW o, o = pass[e], NEW p, pass' = [pass EXCEPT ![e] = p],
           UNCHANGED <<line, redis, ledger, spent, lost, capped, settings, edits>>,
           o.pc \in CheckPc, o.pc # "book", DOMAIN p = PassFields, p.pc \in CheckPc,
           p.cost = o.cost, p.wish = o.wish,
           e \in capped /\ p.pc = "read" => p.built.provider # "anthropic"
    PROVE  EnrichInv'
<1>1. PassOK(o)
  BY DEF EnrichInv
<1>2. o.cost = 0 /\ o.wish \subseteq EnrichProc
  BY <1>1 DEF PassOK, Charged, CheckPc
<1>3. PassOK(p)
  BY <1>2, CheckIsOK
<1>4. p.pc \notin {"idle", "call"} /\ p.cost = pass[e].cost
  BY DEF CheckPc
<1>5. e \in capped /\ p.pc \in {"call", "read"} => p.built.provider # "anthropic"
  BY <1>4
<1> QED BY <1>3, <1>4, <1>5, Quiet

LEMMA ReadChecksKeeps ==
    ASSUME EnrichInv, NEW e \in Passes, ReadChecks(e)
    PROVE  EnrichInv'
<1>1. PICK o : o = pass[e] /\ PassOK(o) /\ DOMAIN o = PassFields
  BY AtHand
<1>2. o.pc = "checks" /\ pass[e].cost = 0
  BY <1>1 DEF ReadChecks, PassOK, Charged
<1>3. UNCHANGED <<line, redis, ledger, spent, lost, capped, settings, edits>>
  BY DEF ReadChecks, adminVars
<1>4. CASE Over(e)
  BY <1>2, <1>3, <1>4, EndsHere
<1>5. CASE ~Over(e)
  <2>1. PICK t : pass' = [pass EXCEPT ![e].pc = "local", ![e].todo = t]
    BY <1>5 DEF ReadChecks
  <2>2. PICK p : p = [o EXCEPT !.pc = "local", !.todo = t]
    OBVIOUS
  <2>3. pass' = [pass EXCEPT ![e] = p]
    BY <1>1, <2>1, <2>2 DEF EnrichInv, PassFields
  <2>4. /\ DOMAIN p = PassFields /\ p.pc \in CheckPc /\ p.pc # "read" /\ p.cost = o.cost
        /\ p.wish = o.wish /\ o.pc \in CheckPc /\ o.pc # "book"
    BY <1>1, <1>2, <2>2 DEF PassFields, CheckPc
  <2> QED BY <1>1, <1>3, <2>3, <2>4, CheckMoves
<1> QED BY <1>4, <1>5

LEMMA LocalProviderKeeps ==
    ASSUME EnrichInv, NEW e \in Passes, LocalProvider(e)
    PROVE  EnrichInv'
<1>1. PICK o : o = pass[e] /\ PassOK(o) /\ DOMAIN o = PassFields
  BY AtHand
<1>2. o.pc = "local"
  BY <1>1 DEF LocalProvider
<1>3. UNCHANGED <<line, redis, ledger, spent, lost, capped, settings, edits>>
  BY DEF LocalProvider, adminVars
<1>4. PICK b : b = constructLocal(settings.llm, "check", NoModel)
  OBVIOUS
<1>5. PICK p : p = IF localSlot # NoModel THEN [o EXCEPT !.pc = "text"]
                   ELSE [o EXCEPT !.pc = "store", !.built = b]
  OBVIOUS
<1>6. pass' = [pass EXCEPT ![e] = p]
  BY <1>1, <1>4, <1>5 DEF LocalProvider, PassGoes, EnrichInv, PassFields
<1>7. /\ DOMAIN p = PassFields /\ p.pc \in CheckPc /\ p.pc # "read" /\ p.cost = o.cost
      /\ p.wish = o.wish /\ o.pc \in CheckPc /\ o.pc # "book"
  BY <1>1, <1>2, <1>5 DEF PassFields, CheckPc
<1> QED BY <1>1, <1>3, <1>6, <1>7, CheckMoves

LEMMA StoreProviderKeeps ==
    ASSUME EnrichInv, NEW e \in Passes, StoreProvider(e)
    PROVE  EnrichInv'
<1>1. PICK o : o = pass[e] /\ PassOK(o) /\ DOMAIN o = PassFields
  BY AtHand
<1>2. o.pc = "store"
  BY <1>1 DEF StoreProvider
<1>3. UNCHANGED <<line, redis, ledger, spent, lost, capped, settings, edits>>
  BY DEF StoreProvider, adminVars
<1>5. PICK p : p = [o EXCEPT !.pc = "text"]
  OBVIOUS
<1>6. pass' = [pass EXCEPT ![e] = p]
  BY <1>1, <1>5 DEF StoreProvider, PassGoes, EnrichInv, PassFields
<1>7. /\ DOMAIN p = PassFields /\ p.pc \in CheckPc /\ p.pc # "read" /\ p.cost = o.cost
      /\ p.wish = o.wish /\ o.pc \in CheckPc /\ o.pc # "book"
  BY <1>1, <1>2, <1>5 DEF PassFields, CheckPc
<1> QED BY <1>1, <1>3, <1>6, <1>7, CheckMoves

LEMMA TextProviderKeeps ==
    ASSUME EnrichInv, NEW e \in Passes, TextProvider(e)
    PROVE  EnrichInv'
<1>1. PICK o : o = pass[e] /\ PassOK(o) /\ DOMAIN o = PassFields
  BY AtHand
<1>2. o.pc = "text"
  BY <1>1 DEF TextProvider
<1>3. UNCHANGED <<line, redis, ledger, spent, lost, capped, settings, edits>>
  BY DEF TextProvider, adminVars
<1>4. PICK b : pass' = [pass EXCEPT ![e].pc = "textcap", ![e].built = b]
  BY DEF TextProvider
<1>5. PICK p : p = [o EXCEPT !.pc = "textcap", !.built = b]
  OBVIOUS
<1>6. pass' = [pass EXCEPT ![e] = p]
  BY <1>1, <1>4, <1>5 DEF EnrichInv, PassFields
<1>7. /\ DOMAIN p = PassFields /\ p.pc \in CheckPc /\ p.pc # "read" /\ p.cost = o.cost
      /\ p.wish = o.wish /\ o.pc \in CheckPc /\ o.pc # "book"
  BY <1>1, <1>2, <1>5 DEF PassFields, CheckPc
<1> QED BY <1>1, <1>3, <1>6, <1>7, CheckMoves

LEMMA TextCapKeeps ==
    ASSUME EnrichInv, NEW e \in Passes, TextCap(e)
    PROVE  EnrichInv'
<1>1. PICK o : o = pass[e] /\ PassOK(o) /\ DOMAIN o = PassFields
  BY AtHand
<1>2. o.pc = "textcap"
  BY <1>1 DEF TextCap
<1>3. UNCHANGED <<line, redis, ledger, spent, lost, capped, settings, edits>>
  BY DEF TextCap, adminVars
<1>4. PICK b : b = IF CapAllows(e) THEN o.built
                   ELSE constructLocal(settings.llm, "check", NoModel)
  OBVIOUS
<1>5. PICK p : p = [o EXCEPT !.pc = "read", !.built = b]
  OBVIOUS
<1>6. pass' = [pass EXCEPT ![e] = p]
  BY <1>1, <1>4, <1>5 DEF TextCap, EnrichInv, PassFields
<1>7. /\ DOMAIN p = PassFields /\ p.pc \in CheckPc /\ p.cost = o.cost /\ p.built = b
      /\ p.wish = o.wish /\ o.pc \in CheckPc /\ o.pc # "book"
  BY <1>1, <1>2, <1>5 DEF PassFields, CheckPc
<1>8. e \in capped => b.provider # "anthropic"
  <2>1. CASE CapAllows(e)
    BY <1>1, <1>4, <2>1, CapHolds
  <2>2. CASE ~CapAllows(e)
    BY <1>4, <2>2 DEF constructLocal
  <2> QED BY <2>1, <2>2
<1>9. e \in capped /\ p.pc = "read" => p.built.provider # "anthropic"
  BY <1>7, <1>8
<1> QED BY <1>1, <1>3, <1>6, <1>7, <1>9, CheckMoves

LEMMA ReadPayeesKeeps ==
    ASSUME EnrichInv, NEW e \in Passes, ReadPayees(e)
    PROVE  EnrichInv'
<1>1. PICK o : o = pass[e] /\ PassOK(o) /\ DOMAIN o = PassFields
  BY AtHand
<1>2. o.pc = "read" /\ o.cost \in Nat /\ o.wish \subseteq EnrichProc
  BY <1>1 DEF ReadPayees, PassOK
<1>3. UNCHANGED <<line, redis, ledger, capped, settings, edits>>
  BY DEF ReadPayees, adminVars
<1>4. PICK end \in CallEnd, found \in SUBSET o.todo :
         /\ Charge(e, end)
         /\ pass' = [pass EXCEPT ![e].pc = "book", ![e].left = found,
                         ![e].cost = @ + CostOf(e, end)]
  BY <1>1 DEF ReadPayees
<1>5. PICK c \in Nat : c = o.cost + CostOf(e, end)
  BY <1>2, EnrichmentAssumption DEF CostOf, PriceOf
<1>6. PICK p : p = [o EXCEPT !.pc = "book", !.left = found, !.cost = c]
  OBVIOUS
<1>7. pass' = [pass EXCEPT ![e] = p]
  BY <1>1, <1>4, <1>5, <1>6 DEF EnrichInv, PassFields
<1>8. DOMAIN p = PassFields /\ p.pc = "book" /\ p.pc \in CheckPc /\ p.cost = c /\ p.wish = o.wish
  BY <1>1, <1>6 DEF PassFields, CheckPc
<1>9. PassOK(p)
  BY <1>2, <1>8, CheckIsOK
<1>10. p.pc \notin {"idle", "call", "read"} /\ p.cost = pass[e].cost + CostOf(e, end)
  BY <1>1, <1>5, <1>8
<1>11. pass[e].pc \in {"call", "read"}
  BY <1>1, <1>2
<1> QED BY <1>3, <1>4, <1>7, <1>9, <1>10, <1>11, CallKeeps

LEMMA BookPayeesKeeps ==
    ASSUME EnrichInv, NEW e \in Passes, BookPayees(e)
    PROVE  EnrichInv'
<1>1. PICK o : o = pass[e] /\ PassOK(o) /\ DOMAIN o = PassFields
  BY AtHand
<1>2. o.wish \subseteq EnrichProc
  BY <1>1 DEF PassOK
<1>3. UNCHANGED <<redis, spent, capped, edits>> /\ SameWorld
  BY DEF BookPayees, adminVars, SameWorld, EnrichInv
<1>4. CASE pass' = [pass EXCEPT ![e].pc = "stamp", ![e].cost = 0] /\ Booking(pass[e].cost)
  <2>1. PICK p : p = [o EXCEPT !.pc = "stamp", !.cost = 0]
    OBVIOUS
  <2>2. pass' = [pass EXCEPT ![e] = p]
    BY <1>1, <1>4, <2>1 DEF EnrichInv, PassFields
  <2>3. DOMAIN p = PassFields /\ p.pc = "stamp" /\ p.pc \in CheckPc /\ p.cost = 0 /\ p.wish = o.wish
    BY <1>1, <2>1 DEF PassFields, CheckPc
  <2>4. PassOK(p) /\ p.pc \notin {"idle", "call", "read"}
    BY <1>2, <2>3, CheckIsOK
  <2> QED BY <1>3, <1>4, <2>2, <2>3, <2>4, Books
<1>5. CASE Over(e) /\ Booking(pass[e].cost)
  <2>1. PICK p : p = [NewPass EXCEPT !.pc = "over"]
    OBVIOUS
  <2>2. pass' = [pass EXCEPT ![e] = p]
    BY <1>5, <2>1 DEF Over, SetPass
  <2>3. PassOK(p) /\ p.cost = 0 /\ p.pc \notin {"idle", "call", "read"}
    BY <2>1, OverIsOK
  <2> QED BY <1>3, <1>5, <2>2, <2>3, Books
<1> QED BY <1>4, <1>5 DEF BookPayees, Booking

LEMMA StampPayeeKeeps ==
    ASSUME EnrichInv, NEW e \in Passes, StampPayee(e)
    PROVE  EnrichInv'
<1>1. PICK o : o = pass[e] /\ PassOK(o) /\ DOMAIN o = PassFields
  BY AtHand
<1>2. o.pc = "stamp" /\ o.cost = 0 /\ o.wish \subseteq EnrichProc
  BY <1>1 DEF StampPayee, PassOK, Charged
<1>3. UNCHANGED <<redis, ledger, spent, lost, capped, settings, edits>>
  BY DEF StampPayee, adminVars
<1>4. CASE o.left = {}
  <2>1. Over(e) /\ UNCHANGED line /\ pass[e].cost = 0
    BY <1>1, <1>2, <1>4 DEF StampPayee
  <2>2. UNCHANGED <<line, redis, ledger, spent, lost, capped, settings, edits>>
    BY <1>3, <2>1
  <2> QED BY <2>1, <2>2, EndsHere
<1>5. CASE o.left # {}
  <2>1. PICK r, l : /\ pass' = [pass EXCEPT ![e].left = l]
                    /\ line' = IF PayeeWritable(r) THEN [line EXCEPT ![r].payee = "read"] ELSE line
    BY <1>1, <1>5 DEF StampPayee
  <2>2. PICK p : p = [o EXCEPT !.left = l]
    OBVIOUS
  <2>3. pass' = [pass EXCEPT ![e] = p]
    BY <1>1, <2>1, <2>2 DEF EnrichInv, PassFields
  <2>4. /\ DOMAIN p = PassFields /\ p.pc = "stamp" /\ p.pc \in CheckPc /\ p.cost = 0
        /\ p.wish = o.wish
    BY <1>1, <1>2, <2>2 DEF PassFields, CheckPc
  <2>5. PassOK(p)
    BY <1>2, <2>4, CheckIsOK
  <2>6. SameWorld
    BY <1>3, <2>1 DEF SameWorld, EnrichInv, RowFields
  <2>7. pass[e].cost = 0 /\ Booking(pass[e].cost)
    BY <1>1, <1>2, <1>3 DEF Booking, addStatementLlmCost, EnrichInv
  <2>8. p.pc \notin {"idle", "call", "read"} /\ p.cost = 0
    BY <2>4
  <2>9. UNCHANGED <<redis, spent, capped, edits>>
    BY <1>3
  <2> QED BY <2>3, <2>5, <2>6, <2>7, <2>8, <2>9, Books
<1> QED BY <1>4, <1>5

LEMMA CheckStepKeeps ==
    ASSUME EnrichInv, NEW e \in Passes, CheckStep(e)
    PROVE  EnrichInv'
BY ReadChecksKeeps, LocalProviderKeeps, StoreProviderKeeps, TextProviderKeeps, TextCapKeeps,
   ReadPayeesKeeps, BookPayeesKeeps, StampPayeeKeeps DEF CheckStep

-----------------------------------------------------------------------------
(* The operator, the admin, and the whole.                                 *)

\* A step of the operator or of an admin, which no run takes.
LEMMA OutsideRuns ==
    ASSUME EnrichInv, UNCHANGED <<redis, ledger, spent, lost, pass, capped>>,
           settings' \in Configs, edits' \in Nat,
           DOMAIN line' = Rows, \A r \in Rows : DOMAIN line'[r] = RowFields,
           \A e \in Passes : PassOK(pass[e])'
    PROVE  EnrichInv'
<1>1. Booked'
  BY DEF EnrichInv, Booked
<1>2. \A e \in capped : CappedOK(e)'
  BY DEF EnrichInv, CappedOK
<1>3. ~ChangeMidRun => CacheIsHonest'
  BY CacheStays
<1> QED BY <1>1, <1>2, <1>3 DEF EnrichInv

\* While its rows keep their marks and the settings stay, a run is well.
LEMMA RunsAreWell ==
    ASSUME EnrichInv, pass' = pass, SameWorld
    PROVE  \A e \in Passes : PassOK(pass[e])'
<1>1. SUFFICES ASSUME NEW e \in Passes PROVE PassOK(pass[e])'
  OBVIOUS
<1>2. PICK o : o = pass[e] /\ o = pass'[e]
  OBVIOUS
<1>3. PassOK(o)
  BY <1>2 DEF EnrichInv
<1>4. PassOK(o)'
  BY <1>3, RunKeeps
<1> QED BY <1>2, <1>4

LEMMA EditPayeeKeeps ==
    ASSUME EnrichInv, NEW r \in Rows, EditPayee(r)
    PROVE  EnrichInv' /\ edits' # edits
<1>1. PICK new : /\ new = [line[r] EXCEPT !.payee = new.payee]
                 /\ line' = [line EXCEPT ![r] = [new EXCEPT !.userEdited = TRUE]]
  <2>1. PICK payee : EditRow(r, [line[r] EXCEPT !.payee = payee])
    BY DEF EditPayee
  <2>2. PICK new : new = [line[r] EXCEPT !.payee = payee]
    OBVIOUS
  <2>3. new = [line[r] EXCEPT !.payee = new.payee]
    BY <2>2 DEF EnrichInv, RowFields
  <2> QED BY <2>1, <2>2, <2>3 DEF EditRow
<1>2. /\ UNCHANGED <<redis, ledger, spent, lost, pass, capped, settings>>
      /\ edits' \in Nat /\ edits' # edits
  BY DEF EditPayee, EditRow, adminVars, EnrichInv
<1>3. SameWorld
  BY <1>1, <1>2 DEF SameWorld, EnrichInv, RowFields
<1>4. \A e \in Passes : PassOK(pass[e])'
  BY <1>2, <1>3, RunsAreWell
<1> QED BY <1>2, <1>3, <1>4, OutsideRuns DEF SameWorld, EnrichInv

LEMMA WipeRowsKeeps ==
    ASSUME EnrichInv, WipeStatement
    PROVE  EnrichInv' /\ edits' # edits
<1>1. /\ UNCHANGED <<redis, ledger, spent, lost, pass, capped, settings>>
      /\ edits' \in Nat /\ edits' # edits
  BY DEF WipeStatement, adminVars, EnrichInv
<1>2. SameWorld
  BY <1>1 DEF WipeStatement, SameWorld, EnrichInv, RowFields
<1>3. \A e \in Passes : PassOK(pass[e])'
  BY <1>1, <1>2, RunsAreWell
<1> QED BY <1>1, <1>2, <1>3, OutsideRuns DEF SameWorld, EnrichInv

\* What the operator or an admin may disturb of a run, only a run that is not at
\* work may have disturbed.
LEMMA RunMayLose ==
    ASSUME NEW p, PassOK(p), HandsOff(p)' \/ EditMidRun, Honest(p)' \/ ChangeMidRun
    PROVE  PassOK(p)'
BY DEF PassOK

LEMMA EditEnrichmentKeeps ==
    ASSUME EnrichInv, NEW r \in Rows, EditEnrichment(r)
    PROVE  EnrichInv' /\ edits' # edits
<1>1. /\ UNCHANGED <<redis, ledger, spent, lost, pass, capped, settings>>
      /\ edits' \in Nat /\ edits' # edits
  <2>1. PICK new : EditRow(r, new)
    BY DEF EditEnrichment
  <2> QED BY <2>1 DEF EditRow, adminVars, EnrichInv
<1>2. PICK new : DOMAIN new = RowFields /\ line' = [line EXCEPT ![r] = [new EXCEPT !.userEdited = TRUE]]
  BY DEF EditEnrichment, EditRow, EnrichInv
<1>3. DOMAIN line' = Rows /\ \A k \in Rows : DOMAIN line'[k] = RowFields
  BY <1>2 DEF EnrichInv, RowFields
<1>4. ASSUME NEW e \in Passes PROVE PassOK(pass[e])'
  <2>1. PICK o : o = pass[e] /\ o = pass'[e] /\ PassOK(o)
    BY <1>1 DEF EnrichInv
  <2>2. HandsOff(o)' \/ EditMidRun
    <3>1. SUFFICES ASSUME ~EditMidRun PROVE HandsOff(o)'
      OBVIOUS
    <3>2. ~ (PassAtWork(e) /\ pass[e].wish # {})
      BY <3>1 DEF EditEnrichment, Enriching
    <3>3. o.pc \notin Holding
      BY <2>1, <3>2 DEF PassAtWork, PassOK, Holding, EnrichPc
    <3> QED BY <3>3 DEF HandsOff
  <2>3. Honest(o)' \/ ChangeMidRun
    <3>1. Honest(o) => Honest(o)'
      BY <1>1 DEF Honest, cacheVersionFor, Cleansed, Maker, Second, AuthorOf
    <3> QED BY <2>1, <3>1, EnrichmentAssumption DEF PassOK
  <2>4. PassOK(o)'
    BY <2>1, <2>2, <2>3, RunMayLose
  <2> QED BY <2>1, <2>4
<1> QED BY <1>1, <1>3, <1>4, OutsideRuns DEF EnrichInv

LEMMA SaveSettingsKeeps ==
    ASSUME EnrichInv, NEW cfg \in Configs, SaveSettings(cfg)
    PROVE  EnrichInv' /\ line' = line
<1>1. UNCHANGED <<line, redis, ledger, spent, lost, pass, capped, edits>> /\ settings' \in Configs
  BY DEF SaveSettings
<1>2. ASSUME NEW e \in Passes PROVE PassOK(pass[e])'
  <2>1. PICK o : o = pass[e] /\ o = pass'[e] /\ PassOK(o)
    BY <1>1 DEF EnrichInv
  <2>2. HandsOff(o)' \/ EditMidRun
    <3>1. HandsOff(o) => HandsOff(o)'
      BY <1>1 DEF HandsOff
    <3> QED BY <2>1, <3>1, EnrichmentAssumption DEF PassOK
  <2>3. Honest(o)' \/ ChangeMidRun
    <3>1. SUFFICES ASSUME ~ChangeMidRun PROVE Honest(o)'
      OBVIOUS
    <3>2. o.pc \in {"idle", "over"}
      BY <2>1, <3>1 DEF SaveSettings, MayChange, PassAtWork
    <3> QED BY <3>2 DEF Honest
  <2>4. PassOK(o)'
    BY <2>1, <2>2, <2>3, RunMayLose
  <2> QED BY <2>1, <2>4
<1> QED BY <1>1, <1>2, OutsideRuns DEF EnrichInv

\* Nothing of it is in the invariant.
LEMMA ElsewhereKeeps ==
    ASSUME EnrichInv,
           UNCHANGED <<line, settings, redis, ledger, spent, lost, pass, capped, edits>>
    PROVE  EnrichInv'
<1>1. SameWorld
  BY DEF SameWorld, EnrichInv
<1>2. \A e \in Passes : PassOK(pass[e])'
  BY <1>1, RunsAreWell
<1> QED BY <1>1, <1>2, OutsideRuns DEF SameWorld, EnrichInv

LEMMA EnrichInvInit == ASSUME EnrichInit PROVE EnrichInv
<1>1. DOMAIN line = Rows /\ \A r \in Rows : DOMAIN line[r] = RowFields
  BY DEF EnrichInit, RowFields
<1>2. /\ settings \in Configs /\ edits \in Nat /\ ledger \in Nat /\ spent \in [Passes -> Nat]
      /\ DOMAIN pass = Passes /\ capped = {} /\ lost \in LostShape
  BY DEF EnrichInit, LostShape
<1>3. ASSUME NEW e \in Passes PROVE PassOK(pass[e]) /\ spent[e] = 0
  <2>1. PICK p : p = pass[e] /\ p = NewPass
    BY DEF EnrichInit
  <2>2. /\ DOMAIN p = PassFields /\ p.pc = "idle" /\ p.cost = 0 /\ p.wish = {}
        /\ DOMAIN p.got = {} /\ p.left = {}
    BY <2>1 DEF NewPass, PassFields
  <2>3. HandsOff(p) /\ Honest(p)
    BY <2>2 DEF HandsOff, Honest, Holding
  <2>4. PassOK(p)
    BY <2>2, <2>3 DEF PassOK, EnrichPc, CheckPc, Holding, Charged
  <2> QED BY <2>1, <2>4 DEF EnrichInit
<1>4. CacheIsHonest
  BY DEF EnrichInit, CacheIsHonest
<1>5. Booked
  <2>1. IsFiniteSet(Passes)
    BY EnrichmentAssumption
  <2>2. PICK P, s : P = pass /\ s = spent
    OBVIOUS
  <2>3. \A e \in Passes : P[e].cost = 0 /\ s[e] = 0
    BY <2>2 DEF EnrichInit, NewPass
  <2>4. PICK f : f = [e \in Passes |-> P[e].cost]
    OBVIOUS
  <2>5. \A e \in Passes : f[e] = 0
    BY <2>3, <2>4
  <2>6. PICK a : Adds(a, f, Passes) /\ Costs(P) = a[Passes]
    <3>1. \A e \in Passes : P[e].cost \in Int
      BY <2>3
    <3> QED BY <2>1, <2>4, <3>1, CostsAddUp
  <2>7. PICK b : Adds(b, s, Passes) /\ Charges(s) = b[Passes]
    <3>1. \A e \in Passes : s[e] \in Int
      BY <2>3
    <3> QED BY <2>1, <3>1, ChargesAddUp
  <2>8. PICK x : x = 0
    OBVIOUS
  <2>9. Follows(Passes, a, b, x, f, s)
    <3>1. \A k \in Passes : f[k] \in Int /\ s[k] \in Int /\ (k # x => s[k] = f[k])
      BY <2>3, <2>5
    <3> QED BY <2>1, <2>6, <2>7, <3>1, SumChange
  <2>10. Costs(pass) = Charges(spent) /\ Costs(pass) \in Int
    <3>1. x \in Passes => s[x] = 0 /\ f[x] = 0
      BY <2>3, <2>5
    <3> QED BY <2>2, <2>6, <2>7, <2>9, <3>1 DEF Follows
  <2>11. ledger = 0 /\ Gone(lost) = 0
    BY DEF EnrichInit, Gone
  <2> QED BY <2>10, <2>11 DEF Booked
<1> QED BY <1>1, <1>2, <1>3, <1>4, <1>5 DEF EnrichInv

LEMMA EnrichInvNext == ASSUME EnrichInv, [EnrichNext]_enrichVars PROVE EnrichInv'
<1>1. CASE \E e \in Passes : \E wish \in Wishes : StartPass(e, wish)
  BY <1>1, BeginKeeps
<1>2. CASE \E e \in Passes : EnrichStep(e) \/ CheckStep(e)
  BY <1>2, EnrichStepKeeps, CheckStepKeeps
<1>3. CASE \E r \in Rows : EditEnrichment(r) \/ EditPayee(r)
  BY <1>3, EditEnrichmentKeeps, EditPayeeKeeps
<1>4. CASE WipeStatement
  BY <1>4, WipeRowsKeeps
<1>5. CASE \E cfg \in Configs : SaveSettings(cfg)
  BY <1>5, SaveSettingsKeeps
<1>6. CASE ClearProviders \/ SlotExpires \/ \E c \in Categories : ArchiveCategory(c)
  <2>1. UNCHANGED <<line, settings, redis, ledger, spent, lost, pass, capped, edits>>
    BY <1>6 DEF ClearProviders, SlotExpires, ArchiveCategory, adminVars
  <2> QED BY <2>1, ElsewhereKeeps
<1>7. CASE UNCHANGED enrichVars
  <2>1. UNCHANGED <<line, settings, redis, ledger, spent, lost, pass, capped, edits>>
    BY <1>7 DEF enrichVars
  <2> QED BY <2>1, ElsewhereKeeps
<1> QED BY <1>1, <1>2, <1>3, <1>4, <1>5, <1>6, <1>7 DEF EnrichNext

\* An enrichment writes its rows in one step, and so does a payee.
LEMMA OnlyApplyWrites ==
    ASSUME NEW e \in Passes, EnrichStep(e)
    PROVE  line' = line \/ Apply(e)
<1>1. CASE ReadToggles(e) \/ ReadCandidates(e) \/ ReadVersion(e)
  BY <1>1 DEF ReadToggles, ReadCandidates, ReadVersion
<1>2. CASE Lookup(e)
  BY <1>2 DEF Lookup
<1>3. CASE Build(e) \/ CheckCap(e)
  BY <1>3 DEF Build, CheckCap
<1>4. CASE CallAnswers(e) \/ CallFails(e)
  BY <1>4 DEF CallAnswers, CallFails
<1>5. CASE KeepAnswers(e) \/ ApplyFails(e) \/ Catch(e)
  BY <1>5 DEF KeepAnswers, ApplyFails, Catch
<1> QED BY <1>1, <1>2, <1>3, <1>4, <1>5 DEF EnrichStep

LEMMA OnlyStampWrites ==
    ASSUME NEW e \in Passes, CheckStep(e)
    PROVE  line' = line \/ StampPayee(e)
<1>1. CASE ReadChecks(e) \/ LocalProvider(e) \/ StoreProvider(e)
  BY <1>1 DEF ReadChecks, LocalProvider, StoreProvider
<1>2. CASE TextProvider(e) \/ TextCap(e)
  BY <1>2 DEF TextProvider, TextCap
<1>3. CASE ReadPayees(e) \/ BookPayees(e)
  BY <1>3 DEF ReadPayees, BookPayees
<1> QED BY <1>1, <1>2, <1>3 DEF CheckStep

\* The invariant holds whatever the operator and the admins do beside the runs.
THEOREM EnrichmentInvariant == EnrichSpec => []EnrichInv
BY EnrichInvInit, EnrichInvNext, PTL DEF EnrichSpec

\* Whichever way a run ends, what Anthropic charged for it is on the
\* statement's ledger or in its hands, once and all of it but for the replies a
\* call threw away and the bookings refused, and nothing is charged to a run that
\* began when the ledger had reached the cap: with runs side by side, edits and
\* changed settings between any two of their steps.
THEOREM EveryChargeIsAccounted == EnrichSpec => []SpendIsAccounted
<1>1. ASSUME EnrichInv PROVE SpendIsAccounted
  <2>1. SpendIsBooked
    BY <1>1, BookedIsBooked
  <2>2. NoSpendPastCap
    BY <1>1 DEF EnrichInv, CappedOK, NoSpendPastCap
  <2> QED BY <2>1, <2>2 DEF SpendIsAccounted
<1> QED BY <1>1, EnrichmentInvariant, PTL

\* With no admin saving settings under a run, a cached answer is replayed only
\* for the model, the prompt and the categories it came from.
THEOREM CacheStaysHonest == ~ChangeMidRun => (EnrichSpec => []CacheIsHonest)
<1> SUFFICES ASSUME ~ChangeMidRun PROVE EnrichSpec => []CacheIsHonest
  OBVIOUS
<1>1. EnrichInv => CacheIsHonest
  BY DEF EnrichInv
<1> QED BY <1>1, EnrichmentInvariant, PTL

\* With no edit under an enrichment, no run replaces what an operator typed.
THEOREM TypedTextStays == ~EditMidRun => (EnrichSpec => HandEditsSurvive)
<1> SUFFICES ASSUME ~EditMidRun PROVE EnrichSpec => HandEditsSurvive
  OBVIOUS
<1> DEFINE Kept == edits' = edits =>
               \A r \in Rows :
                  /\ line[r].enrichmentUserEdited =>
                        line'[r].text = line[r].text /\ line'[r].cat = line[r].cat
                  /\ line[r].userEdited /\ line[r].payee # "none" => line'[r].payee = line[r].payee
<1>1. ASSUME EnrichInv, EnrichNext PROVE Kept
  <2>1. CASE line' = line
    BY <2>1
  <2>2. ASSUME NEW e \in Passes, Apply(e) PROVE Kept
    <3>1. PassOK(pass[e]) /\ pass[e].pc = "apply"
      BY <1>1, <2>2 DEF EnrichInv, Apply
    <3>2. \A r \in Rows \cap DOMAIN pass[e].got : ~line[r].enrichmentUserEdited
      BY <3>1 DEF PassOK, HandsOff, Holding
    <3>3. ASSUME NEW r \in Rows
          PROVE  /\ r \notin DOMAIN pass[e].got => line'[r] = line[r]
                 /\ \/ line'[r] = line[r]
                    \/ \E t, c, b : line'[r] = [line[r] EXCEPT !.text = t, !.cat = c, !.by = b]
      BY <2>2 DEF Apply
    <3>4. \A r \in Rows : line'[r].payee = line[r].payee
      BY <1>1, <3>3 DEF EnrichInv, RowFields
    <3> QED BY <3>2, <3>3, <3>4
  <2>3. ASSUME NEW e \in Passes, StampPayee(e) PROVE Kept
    <3>1. \/ line' = line
          \/ \E r \in pass[e].left : PayeeWritable(r) /\ line' = [line EXCEPT ![r].payee = "read"]
      BY <2>3 DEF StampPayee
    <3>2. ASSUME NEW k, PayeeWritable(k), line' = [line EXCEPT ![k].payee = "read"] PROVE Kept
      <4>1. \A r \in Rows : r # k => line'[r] = line[r]
        BY <1>1, <3>2 DEF EnrichInv
      <4>2. k \in Rows => line'[k] = [line[k] EXCEPT !.payee = "read"]
        BY <1>1, <3>2 DEF EnrichInv
      <4>3. k \in Rows => line'[k].text = line[k].text /\ line'[k].cat = line[k].cat
        BY <1>1, <4>2 DEF EnrichInv, RowFields
      <4> QED BY <3>2, <4>1, <4>3 DEF PayeeWritable
    <3> QED BY <3>1, <3>2
  <2>4. CASE edits' # edits
    BY <2>4
  <2>5. \/ line' = line \/ edits' # edits
        \/ \E e \in Passes : Apply(e) \/ StampPayee(e)
    <3>1. CASE \E e \in Passes : \E wish \in Wishes : StartPass(e, wish)
      BY <3>1 DEF StartPass
    <3>2. CASE \E e \in Passes : EnrichStep(e) \/ CheckStep(e)
      BY <3>2, OnlyApplyWrites, OnlyStampWrites
    <3>3. CASE \E r \in Rows : EditEnrichment(r) \/ EditPayee(r)
      BY <1>1, <3>3, EditEnrichmentKeeps, EditPayeeKeeps
    <3>4. CASE WipeStatement
      BY <1>1, <3>4, WipeRowsKeeps
    <3>5. CASE \E cfg \in Configs : SaveSettings(cfg)
      BY <3>5 DEF SaveSettings
    <3>6. CASE ClearProviders \/ SlotExpires \/ \E c \in Categories : ArchiveCategory(c)
      BY <3>6 DEF ClearProviders, SlotExpires, ArchiveCategory
    <3> QED BY <1>1, <3>1, <3>2, <3>3, <3>4, <3>5, <3>6 DEF EnrichNext
  <2> QED BY <2>1, <2>2, <2>3, <2>4, <2>5
<1>2. ASSUME EnrichInv, [EnrichNext]_enrichVars PROVE [Kept]_enrichVars
  BY <1>1, <1>2
<1> HIDE DEF Kept
<1>3. EnrichSpec => [][Kept]_enrichVars
  BY <1>2, EnrichmentInvariant, PTL DEF EnrichSpec
<1>4. ASSUME [Kept]_enrichVars
      PROVE  [edits' = edits =>
               \A r \in Rows :
                  /\ line[r].enrichmentUserEdited =>
                        line'[r].text = line[r].text /\ line'[r].cat = line[r].cat
                  /\ line[r].userEdited /\ line[r].payee # "none" => line'[r].payee = line[r].payee]_enrichVars
  BY <1>4 DEF Kept
<1> QED BY <1>3, <1>4, PTL DEF HandEditsSurvive

=============================================================================
