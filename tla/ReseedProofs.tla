---------------------------- MODULE ReseedProofs ----------------------------
(***************************************************************************)
(* Theorems about Reseed, for any fixtures, curated sets, accounts and      *)
(* bounds: what the scripts stage stays staged, a script that reports       *)
(* success leaves what it promises, and no run of the account script takes  *)
(* a real password or half of the accounts along.                           *)
(***************************************************************************)
EXTENDS Reseed, FiniteSetTheorems, SequenceTheorems, TLAPS

-----------------------------------------------------------------------------
\* Types.

VersionSet == [doc : Docs, gen : Nat, no : Nat, by : {"staged", "empty", "worker", "e2e"}]

Places == {"idle", "wipe", "wiping", "seed", "pairs", "found", "staging", "accounts", "check"}
Jobs == {"none", "seed", "seed+pairs", "reseed", "accounts"}

ScriptSet == [pc : Places, job : Jobs, args : Runs \cup {<<>>}, todo : Seq(STRING),
              doomed : SUBSET VersionSet, result : Outcomes]

CorpusTypes ==
    /\ gen \in [Docs -> Nat] /\ row \in [Docs -> Nat]
    /\ schedule \in [Docs -> {"none", "due", "later", "parked"}]
    /\ versions \subseteq VersionSet /\ IsFiniteSet(versions)
    /\ worker \in [pc : {"idle", "claimed", "inserted"}, doc : Docs]
    /\ script \in ScriptSet

LEMMA NamesTyped ==
    /\ Fixed \subseteq STRING /\ E2EDoc \notin Fixed /\ Docs \subseteq STRING
    /\ Paired \subseteq Fixed /\ Paired \subseteq Docs
    /\ \A d \in Paired : Reserved(d)
<1> DEFINE R == [id : STRING, iso : STRING, text : Texts]
<1>r. Fixtures \in Seq(R)
  BY FixturesAssumption
<1> HIDE DEF R
<1>e. \A i \in DOMAIN Fixtures : Fixtures[i] \in R
  BY <1>r
<1>1. \A i \in DOMAIN Fixtures : Fixtures[i].id \in STRING /\ Fixtures[i].id # E2EDoc
  BY <1>e, FixturesAssumption DEF R
<1>2. Fixed \subseteq STRING /\ E2EDoc \notin Fixed
  BY <1>1 DEF Fixed
<1>3. E2EDoc \in STRING
  BY FixturesAssumption
<1>4. Paired \subseteq Fixed
  BY DEF Paired, TextOf
<1> QED
  BY <1>2, <1>3, <1>4 DEF Docs, Paired, Reserved

LEMMA ScriptsTyped ==
    /\ NoScript \in ScriptSet
    /\ \A result \in Outcomes : Failed(result) \in ScriptSet
    /\ \A job \in Jobs, p \in Places, r \in Runs \cup {<<>>} : Started(job, p, r) \in ScriptSet
    /\ script \in ScriptSet => Succeeded \in ScriptSet /\ AfterSeed \in ScriptSet
<1>1. <<>> \in Seq(STRING)
  OBVIOUS
<1>2. NoScript \in ScriptSet
  BY <1>1 DEF NoScript, ScriptSet, Places, Jobs, Outcomes
<1>3. \A result \in Outcomes : Failed(result) \in ScriptSet
  BY <1>2 DEF Failed, NoScript, ScriptSet
<1>4. \A job \in Jobs, p \in Places, r \in Runs \cup {<<>>} : Started(job, p, r) \in ScriptSet
  BY <1>2 DEF Started, NoScript, ScriptSet
<1>5. ASSUME script \in ScriptSet PROVE Succeeded \in ScriptSet /\ AfterSeed \in ScriptSet
  BY <1>1, <1>5 DEF Succeeded, AfterSeed, ScriptSet, Places, Outcomes
<1> QED
  BY <1>2, <1>3, <1>4, <1>5

LEMMA NextPairTyped ==
    ASSUME script \in ScriptSet, script.todo # <<>>
    PROVE  NextPair \in ScriptSet
<1>1. script.todo \in Seq(STRING)
  BY DEF ScriptSet
<1>2. Tail(script.todo) \in Seq(STRING)
  BY <1>1, HeadTailProperties
<1>3. PICK t : t = Tail(script.todo)
  OBVIOUS
<1>4. [script EXCEPT !.pc = "pairs", !.todo = t] \in ScriptSet
  BY <1>2, <1>3 DEF ScriptSet, Places
<1> QED
  BY <1>3, <1>4, ScriptsTyped DEF NextPair

\* The rows of run_seed are fixtures; their text depends on their id alone.
LEMMA SelectedRows ==
    ASSUME NEW c, NEW i \in DOMAIN Select(c)
    PROVE  /\ i \in DOMAIN Fixtures
           /\ Select(c)[i].id = Fixtures[i].id /\ Select(c)[i].text = Fixtures[i].text
           /\ Select(c)[i].id \in Fixed
  BY DEF Select, Fixed

LEMMA SelectedTexts ==
    ASSUME NEW c, NEW i \in DOMAIN Select(c), NEW j \in DOMAIN Select(c),
           Select(c)[i].id = Select(c)[j].id
    PROVE  i = j
  BY SelectedRows, FixturesAssumption

-----------------------------------------------------------------------------
\* What the scripts stage stays staged.

Rows ==
    /\ schedule[E2EDoc] = "none"
    /\ \A d \in Docs : /\ row[d] <= gen[d]
                       /\ row[d] = 0 => schedule[d] = "none"
                       /\ row[d] # 0 /\ d # E2EDoc => schedule[d] # "none"
    /\ \A v \in versions : 0 < v.gen /\ v.gen <= gen[v.doc]

Claimed == worker.pc # "idle" => schedule[worker.doc] = "due"

\* A pair is inserted while its document has no versions, and the worker has
\* none in hand.
PairAtHand ==
    /\ script.pc \in {"pairs", "found", "staging"} => script.todo # <<>>
    /\ script.pc \in {"found", "staging"} =>
          Head(script.todo) \in Paired /\ row[Head(script.todo)] # 0
    /\ script.pc = "staging" =>
          ~ Has(Head(script.todo)) /\ ~ (worker.pc = "inserted" /\ worker.doc = Head(script.todo))

CorpusInv == CorpusTypes /\ Rows /\ Claimed /\ PairAtHand /\ StagedStays

LEMMA InitCorpusInv == CorpusInit => CorpusInv
<1> SUFFICES ASSUME CorpusInit PROVE CorpusInv
  OBVIOUS
<1>1. CorpusTypes
  BY ScriptsTyped, FS_EmptySet DEF CorpusInit, CorpusTypes, NoPoll, Docs
<1> QED
  BY <1>1, NamesTyped
  DEF CorpusInit, CorpusInv, Rows, Claimed, PairAtHand, StagedStays, NoPoll, NoScript, Docs

\* A step that moves nothing but the script, to a place outside the pairs.
LEMMA ScriptMoves ==
    ASSUME CorpusInv, UNCHANGED <<gen, row, schedule, versions, worker>>, script' \in ScriptSet,
           script'.pc \notin {"pairs", "found", "staging"}
    PROVE  CorpusInv'
  BY DEF CorpusInv, CorpusTypes, Rows, Claimed, PairAtHand, StagedStays, VersionsOf

\* run_seed numbers the rows of the fixtures that had none, and stages them.
LEMMA RunSeedKeeps ==
    ASSUME CorpusInv, NEW c, RunSeed(c), UNCHANGED worker, script.pc = "seed"
    PROVE  /\ script' \in ScriptSet => CorpusTypes'
           /\ Rows' /\ Claimed' /\ StagedStays'
<1> USE DEF CorpusInv
<1> DEFINE rows == Select(c)
           fresh == {i \in DOMAIN rows : row[rows[i].id] = 0}
           staged == {i \in fresh : /\ ~Reserved(rows[i].id)
                                    /\ rows[i].text \in {"empty", "clauses"}}
           parked == {i \in staged : rows[i].text = "clauses"}
           At(d) == CHOOSE i \in DOMAIN rows : rows[i].id = d
           Ids(is) == {rows[i].id : i \in is}
           by(i) == IF i \in parked THEN "staged" ELSE "empty"
           made == {Version(rows[i].id, gen'[rows[i].id], 1, by(i)) : i \in staged}
<1>1. /\ gen' = [d \in Docs |-> IF d \in Ids(fresh) THEN gen[d] + 1 ELSE gen[d]]
      /\ row' = [d \in Docs |-> IF d \in Ids(fresh) THEN gen'[d] ELSE row[d]]
      /\ schedule' = [d \in Docs |->
           IF d \in Ids(parked) THEN "parked"
           ELSE IF d \in Ids(DOMAIN rows) /\ NewSchedule(rows, At(d))
           THEN FirstPoll(rows, At(d)) ELSE schedule[d]]
      /\ versions' = versions \cup made
  BY DEF RunSeed
<1>2. \A i \in DOMAIN rows : rows[i].id \in Fixed /\ rows[i].id \in Docs /\ rows[i].id # E2EDoc
  BY SelectedRows, NamesTyped DEF Docs
<1>3. \A i, j \in DOMAIN rows : rows[i].id = rows[j].id => i = j
  BY SelectedTexts
<1>4. \A d \in Ids(DOMAIN rows) : At(d) \in DOMAIN rows /\ rows[At(d)].id = d
  OBVIOUS
<1>5. \A i : FirstPoll(rows, i) \in {"due", "later"}
  BY DEF FirstPoll
<1> HIDE DEF rows
<1>6. \A d \in Docs : d \in Ids(fresh) => row[d] = 0 /\ d # E2EDoc
  BY <1>2
<1>7. gen' \in [Docs -> Nat] /\ row' \in [Docs -> Nat]
  BY <1>1 DEF CorpusTypes
<1>8. schedule' \in [Docs -> {"none", "due", "later", "parked"}]
  BY <1>1, <1>5 DEF CorpusTypes
<1>9. \A d \in Docs : d \in Ids(fresh) => gen'[d] = gen[d] + 1 /\ row'[d] = gen[d] + 1
  BY <1>1, <1>7
<1>10. \A d \in Docs : d \notin Ids(fresh) => gen'[d] = gen[d] /\ row'[d] = row[d]
  BY <1>1
<1>11. \A v \in made : \E i \in staged :
          /\ v = Version(rows[i].id, gen'[rows[i].id], 1, by(i))
          /\ v.doc = rows[i].id /\ v.gen = gen[rows[i].id] + 1
          /\ v.by = by(i) /\ rows[i].id \in Ids(fresh) /\ rows[i].id \in Docs
  <2>1. ASSUME NEW i \in staged
        PROVE  rows[i].id \in Ids(fresh) /\ rows[i].id \in Docs /\ i \in DOMAIN rows
    BY <1>2
  <2> QED
    BY <2>1, <1>9 DEF Version
<1>12. made \subseteq VersionSet
  BY <1>7, <1>11 DEF VersionSet, Version
<1>13. IsFiniteSet(versions')
  <2>1. staged \subseteq 1 .. Len(Fixtures)
    BY SelectedRows, FixturesAssumption DEF rows
  <2>2. IsFiniteSet(staged)
    <3>1. Len(Fixtures) \in Nat
      BY FixturesAssumption
    <3>2. IsFiniteSet(1 .. Len(Fixtures))
      BY <3>1, FS_Interval
    <3> QED
      BY <2>1, <3>2, FS_Subset
  <2>3. IsFiniteSet(made)
    <3> DEFINE f == [i \in staged |-> Version(rows[i].id, gen'[rows[i].id], 1, by(i))]
    <3> HIDE DEF staged
    <3>1. made = {f[i] : i \in staged}
      OBVIOUS
    <3>2. IsFiniteSet({f[i] : i \in staged})
      <4> DEFINE T == {f[i] : i \in staged}
      <4>1. f \in Surjection(staged, T)
        BY DEF Surjection
      <4> QED
        BY <2>2, <4>1, FS_Surjection
    <3> QED
      BY <3>1, <3>2
  <2> QED
    BY <1>1, <2>3, FS_Union DEF CorpusTypes
<1> HIDE DEF fresh, staged, made
<1>14. script' \in ScriptSet => CorpusTypes'
  BY <1>1, <1>7, <1>8, <1>12, <1>13 DEF CorpusTypes
<1>15. \A d \in Docs :
          \/ d \in Ids(parked) /\ schedule'[d] = "parked"
          \/ schedule[d] = "none" /\ d \in Ids(DOMAIN rows) /\ schedule'[d] \in {"due", "later"}
          \/ schedule'[d] = schedule[d]
             /\ (d \in Ids(DOMAIN rows) => schedule[d] # "none")
  <2> SUFFICES ASSUME NEW d \in Docs, d \notin Ids(parked)
               PROVE  \/ /\ schedule[d] = "none" /\ d \in Ids(DOMAIN rows)
                         /\ schedule'[d] \in {"due", "later"}
                      \/ schedule'[d] = schedule[d]
                         /\ (d \in Ids(DOMAIN rows) => schedule[d] # "none")
    BY <1>1
  <2>1. CASE d \in Ids(DOMAIN rows)
    <3>1. NewSchedule(rows, At(d)) <=> schedule[d] = "none"
      BY <2>1, <1>4 DEF NewSchedule, rows
    <3> QED
      BY <2>1, <3>1, <1>1, <1>5
  <2>2. CASE d \notin Ids(DOMAIN rows)
    BY <2>2, <1>1
  <2> QED
    BY <2>1, <2>2
<1>16. Ids(parked) \subseteq Ids(fresh) /\ Ids(fresh) \subseteq Ids(DOMAIN rows)
  BY DEF staged, fresh
<1>17. Rows'
  <2>1. schedule'[E2EDoc] = "none"
    <3>1. E2EDoc \in Docs /\ E2EDoc \notin Ids(DOMAIN rows)
      BY <1>2 DEF Docs
    <3> QED
      BY <3>1, <1>15, <1>16 DEF Rows
  <2>2. ASSUME NEW d \in Docs
        PROVE  /\ row'[d] <= gen'[d]
               /\ row'[d] = 0 => schedule'[d] = "none"
               /\ row'[d] # 0 /\ d # E2EDoc => schedule'[d] # "none"
    <3>1. CASE d \in Ids(fresh)
      BY <3>1, <1>9, <1>15, <1>16 DEF CorpusTypes
    <3>2. CASE d \notin Ids(fresh)
      <4>1. d \in Ids(DOMAIN rows) => row[d] # 0
        BY <3>2 DEF fresh
      <4> QED
        BY <3>2, <4>1, <1>10, <1>15, <1>16 DEF CorpusTypes, Rows
    <3> QED
      BY <3>1, <3>2
  <2>3. ASSUME NEW v \in versions' PROVE 0 < v.gen /\ v.gen <= gen'[v.doc]
    <3>1. CASE v \in versions
      <4>1. v.doc \in Docs /\ v.gen \in Nat /\ 0 < v.gen /\ v.gen <= gen[v.doc]
        BY <3>1 DEF CorpusTypes, VersionSet, Rows
      <4>2. gen[v.doc] \in Nat /\ (gen'[v.doc] = gen[v.doc] \/ gen'[v.doc] = gen[v.doc] + 1)
        BY <4>1, <1>9, <1>10 DEF CorpusTypes
      <4> QED
        BY <4>1, <4>2
    <3>2. CASE v \in made
      <4>1. v.doc \in Docs /\ v.gen = gen[v.doc] + 1 /\ gen'[v.doc] = gen[v.doc] + 1
        BY <3>2, <1>9, <1>11
      <4> QED
        BY <4>1 DEF CorpusTypes
    <3> QED
      BY <3>1, <3>2, <1>1
  <2> QED
    BY <2>1, <2>2, <2>3 DEF Rows
<1>18. Claimed'
  <2> SUFFICES ASSUME worker.pc # "idle" PROVE schedule'[worker.doc] = "due"
    BY DEF Claimed
  <2>1. schedule[worker.doc] = "due" /\ worker.doc \in Docs
    BY DEF Claimed, CorpusTypes
  <2>2. worker.doc \notin Ids(fresh)
    BY <2>1, <1>6 DEF Rows
  <2> QED
    BY <2>1, <2>2, <1>15, <1>16
<1>19. StagedStays'
  <2> SUFFICES ASSUME NEW v \in versions', v.by = "staged"
               PROVE  /\ \A w \in versions' : w.doc = v.doc /\ w.gen = v.gen => w.by = "staged"
                      /\ v.gen = row'[v.doc] => schedule'[v.doc] = "parked"
    BY DEF StagedStays, VersionsOf
  <2>1. CASE v \in versions
    <3>1. v.doc \in Docs /\ v.gen \in Nat /\ v.gen <= gen[v.doc] /\ gen[v.doc] \in Nat
      BY <2>1 DEF CorpusTypes, VersionSet, Rows
    <3>2. ASSUME NEW w \in versions', w.doc = v.doc, w.gen = v.gen PROVE w.by = "staged"
      <4>1. w \notin made
        BY <3>1, <3>2, <1>11
      <4> QED
        BY <2>1, <3>2, <4>1, <1>1 DEF StagedStays, VersionsOf
    <3>3. ASSUME v.gen = row'[v.doc] PROVE schedule'[v.doc] = "parked"
      <4>1. v.doc \notin Ids(fresh)
        BY <3>1, <3>3, <1>9
      <4>2. schedule[v.doc] = "parked"
        BY <2>1, <3>1, <3>3, <4>1, <1>10 DEF StagedStays
      <4> QED
        BY <3>1, <4>2, <1>15
    <3> QED
      BY <3>2, <3>3
  <2>2. CASE v \in made
    <3>1. PICK i \in staged :
             /\ v.doc = rows[i].id /\ v.gen = gen[rows[i].id] + 1 /\ v.by = by(i)
             /\ rows[i].id \in Docs
      BY <2>2, <1>11
    <3>2. i \in parked
      BY <3>1
    <3>3. ASSUME NEW w \in versions', w.doc = v.doc, w.gen = v.gen PROVE w.by = "staged"
      <4>1. w \notin versions
        BY <3>1, <3>3 DEF CorpusTypes, Rows
      <4>2. PICK j \in staged : w.doc = rows[j].id /\ w.by = by(j)
        BY <4>1, <1>1, <1>11
      <4>3. j = i
        BY <3>1, <3>3, <4>2, <1>3 DEF staged, fresh, rows
      <4> QED
        BY <3>2, <4>2, <4>3
    <3>4. v.doc \in Ids(parked) /\ v.doc \in Docs
      BY <3>1, <3>2
    <3>5. schedule'[v.doc] = "parked"
      BY <3>4, <1>1
    <3> QED
      BY <3>3, <3>5
  <2> QED
    BY <2>1, <2>2, <1>1
<1> QED
  BY <1>14, <1>17, <1>18, <1>19

LEMMA SeedKeeps ==
    ASSUME CorpusInv, NEW c, SeedDocuments(c)
    PROVE  CorpusInv'
<1> USE DEF CorpusInv
<1>1. CASE ~ Valid(c)
  BY <1>1, ScriptMoves, ScriptsTyped DEF SeedDocuments, Failed, NoScript, Outcomes
<1>2. CASE Valid(c)
  <2>1. RunSeed(c) /\ UNCHANGED worker /\ script.pc = "seed"
    BY <1>2 DEF SeedDocuments
  <2>2. \/ script' = AfterSeed
        \/ /\ script' = [script EXCEPT !.pc = "pairs", !.todo = V2Files]
           /\ V2Files # <<>>
    <3>1. script' = IF script.job = "seed" \/ V2Files = <<>> THEN AfterSeed
                    ELSE [script EXCEPT !.pc = "pairs", !.todo = V2Files]
      BY <1>2 DEF SeedDocuments
    <3>2. CASE script.job = "seed" \/ V2Files = <<>>
      <4>1. script' = AfterSeed
        BY <3>1, <3>2, Zenon
      <4> QED
        BY <4>1
    <3>3. CASE ~ (script.job = "seed" \/ V2Files = <<>>)
      BY <3>1, <3>3
    <3> QED
      BY <3>2, <3>3
  <2>3. script' \in ScriptSet
    <3>1. V2Files \in Seq(STRING) /\ script \in ScriptSet
      BY FixturesAssumption DEF CorpusTypes
    <3>2. [script EXCEPT !.pc = "pairs", !.todo = V2Files] \in ScriptSet
      BY <3>1 DEF ScriptSet, Places
    <3> QED
      BY <2>2, <3>1, <3>2, ScriptsTyped
  <2>4. PairAtHand'
    <3>1. CASE script' = AfterSeed
      <4>1. AfterSeed.pc \in {"accounts", "idle"}
        BY DEF AfterSeed, Succeeded, CorpusTypes, ScriptSet
      <4> QED
        BY <3>1, <4>1 DEF PairAtHand
    <3>2. CASE script' = [script EXCEPT !.pc = "pairs", !.todo = V2Files] /\ V2Files # <<>>
      BY <3>2 DEF PairAtHand, CorpusTypes, ScriptSet
    <3> QED
      BY <2>2, <3>1, <3>2
  <2> QED
    BY <2>1, <2>3, <2>4, RunSeedKeeps
<1> QED
  BY <1>1, <1>2

\* After a pair comes the next, or what follows the last.
LEMMA NextPairPlace ==
    ASSUME script \in ScriptSet, script.todo # <<>>
    PROVE  \/ NextPair = AfterSeed /\ Len(script.todo) = 1 /\ NextPair.pc \in {"accounts", "idle"}
           \/ /\ NextPair = [script EXCEPT !.pc = "pairs", !.todo = Tail(script.todo)]
              /\ NextPair.pc = "pairs" /\ NextPair.todo = Tail(script.todo)
              /\ NextPair.todo # <<>> /\ Len(script.todo) # 1
<1>1. CASE Len(script.todo) = 1
  BY <1>1 DEF NextPair, AfterSeed, Succeeded, ScriptSet
<1>2. CASE Len(script.todo) # 1
  <2>1. script.todo \in Seq(STRING)
    BY DEF ScriptSet
  <2>2. Len(Tail(script.todo)) = Len(script.todo) - 1 /\ Len(script.todo) \in Nat
    BY <2>1, HeadTailProperties, LenProperties
  <2>3. Tail(script.todo) # <<>>
    <3>1. Len(script.todo) # 0
      BY <2>1, EmptySeq
    <3>2. Len(Tail(script.todo)) # 0
      BY <1>2, <2>2, <3>1
    <3>3. Len(<<>>) = 0
      BY EmptySeq
    <3> QED
      BY <3>2, <3>3, Zenon
  <2> QED
    BY <1>2, <2>3 DEF NextPair, ScriptSet
<1> QED
  BY <1>1, <1>2

LEMMA PairsKeep ==
    ASSUME CorpusInv, PairFind \/ PairInsert
    PROVE  CorpusInv'
<1> USE DEF CorpusInv
<1>1. /\ UNCHANGED <<gen, row, schedule, versions, worker>> /\ script.todo # <<>>
      /\ script \in ScriptSet
  BY DEF PairFind, PairInsert, PairAtHand, CorpusTypes
<1>2. CASE script' = NextPair
  <2>1. CASE NextPair.pc \in {"accounts", "idle"}
    BY <1>1, <1>2, <2>1, ScriptMoves, NextPairTyped
  <2>2. CASE NextPair.pc = "pairs" /\ NextPair.todo # <<>>
    <3>1. script' \in ScriptSet
      BY <1>1, <1>2, NextPairTyped
    <3> QED
      BY <1>1, <1>2, <2>2, <3>1
      DEF CorpusTypes, Rows, Claimed, PairAtHand, StagedStays, VersionsOf
  <2> QED
    BY <1>1, <2>1, <2>2, NextPairPlace
<1>3. CASE script' = Failed("failed")
  BY <1>1, <1>3, ScriptMoves, ScriptsTyped DEF Failed, NoScript, Outcomes
<1>4. CASE /\ PairFind /\ script' = [script EXCEPT !.pc = "found"]
           /\ Head(script.todo) \in Paired /\ row[Head(script.todo)] # 0
  <2>1. script' \in ScriptSet /\ script'.pc = "found" /\ script'.todo = script.todo
    BY <1>1, <1>4 DEF ScriptSet, Places
  <2> QED
    BY <1>1, <1>4, <2>1 DEF CorpusTypes, Rows, Claimed, PairAtHand, StagedStays, VersionsOf
<1>5. CASE /\ PairInsert /\ script' = [script EXCEPT !.pc = "staging"]
           /\ ~ Has(Head(script.todo))
  <2>1. script' \in ScriptSet /\ script'.pc = "staging" /\ script'.todo = script.todo
    BY <1>1, <1>5 DEF ScriptSet, Places
  <2>2. /\ script.pc = "found" /\ ~ (worker.pc = "inserted" /\ worker.doc = Head(script.todo))
        /\ ~ Has(Head(script.todo))'
    BY <1>1, <1>5 DEF PairInsert, Has, VersionsOf
  <2> QED
    BY <1>1, <2>1, <2>2 DEF CorpusTypes, Rows, Claimed, PairAtHand, StagedStays, VersionsOf
<1> QED
  BY <1>2, <1>3, <1>4, <1>5 DEF PairFind, PairInsert

LEMMA ParkKeeps ==
    ASSUME CorpusInv, PairPark
    PROVE  CorpusInv'
<1> USE DEF CorpusInv
<1> DEFINE d == Head(script.todo)
           made == {Version(d, row[d], 1, "staged"), Version(d, row[d], 2, "staged")}
<1>1. /\ script.pc = "staging" /\ ~ Locked(d) /\ versions' = versions \cup made
      /\ schedule' = ParkRow(d) /\ script' = NextPair
      /\ UNCHANGED <<gen, row, worker>>
  BY DEF PairPark
<1>2. /\ d \in Docs /\ d # E2EDoc /\ row[d] # 0 /\ ~ Has(d) /\ script.todo # <<>>
      /\ row[d] \in Nat /\ schedule[d] # "none"
  BY <1>1, NamesTyped DEF PairAtHand, CorpusTypes, Rows
<1> HIDE DEF d
<1>3. schedule' = [schedule EXCEPT ![d] = "parked"]
  BY <1>1, <1>2 DEF ParkRow, CorpusTypes
<1>4. \A v \in made : /\ v \in VersionSet /\ v.doc = d /\ v.gen = row[d] /\ v.by = "staged"
  BY <1>2 DEF Version, VersionSet
<1>5. IsFiniteSet(versions')
  <2>1. versions' = (versions \cup {Version(d, row[d], 1, "staged")})
                        \cup {Version(d, row[d], 2, "staged")}
    BY <1>1
  <2> QED
    BY <2>1, FS_AddElement DEF CorpusTypes
<1> HIDE DEF made
<1>6. script' \in ScriptSet
  BY <1>1, <1>2, NextPairTyped DEF CorpusTypes
<1>7. CorpusTypes'
  BY <1>1, <1>3, <1>4, <1>5, <1>6 DEF CorpusTypes
<1>8. Rows'
  BY <1>1, <1>2, <1>3, <1>4 DEF Rows, CorpusTypes
<1>9. Claimed'
  BY <1>1, <1>2, <1>3 DEF Claimed, Locked, CorpusTypes
<1>10. PairAtHand'
  BY <1>1, <1>2, NextPairPlace DEF PairAtHand, CorpusTypes
<1>11. StagedStays'
  <2> SUFFICES ASSUME NEW v \in versions', v.by = "staged"
               PROVE  /\ \A w \in versions' : w.doc = v.doc /\ w.gen = v.gen => w.by = "staged"
                      /\ v.gen = row[v.doc] => schedule'[v.doc] = "parked"
    BY <1>1 DEF StagedStays, VersionsOf
  <2>1. \A w \in versions : ~ (w.doc = d /\ w.gen = row[d])
    BY <1>2 DEF Has, VersionsOf
  <2>2. v.doc \in Docs
    BY <1>1, <1>2, <1>4 DEF CorpusTypes, VersionSet
  <2>3. CASE v \in versions
    BY <2>1, <2>2, <2>3, <1>1, <1>3, <1>4 DEF StagedStays, VersionsOf, CorpusTypes
  <2>4. CASE v \in made
    BY <2>1, <2>2, <2>4, <1>1, <1>3, <1>4 DEF CorpusTypes
  <2> QED
    BY <2>3, <2>4, <1>1
<1> QED
  BY <1>7, <1>8, <1>9, <1>10, <1>11

LEMMA WipeKeeps ==
    ASSUME CorpusInv, WipeVersions \/ WipeDocuments
    PROVE  CorpusInv'
<1> USE DEF CorpusInv
<1>1. CASE WipeVersions
  <2>1. script' = [script EXCEPT !.pc = "wiping", !.doomed = versions]
        /\ UNCHANGED <<gen, row, schedule, versions, worker>>
    BY <1>1 DEF WipeVersions
  <2>2. script' \in ScriptSet /\ script'.pc = "wiping"
    BY <2>1 DEF ScriptSet, Places, CorpusTypes
  <2> QED
    BY <2>1, <2>2, ScriptMoves
<1>2. CASE WipeDocuments
  <2>1. /\ versions' = versions \ script.doomed /\ row' = [d \in Docs |-> 0]
        /\ schedule' = [d \in Docs |-> "none"] /\ worker.pc = "idle"
        /\ script' = [script EXCEPT !.pc = "seed", !.doomed = {}]
        /\ UNCHANGED <<gen, worker>>
    BY <1>2 DEF WipeDocuments
  <2>2. script' \in ScriptSet /\ script'.pc = "seed"
    BY <2>1 DEF ScriptSet, Places, CorpusTypes
  <2>3. IsFiniteSet(versions')
    BY <2>1, FS_Subset DEF CorpusTypes
  <2>4. E2EDoc \in Docs
    BY DEF Docs
  <2>5. CorpusTypes'
    BY <2>1, <2>2, <2>3 DEF CorpusTypes
  <2>6. Rows'
    BY <2>1, <2>4 DEF Rows, CorpusTypes
  <2>7. Claimed' /\ PairAtHand'
    BY <2>1, <2>2 DEF Claimed, PairAtHand
  <2>8. StagedStays'
    BY <2>1 DEF StagedStays, VersionsOf, Rows, CorpusTypes, VersionSet
  <2> QED
    BY <2>5, <2>6, <2>7, <2>8
<1> QED
  BY <1>1, <1>2

\* The worker meets a staged document only before it is staged.
LEMMA WorkerKeeps ==
    ASSUME CorpusInv,
           \/ \E d \in Docs : Claim(d) \/ CadencePasses(d)
           \/ WorkerInsert \/ WorkerNothingNew \/ WorkerCommit \/ WorkerRollsBack \/ Deadlock
    PROVE  CorpusInv'
<1> USE DEF CorpusInv
<1>1. ASSUME NEW d \in Docs, Claim(d) PROVE CorpusInv'
  BY <1>1
  DEF Claim, CorpusTypes, Rows, Claimed, PairAtHand, StagedStays, VersionsOf, Has
<1>2. ASSUME NEW d \in Docs, CadencePasses(d) PROVE CorpusInv'
  BY <1>2
  DEF CadencePasses, CorpusTypes, Rows, Claimed, PairAtHand, StagedStays, VersionsOf, Has, Locked,
      VersionSet
<1>3. CASE WorkerInsert
  <2>1. /\ worker' = [worker EXCEPT !.pc = "inserted"] /\ worker.pc = "claimed"
        /\ UNCHANGED <<gen, row, schedule, versions, script>>
        /\ ~ (script.pc = "staging" /\ Head(script.todo) = worker.doc)
    BY <1>3 DEF WorkerInsert, WorkerWaits
  <2> QED
    BY <2>1 DEF CorpusTypes, Rows, Claimed, PairAtHand, StagedStays, VersionsOf, Has
<1>4. CASE WorkerNothingNew
  <2>1. /\ schedule' = [schedule EXCEPT ![worker.doc] = "later"] /\ worker' = NoPoll
        /\ UNCHANGED <<gen, row, versions, script>>
        /\ worker.doc \in Docs /\ schedule[worker.doc] = "due"
    BY <1>4 DEF WorkerNothingNew, Claimed, CorpusTypes
  <2> QED
    BY <2>1 DEF CorpusTypes, Rows, Claimed, PairAtHand, StagedStays, VersionsOf, Has, NoPoll,
                Docs, VersionSet
<1>5. CASE WorkerCommit
  <2> DEFINE d == worker.doc
             v0 == Version(d, row[d], Cardinality(VersionsOf(d, row[d])) + 1, "worker")
  <2>1. /\ versions' = versions \cup {v0} /\ schedule' = [schedule EXCEPT ![d] = "later"]
        /\ worker' = NoPoll /\ UNCHANGED <<gen, row, script>> /\ worker.pc = "inserted"
    BY <1>5 DEF WorkerCommit
  <2>2. d \in Docs /\ schedule[d] = "due" /\ row[d] # 0 /\ row[d] \in Nat /\ d # E2EDoc
    BY <2>1 DEF Claimed, CorpusTypes, Rows
  <2>3. Cardinality(VersionsOf(d, row[d])) \in Nat
    BY FS_Subset, FS_CardinalityType, VersionsOf(d, row[d]) \subseteq versions
    DEF VersionsOf, CorpusTypes
  <2> HIDE DEF d
  <2>4. v0 \in VersionSet /\ v0.doc = d /\ v0.gen = row[d] /\ v0.by = "worker"
    BY <2>2, <2>3 DEF Version, VersionSet
  <2>5. IsFiniteSet(versions')
    BY <2>1, FS_AddElement DEF CorpusTypes
  <2> HIDE DEF v0
  <2>6. CorpusTypes'
    BY <2>1, <2>4, <2>5 DEF CorpusTypes, NoPoll, Docs
  <2>7. Rows'
    BY <2>1, <2>2, <2>4 DEF Rows, CorpusTypes
  <2>8. Claimed'
    BY <2>1 DEF Claimed, NoPoll
  <2>9. PairAtHand'
    <3>1. script.pc = "staging" => Head(script.todo) # d
      BY <2>1 DEF PairAtHand, d
    <3>2. script.pc = "staging" => ~ Has(Head(script.todo))'
      BY <2>1, <2>4, <3>1 DEF PairAtHand, Has, VersionsOf
    <3> QED
      BY <2>1, <3>2 DEF PairAtHand, NoPoll
  <2>10. StagedStays'
    <3>1. \A v \in versions : v.by = "staged" => ~ (v.doc = d /\ v.gen = row[d])
      BY <2>2 DEF StagedStays
    <3>2. \A v \in versions : v.doc \in Docs
      BY DEF CorpusTypes, VersionSet
    <3> QED
      BY <2>1, <2>2, <2>4, <3>1, <3>2 DEF StagedStays, VersionsOf, CorpusTypes
  <2> QED
    BY <2>6, <2>7, <2>8, <2>9, <2>10
<1>6. CASE WorkerRollsBack
  BY <1>6
  DEF WorkerRollsBack, CorpusTypes, Rows, Claimed, PairAtHand, StagedStays, VersionsOf, Has,
      NoPoll, Docs
<1>7. CASE Deadlock
  <2>1. CASE worker' = NoPoll /\ UNCHANGED script
    BY <1>7, <2>1
    DEF Deadlock, CorpusTypes, Rows, Claimed, PairAtHand, StagedStays, VersionsOf, Has, NoPoll, Docs
  <2>2. CASE script' = Failed("failed") /\ UNCHANGED worker
    BY <1>7, <2>2, ScriptMoves, ScriptsTyped DEF Deadlock, Failed, NoScript, Outcomes
  <2> QED
    BY <1>7, <2>1, <2>2 DEF Deadlock
<1> QED
  BY <1>1, <1>2, <1>3, <1>4, <1>5, <1>6, <1>7

\* The fixtures of the browser tests are a document of their own.
LEMMA E2EKeeps ==
    ASSUME CorpusInv, E2ETeardown \/ E2ESeed
    PROVE  CorpusInv'
<1> USE DEF CorpusInv
<1>1. E2EDoc \in Docs /\ script.pc = "idle" /\ UNCHANGED <<schedule, worker, script>>
  BY DEF Docs, E2ETeardown, E2ESeed
<1>2. Claimed' /\ PairAtHand'
  BY <1>1 DEF Claimed, PairAtHand
<1>3. CASE E2ETeardown
  <2>1. versions' \subseteq versions /\ row' = [row EXCEPT ![E2EDoc] = 0] /\ UNCHANGED gen
    BY <1>3 DEF E2ETeardown
  <2>2. IsFiniteSet(versions')
    BY <2>1, FS_Subset DEF CorpusTypes
  <2>3. CorpusTypes'
    BY <1>1, <2>1, <2>2 DEF CorpusTypes
  <2>4. Rows'
    BY <1>1, <2>1 DEF Rows, CorpusTypes
  <2>5. StagedStays'
    BY <1>1, <2>1 DEF StagedStays, VersionsOf, CorpusTypes, VersionSet, Rows
  <2> QED
    BY <1>2, <2>3, <2>4, <2>5
<1>4. CASE E2ESeed
  <2> DEFINE g == gen[E2EDoc] + 1
             v0 == Version(E2EDoc, g, 0, "e2e")
  <2>1. /\ gen' = [gen EXCEPT ![E2EDoc] = g] /\ row' = [row EXCEPT ![E2EDoc] = g]
        /\ versions' = versions \cup {v0} /\ g \in Nat
    BY <1>1, <1>4 DEF E2ESeed, E2EVersions, CorpusTypes
  <2>2. /\ v0 \in VersionSet /\ v0.doc = E2EDoc /\ v0.gen = g /\ v0.by = "e2e"
        /\ g > 0 /\ g > gen[E2EDoc] /\ gen[E2EDoc] \in Nat
    BY <1>1, <2>1 DEF Version, VersionSet, CorpusTypes
  <2>3. IsFiniteSet(versions')
    BY <2>1, FS_AddElement DEF CorpusTypes
  <2> HIDE DEF v0, g
  <2>4. CorpusTypes'
    BY <1>1, <2>1, <2>2, <2>3 DEF CorpusTypes
  <2>5. \A v \in versions : v.doc \in Docs /\ v.gen \in Nat /\ v.gen <= gen[v.doc]
    BY DEF CorpusTypes, VersionSet, Rows
  <2>6. Rows'
    <3>1. \A v \in versions : 0 < v.gen /\ v.gen <= gen'[v.doc]
      BY <2>1, <2>2, <2>5 DEF Rows, CorpusTypes
    <3> QED
      BY <1>1, <2>1, <2>2, <3>1 DEF Rows, CorpusTypes
  <2>7. StagedStays'
    <3>1. \A v \in versions : v.doc = E2EDoc => v.gen # g
      BY <2>2, <2>5
    <3> QED
      BY <1>1, <2>1, <2>2, <2>5, <3>1 DEF StagedStays, VersionsOf, CorpusTypes
  <2> QED
    BY <1>2, <2>4, <2>6, <2>7
<1> QED
  BY <1>3, <1>4

LEMMA CorpusKept == CorpusInv /\ [Next]_vars => CorpusInv'
<1> SUFFICES ASSUME CorpusInv, [Next]_vars PROVE CorpusInv'
  OBVIOUS
<1>1. CASE CorpusNext
  <2>1. ASSUME NEW stage \in BOOLEAN, StartSeed(stage) PROVE CorpusInv'
    BY <2>1, ScriptMoves, ScriptsTyped
    DEF StartSeed, Started, NoScript, Jobs, Places
  <2>2. CASE ScriptDies
    BY <2>2, ScriptMoves, ScriptsTyped DEF ScriptDies, Failed, NoScript, Outcomes
  <2> QED
    BY <1>1, <2>1, <2>2, SeedKeeps, PairsKeep, ParkKeeps, WipeKeeps, WorkerKeeps, E2EKeeps
    DEF CorpusNext
<1>2. CASE UNCHANGED corpusVars
  BY <1>2
  DEF corpusVars, CorpusInv, CorpusTypes, Rows, Claimed, PairAtHand, StagedStays, VersionsOf, Has
<1>3. CASE StartReseed
  <2>1. \/ \E r \in Runs : script' = Started("reseed", "wipe", r)
        \/ script' = Failed("refused")
    BY <1>3 DEF StartReseed
  <2>2. UNCHANGED <<gen, row, schedule, versions, worker>>
    BY <1>3 DEF StartReseed
  <2> QED
    <3>1. CASE script' = Failed("refused")
      BY <2>2, <3>1, ScriptMoves, ScriptsTyped DEF Failed, NoScript, Outcomes
    <3>2. ASSUME NEW r \in Runs, script' = Started("reseed", "wipe", r) PROVE CorpusInv'
      <4>1. script' \in ScriptSet
        BY <3>2, ScriptsTyped DEF Jobs, Places
      <4>2. script'.pc = "wipe"
        BY <3>2 DEF Started, NoScript
      <4> QED
        BY <2>2, <4>1, <4>2, ScriptMoves
    <3> QED
      BY <2>1, <3>1, <3>2
<1>4. CASE ReseedAccounts \/ Check
  <2>1. /\ UNCHANGED <<gen, row, schedule, versions, worker>>
        /\ \/ script' = [script EXCEPT !.pc = "check"] \/ script' = Succeeded
           \/ script' = Failed("failed") \/ script' = Failed("thin")
    BY <1>4 DEF ReseedAccounts, Check
  <2>2. script \in ScriptSet
    BY DEF CorpusInv, CorpusTypes
  <2>3. CASE script' = [script EXCEPT !.pc = "check"] \/ script' = Succeeded
    <3>1. script' \in ScriptSet /\ script'.pc \in {"check", "idle"}
      <4>1. [script EXCEPT !.pc = "check"] \in ScriptSet /\ [script EXCEPT !.pc = "check"].pc = "check"
        BY <2>2 DEF ScriptSet, Places
      <4>2. Succeeded \in ScriptSet /\ Succeeded.pc = "idle"
        BY <2>2, ScriptsTyped DEF Succeeded, ScriptSet
      <4> QED
        BY <2>3, <4>1, <4>2
    <3> QED
      BY <2>1, <3>1, ScriptMoves
  <2>4. CASE script' = Failed("failed") \/ script' = Failed("thin")
    BY <2>1, <2>4, ScriptMoves, ScriptsTyped DEF Failed, NoScript, Outcomes
  <2> QED
    BY <2>1, <2>3, <2>4
<1>5. CASE RunByHand
  <2>1. PICK r \in Runs :
           script' = IF RunOutcome(r) = "ok"
                     THEN [Started("accounts", "idle", r) EXCEPT !.result = "ok"]
                     ELSE Failed(RunOutcome(r))
    BY <1>5 DEF RunByHand
  <2>2. RunOutcome(r) \in Outcomes
    BY DEF RunOutcome, Outcomes
  <2>3. Started("accounts", "idle", r) \in ScriptSet /\ Started("accounts", "idle", r).pc = "idle"
    BY ScriptsTyped DEF Started, NoScript, Jobs, Places
  <2>4. script' \in ScriptSet /\ script'.pc = "idle"
    <3>1. PICK s : s = Started("accounts", "idle", r)
      OBVIOUS
    <3>2. [s EXCEPT !.result = "ok"] \in ScriptSet /\ [s EXCEPT !.result = "ok"].pc = "idle"
      BY <2>3, <3>1 DEF ScriptSet, Outcomes
    <3>3. Failed(RunOutcome(r)) \in ScriptSet /\ Failed(RunOutcome(r)).pc = "idle"
      <4>1. Failed(RunOutcome(r)) \in ScriptSet
        BY <2>2, ScriptsTyped
      <4> QED
        BY <4>1 DEF Failed, NoScript
    <3> QED
      BY <2>1, <3>1, <3>2, <3>3
  <2> QED
    BY <1>5, <2>4, ScriptMoves DEF RunByHand
<1> QED
  BY <1>1, <1>2, <1>3, <1>4, <1>5 DEF Next, CorpusStep, ApiStep, vars

\* What the scripts stage stays staged and parked in every behaviour, for any
\* fixtures and curated sets, however seeds, polls, wipes, deaths and deadlocks
\* interleave.
THEOREM ReseedStagedStays == Spec => []StagedStays
<1>1. Init => CorpusInv
  BY InitCorpusInv DEF Init
<1>2. CorpusInv => StagedStays
  BY DEF CorpusInv
<1>3. Init /\ [][Next]_vars => []StagedStays
  BY <1>1, <1>2, CorpusKept, PTL
<1> QED
  BY <1>3, PTL DEF Spec

-----------------------------------------------------------------------------
\* The accounts.

AccountTypes ==
    /\ cred \in [Accounts -> Passwords \cup {"default", "none"}]
    /\ uid \in [Accounts -> Nat]
    /\ subscribed = {c \in Clients : cred[c] # "none"}

Served(r) == (\A a \in Accounts : cred[a] = Resolved(r, a)) /\ subscribed = Clients

\* What a script holds of its arguments, and what it has done for the accounts.
AccountsPlace ==
    /\ script.pc \in {"wipe", "wiping", "accounts", "check"} => script.job = "reseed"
    /\ script.job = "reseed" => script.args \in Runs /\ script.args.reset
    /\ script.pc # "idle" => script.result = "none"
    /\ script.job = "accounts" => script.result = "ok"
    /\ script.job \in {"reseed", "accounts"} /\ (script.pc = "check" \/ script.result = "ok") =>
          Served(script.args)

AccountsInv == CorpusInv /\ AccountTypes /\ AccountsPlace

\* A run resolves a password for every account, and all or nothing follows.
LEMMA RunIsWhole ==
    ASSUME AccountTypes, NEW r \in Runs, RunAccounts(r)
    PROVE  /\ AccountTypes'
           /\ RunOutcome(r) = "ok" => Served(r)'
           /\ RunOutcome(r) # "ok" => UNCHANGED <<cred, uid, subscribed>>
           /\ RunOutcome(r) \in {"ok", "failed", "refused"}
           /\ RunOutcome(r) = "refused" => ~ r.reset
           /\ ~ r.reset => \A a \in Accounts :
                 ~ (cred[a] \in Passwords /\ cred'[a] = "default")
<1> USE AccountsAssumption
<1>1. \A a \in Accounts : Resolved(r, a) \in Passwords \cup {"default"}
  BY DEF Runs, Resolved
<1>2. RunOutcome(r) \in {"ok", "failed", "refused"}
  BY DEF RunOutcome
<1>3. Downgraded(r) # {} => ~ r.reset
  BY DEF Downgraded, Found
<1>4. RunOutcome(r) = "refused" => Downgraded(r) # {}
  BY DEF RunOutcome
<1>5. \A a \in Accounts : ~ r.reset => Found(r, a) = cred[a]
  BY DEF Found
<1>6. CASE RunOutcome(r) = "failed"
  <2>1. cred' = [a \in Accounts |-> cred[a]] /\ uid' = [a \in Accounts |-> uid[a]]
        /\ subscribed' = subscribed
    BY <1>6 DEF RunAccounts
  <2>2. UNCHANGED <<cred, uid, subscribed>>
    BY <2>1 DEF AccountTypes
  <2> QED
    BY <1>6, <2>2 DEF AccountTypes
<1>7. CASE RunOutcome(r) = "refused"
  <2>1. ~ r.reset
    BY <1>3, <1>4, <1>7
  <2>2. /\ cred' = [a \in Accounts |-> Found(r, a)] /\ uid' = [a \in Accounts |-> uid[a]]
        /\ subscribed' = subscribed \ {a \in Accounts : Found(r, a) = "none"}
    BY <1>7 DEF RunAccounts
  <2>3. UNCHANGED <<cred, uid, subscribed>>
    BY <1>5, <2>1, <2>2 DEF AccountTypes
  <2> QED
    BY <1>7, <2>1, <2>3 DEF AccountTypes
<1>8. CASE RunOutcome(r) = "ok"
  <2> DEFINE made == {a \in Accounts : Found(r, a) = "none"}
  <2>1. /\ cred' = [a \in Accounts |-> Resolved(r, a)]
        /\ uid' = [a \in Accounts |-> IF a \in made THEN uid[a] + 1 ELSE uid[a]]
        /\ subscribed' = (subscribed \ made) \cup (made \cap Clients)
    BY <1>8 DEF RunAccounts, CreateOrRotate
  <2>2. subscribed' = Clients
    <3>1. Clients \subseteq Accounts
      BY DEF Accounts
    <3>2. \A c \in Clients : c \notin made => cred[c] # "none"
      BY <3>1 DEF Found
    <3> QED
      BY <2>1, <3>1, <3>2 DEF AccountTypes
  <2>3. \A c \in Clients : cred'[c] # "none"
    BY <1>1, <2>1 DEF Accounts
  <2>4. AccountTypes'
    BY <1>1, <2>1, <2>2, <2>3 DEF AccountTypes
  <2>5. Served(r)'
    BY <2>1, <2>2 DEF Served, Resolved
  <2>6. ASSUME ~ r.reset, NEW a \in Accounts, cred[a] \in Passwords, cred'[a] = "default"
        PROVE  FALSE
    <3>1. Resolved(r, a) = "default"
      BY <2>1, <2>6
    <3>2. a \in FromDefault(r)
      BY <3>1 DEF Resolved, FromDefault, Runs
    <3>3. a \in Downgraded(r)
      BY <1>5, <2>6, <3>2 DEF Downgraded
    <3>4. Downgraded(r) = {}
      BY <1>8 DEF RunOutcome
    <3> QED
      BY <3>3, <3>4
  <2> QED
    BY <1>8, <2>4, <2>5, <2>6
<1> QED
  BY <1>2, <1>6, <1>7, <1>8

LEMMA InitAccountsInv == Init => AccountsInv
<1> SUFFICES ASSUME Init PROVE AccountsInv
  OBVIOUS
<1>1. CorpusInv
  BY InitCorpusInv DEF Init
<1>2. AccountTypes
  BY DEF Init, AccountsInit, AccountTypes, Accounts
<1>3. AccountsPlace
  BY DEF Init, CorpusInit, NoScript, AccountsPlace
<1> QED
  BY <1>1, <1>2, <1>3 DEF AccountsInv

\* A script that begins or fails owes the accounts nothing.
LEMMA FailedPlace ==
    ASSUME NEW result, script' = Failed(result) PROVE AccountsPlace'
  BY DEF Failed, NoScript, AccountsPlace

\* A step of a script that leaves its job and arguments, on its way.
LEMMA PlaceMoves ==
    ASSUME AccountsPlace, UNCHANGED <<cred, subscribed>>, script.pc # "idle",
           script'.job = script.job, script'.args = script.args, script'.result = "none",
           script'.pc \in {"wiping", "accounts"} => script.job = "reseed",
           script'.pc \in {"wiping", "seed", "pairs", "found", "staging", "accounts"}
    PROVE  AccountsPlace'
  BY DEF AccountsPlace

LEMMA AfterSeedPlace ==
    ASSUME AccountsPlace, script \in ScriptSet, UNCHANGED <<cred, subscribed>>,
           script.pc \in {"seed", "pairs", "found", "staging"}, script' = AfterSeed
    PROVE  AccountsPlace'
<1>1. CASE script.job = "reseed"
  BY <1>1, PlaceMoves DEF AfterSeed, ScriptSet, AccountsPlace
<1>2. CASE script.job # "reseed"
  BY <1>2 DEF AfterSeed, Succeeded, ScriptSet, AccountsPlace
<1> QED
  BY <1>1, <1>2

LEMMA CorpusPlace ==
    ASSUME AccountsInv, CorpusNext, UNCHANGED <<cred, subscribed>>
    PROVE  AccountsPlace'
<1> USE DEF AccountsInv
<1>s. script \in ScriptSet
  BY DEF CorpusInv, CorpusTypes
<1>n. ASSUME script.pc \in {"pairs", "found", "staging"}, script' = NextPair PROVE AccountsPlace'
  <2>1. script.todo # <<>>
    BY <1>n DEF CorpusInv, PairAtHand
  <2>2. CASE NextPair = AfterSeed
    BY <1>s, <1>n, <2>2, AfterSeedPlace
  <2>3. CASE NextPair = [script EXCEPT !.pc = "pairs", !.todo = Tail(script.todo)]
    <3>1. /\ script'.job = script.job /\ script'.args = script.args
          /\ script'.result = script.result /\ script'.pc = "pairs"
      BY <1>s, <1>n, <2>3 DEF ScriptSet
    <3>2. script.result = "none"
      BY <1>n DEF AccountsPlace
    <3> QED
      BY <1>n, <3>1, <3>2, PlaceMoves
  <2> QED
    BY <1>s, <2>1, <2>2, <2>3, NextPairPlace
<1>1. ASSUME NEW stage \in BOOLEAN, StartSeed(stage) PROVE AccountsPlace'
  BY <1>1 DEF StartSeed, Started, NoScript, AccountsPlace
<1>2. ASSUME NEW c, SeedDocuments(c) PROVE AccountsPlace'
  <2>1. CASE ~ Valid(c)
    BY <1>2, <2>1, FailedPlace DEF SeedDocuments
  <2>2. CASE Valid(c)
    <3>1. /\ script.pc = "seed"
          /\ \/ script' = AfterSeed
             \/ script' = [script EXCEPT !.pc = "pairs", !.todo = V2Files]
      BY <1>2, <2>2 DEF SeedDocuments
    <3>2. CASE script' = AfterSeed
      BY <1>s, <3>1, <3>2, AfterSeedPlace
    <3>3. CASE script' = [script EXCEPT !.pc = "pairs", !.todo = V2Files]
      <4>1. /\ script'.job = script.job /\ script'.args = script.args
            /\ script'.result = script.result /\ script'.pc = "pairs"
        BY <1>s, <3>3 DEF ScriptSet
      <4>2. script.result = "none"
        BY <3>1 DEF AccountsPlace
      <4> QED
        BY <3>1, <4>1, <4>2, PlaceMoves
    <3> QED
      BY <3>1, <3>2, <3>3
  <2> QED
    BY <2>1, <2>2
<1>3. CASE PairFind \/ PairInsert \/ PairPark
  <2>1. /\ script.pc \in {"pairs", "found", "staging"}
        /\ \/ script' = NextPair \/ script' = Failed("failed")
           \/ script' = [script EXCEPT !.pc = "found"]
           \/ script' = [script EXCEPT !.pc = "staging"]
    BY <1>3 DEF PairFind, PairInsert, PairPark
  <2>2. CASE \/ script' = [script EXCEPT !.pc = "found"]
             \/ script' = [script EXCEPT !.pc = "staging"]
    <3>1. /\ script'.job = script.job /\ script'.args = script.args
          /\ script'.result = script.result /\ script'.pc \in {"found", "staging"}
      BY <1>s, <2>2 DEF ScriptSet
    <3>2. script.result = "none"
      BY <2>1 DEF AccountsPlace
    <3> QED
      BY <2>1, <3>1, <3>2, PlaceMoves
  <2> QED
    BY <1>n, <2>1, <2>2, FailedPlace
<1>4. CASE WipeVersions \/ WipeDocuments
  <2>1. /\ script'.job = script.job /\ script'.args = script.args
        /\ script'.result = script.result /\ script'.pc \in {"wiping", "seed"}
        /\ script.pc \in {"wipe", "wiping"}
    BY <1>s, <1>4 DEF WipeVersions, WipeDocuments, ScriptSet
  <2>2. script.result = "none" /\ script.job = "reseed"
    BY <2>1 DEF AccountsPlace
  <2> QED
    BY <2>1, <2>2, PlaceMoves
<1>5. CASE ScriptDies
  BY <1>5, FailedPlace DEF ScriptDies
<1>6. CASE Deadlock
  <2>1. UNCHANGED script \/ script' = Failed("failed")
    BY <1>6 DEF Deadlock
  <2> QED
    BY <2>1, FailedPlace DEF AccountsPlace, Served
<1>7. CASE UNCHANGED script
  BY <1>7 DEF AccountsPlace, Served
<1> QED
  BY <1>1, <1>2, <1>3, <1>4, <1>5, <1>6, <1>7
  DEF CorpusNext, Claim, CadencePasses, WorkerInsert, WorkerNothingNew, WorkerCommit,
      WorkerRollsBack, E2ETeardown, E2ESeed

LEMMA AccountsKept == AccountsInv /\ [Next]_vars => AccountsInv'
<1> SUFFICES ASSUME AccountsInv, [Next]_vars PROVE AccountsInv'
  OBVIOUS
<1> USE DEF AccountsInv
<1>c. CorpusInv'
  BY CorpusKept
<1>s. script \in ScriptSet
  BY DEF CorpusInv, CorpusTypes
<1>t. UNCHANGED <<cred, uid, subscribed>> => AccountTypes'
  BY DEF AccountTypes
<1>1. CASE CorpusStep
  BY <1>1, <1>c, <1>t, CorpusPlace DEF CorpusStep, accountVars
<1>2. CASE ApiStep \/ UNCHANGED vars
  BY <1>2, <1>c, <1>t
  DEF ApiStep, AuditLegacy, vars, corpusVars, accountVars, AccountsPlace, Served
<1>3. CASE StartReseed
  <2>1. UNCHANGED <<cred, uid, subscribed>>
    BY <1>3 DEF StartReseed, accountVars
  <2>2. AccountsPlace'
    <3>1. CASE script' = Failed("refused")
      BY <3>1, FailedPlace
    <3>2. ASSUME NEW r \in Runs, r.reset, script' = Started("reseed", "wipe", r)
          PROVE  AccountsPlace'
      <4>1. /\ script'.pc = "wipe" /\ script'.job = "reseed" /\ script'.args = r
            /\ script'.result = "none"
        BY <3>2 DEF Started, NoScript
      <4> QED
        BY <3>2, <4>1 DEF AccountsPlace
    <3> QED
      BY <1>3, <3>1, <3>2 DEF StartReseed
  <2> QED
    BY <1>c, <1>t, <2>1, <2>2
<1>4. CASE ReseedAccounts
  <2>1. /\ script.pc = "accounts" /\ RunAccounts(script.args) /\ script.job = "reseed"
        /\ script.args \in Runs /\ script.args.reset /\ script.result = "none"
    BY <1>4 DEF ReseedAccounts, AccountsPlace
  <2>2. AccountTypes'
    BY <2>1, RunIsWhole
  <2>3. CASE RunOutcome(script.args) = "ok"
    <3>1. script' = [script EXCEPT !.pc = "check"]
      BY <1>4, <2>3 DEF ReseedAccounts
    <3>2. /\ script'.pc = "check" /\ script'.job = "reseed" /\ script'.args = script.args
          /\ script'.result = "none"
      BY <1>s, <2>1, <3>1 DEF ScriptSet
    <3>3. Served(script.args)'
      BY <2>1, <2>3, <3>2, RunIsWhole DEF Served
    <3> QED
      BY <1>c, <2>1, <2>2, <3>2, <3>3 DEF AccountsPlace
  <2>4. CASE RunOutcome(script.args) # "ok"
    BY <1>4, <1>c, <2>2, <2>4, FailedPlace DEF ReseedAccounts
  <2> QED
    BY <2>3, <2>4
<1>5. CASE Check
  <2>1. UNCHANGED <<cred, uid, subscribed>> /\ script.pc = "check"
        /\ (script' = Succeeded \/ script' = Failed("thin"))
    BY <1>5 DEF Check, accountVars
  <2>2. CASE script' = Succeeded
    <3>1. /\ script'.pc = "idle" /\ script'.job = script.job /\ script'.args = script.args
          /\ script'.result = "ok"
      BY <1>s, <2>2 DEF Succeeded, ScriptSet
    <3> QED
      BY <1>c, <1>t, <2>1, <3>1 DEF AccountsPlace, Served
  <2>3. CASE script' = Failed("thin")
    BY <1>c, <1>t, <2>1, <2>3, FailedPlace
  <2> QED
    BY <2>1, <2>2, <2>3
<1>6. CASE RunByHand
  <2>1. PICK r \in Runs :
           /\ RunAccounts(r)
           /\ script' = IF RunOutcome(r) = "ok"
                        THEN [Started("accounts", "idle", r) EXCEPT !.result = "ok"]
                        ELSE Failed(RunOutcome(r))
    BY <1>6 DEF RunByHand
  <2>2. AccountTypes'
    BY <2>1, RunIsWhole
  <2>3. CASE RunOutcome(r) = "ok"
    <3>1. /\ script'.pc = "idle" /\ script'.job = "accounts" /\ script'.args = r
          /\ script'.result = "ok"
      BY <2>1, <2>3 DEF Started, NoScript
    <3>2. Served(r)'
      BY <2>1, <2>3, RunIsWhole
    <3> QED
      BY <1>c, <2>2, <3>1, <3>2 DEF AccountsPlace, Served
  <2>4. CASE RunOutcome(r) # "ok"
    BY <1>c, <2>1, <2>2, <2>4, FailedPlace
  <2> QED
    BY <2>3, <2>4
<1> QED
  BY <1>1, <1>2, <1>3, <1>4, <1>5, <1>6 DEF Next

\* Which steps change an account, and what they leave.
LEMMA AccountSteps ==
    ASSUME AccountsInv, [Next]_vars
    PROVE  /\ script'.result \in {"failed", "refused"} => UNCHANGED <<cred, uid, subscribed>>
           /\ \A a \in Accounts :
                 cred[a] \in Passwords /\ cred'[a] = "default" => script'.args.reset
<1> USE DEF AccountsInv
<1>s. script \in ScriptSet
  BY DEF CorpusInv, CorpusTypes
<1>1. CASE UNCHANGED <<cred, uid, subscribed>>
  BY <1>1, AccountsAssumption
<1>2. CASE ReseedAccounts
  <2>1. /\ RunAccounts(script.args) /\ script.args \in Runs /\ script.args.reset
        /\ script.result = "none"
    BY <1>2 DEF ReseedAccounts, AccountsPlace
  <2>2. CASE RunOutcome(script.args) = "ok"
    <3>1. script' = [script EXCEPT !.pc = "check"]
      BY <1>2, <2>2 DEF ReseedAccounts
    <3>2. script'.result = "none" /\ script'.args = script.args
      BY <1>s, <2>1, <3>1 DEF ScriptSet
    <3> QED
      BY <2>1, <3>2
  <2>3. CASE RunOutcome(script.args) # "ok"
    BY <1>1, <2>1, <2>3, RunIsWhole
  <2> QED
    BY <2>2, <2>3
<1>3. CASE RunByHand
  <2>1. PICK r \in Runs :
           /\ RunAccounts(r)
           /\ script' = IF RunOutcome(r) = "ok"
                        THEN [Started("accounts", "idle", r) EXCEPT !.result = "ok"]
                        ELSE Failed(RunOutcome(r))
    BY <1>3 DEF RunByHand
  <2>2. CASE RunOutcome(r) = "ok"
    <3>1. script'.args = r /\ script'.result = "ok"
      BY <2>1, <2>2 DEF Started, NoScript
    <3>2. r.reset \in BOOLEAN
      BY DEF Runs
    <3> QED
      BY <2>1, <3>1, <3>2, RunIsWhole
  <2>3. CASE RunOutcome(r) # "ok"
    BY <1>1, <2>1, <2>3, RunIsWhole
  <2> QED
    BY <2>2, <2>3
<1> QED
  BY <1>1, <1>2, <1>3
  DEF Next, CorpusStep, ApiStep, AuditLegacy, StartReseed, Check, accountVars, vars

\* Without --reset no run replaces a real password by the default in the source,
\* for any accounts, environments and orders of runs and reseeds.
THEOREM ReseedNoDowngrade == Spec => NoDowngrade
<1>1. AccountsInv /\ [Next]_vars =>
         [\A a \in Accounts :
            cred[a] \in Passwords /\ cred'[a] = "default" => script'.args.reset]_vars
  BY AccountSteps
<1> QED
  BY <1>1, InitAccountsInv, AccountsKept, PTL DEF Spec, NoDowngrade

\* A run that does not succeed changes no account, for any number of accounts.
THEOREM ReseedRefusalIsWhole == Spec => RefusalIsWhole
<1>1. AccountsInv /\ [Next]_vars =>
         [script'.result \in {"failed", "refused"} => UNCHANGED <<cred, uid, subscribed>>]_vars
  BY AccountSteps
<1> QED
  BY <1>1, InitAccountsInv, AccountsKept, PTL DEF Spec, RefusalIsWhole

-----------------------------------------------------------------------------
\* Success means ready.

\* The pair of a document that has a row is to come.
Owed(d) == row[d] # 0 /\ ~ Has(d)

Full(d) ==
    \/ \E v, w \in VersionsOf(d, row[d]) : v # w
    \/ \E v \in VersionsOf(d, row[d]) : v.by = "worker"

\* Whoever gives a document of a pair a first version gives it enough.
AllOrNone == \A d \in Paired : row[d] # 0 /\ Has(d) => Full(d)

PairsPlace ==
    /\ script.pc \in {"pairs", "found", "staging"} =>
          \A d \in Paired : Owed(d) => d \in Distinct(script.todo)
    /\ script.pc \in {"accounts", "check"} => \A d \in Paired : ~ Owed(d)
    /\ script.result = "ok" /\ script.job \in {"reseed", "seed+pairs"} =>
          \A d \in Paired : ~ Owed(d)

ReadyInv == AccountsInv /\ AllOrNone /\ PairsPlace

LEMMA InitReady == Init => AllOrNone /\ PairsPlace
  BY NamesTyped DEF Init, CorpusInit, NoScript, AllOrNone, PairsPlace, Owed

\* A pair's document that keeps its row and loses no version.
Grows(d) == row'[d] = row[d] /\ VersionsOf(d, row[d]) \subseteq VersionsOf(d, row[d])'

LEMMA GrowingOwed ==
    ASSUME NEW d \in Paired, Grows(d)
    PROVE  Owed(d)' => Owed(d)
  BY DEF Grows, Owed, Has, VersionsOf

LEMMA SameFull ==
    ASSUME NEW d \in Paired, row'[d] = row[d], VersionsOf(d, row[d])' = VersionsOf(d, row[d])
    PROVE  Grows(d) /\ (Has(d)' <=> Has(d)) /\ (Full(d)' <=> Full(d))
  BY DEF Grows, Has, Full, VersionsOf

\* What is new in the place of the script follows from what it owed before.
LEMMA NoLongerOwed ==
    ASSUME ReadyInv, \A d \in Paired : Grows(d),
           \/ script' = Failed("failed") \/ script' = Failed("thin")
           \/ script' = Failed("refused") \/ UNCHANGED script
    PROVE  PairsPlace'
<1>1. CASE UNCHANGED script
  BY <1>1, GrowingOwed DEF ReadyInv, PairsPlace
<1>2. CASE ~ UNCHANGED script
  BY <1>2 DEF Failed, NoScript, PairsPlace
<1> QED
  BY <1>1, <1>2

\* The seed gives a new document of a pair a row and no version.
LEMMA SeedReady ==
    ASSUME ReadyInv, NEW c, SeedDocuments(c)
    PROVE  AllOrNone' /\ PairsPlace'
<1> USE DEF ReadyInv, AccountsInv, CorpusInv
<1>1. CASE ~ Valid(c)
  <2>1. UNCHANGED <<row, versions>> /\ script' = Failed("failed")
    BY <1>1 DEF SeedDocuments
  <2>2. \A d \in Paired : Grows(d)
    BY <2>1 DEF Grows, VersionsOf
  <2> QED
    BY <2>1, <2>2, NoLongerOwed DEF AllOrNone, Full, Has, VersionsOf
<1>2. CASE Valid(c)
  <2> DEFINE rows == Select(c)
             fresh == {i \in DOMAIN rows : row[rows[i].id] = 0}
             staged == {i \in fresh : /\ ~Reserved(rows[i].id)
                                      /\ rows[i].text \in {"empty", "clauses"}}
             parked == {i \in staged : rows[i].text = "clauses"}
             Ids(is) == {rows[i].id : i \in is}
             made == {Version(rows[i].id, gen'[rows[i].id], 1,
                              IF i \in parked THEN "staged" ELSE "empty") : i \in staged}
  <2>1. /\ script.pc = "seed" /\ versions' = versions \cup made
        /\ gen' = [d \in Docs |-> IF d \in Ids(fresh) THEN gen[d] + 1 ELSE gen[d]]
        /\ row' = [d \in Docs |-> IF d \in Ids(fresh) THEN gen'[d] ELSE row[d]]
        /\ script' = IF script.job = "seed" \/ V2Files = <<>> THEN AfterSeed
                     ELSE [script EXCEPT !.pc = "pairs", !.todo = V2Files]
    BY <1>2 DEF SeedDocuments, RunSeed
  <2>2. \A v \in made : ~ Reserved(v.doc)
    BY DEF Version
  <2>3. \A v \in versions : v.gen <= gen[v.doc] /\ v.doc \in Docs /\ v.gen \in Nat
    BY DEF CorpusTypes, Rows, VersionSet
  <2>4. ASSUME NEW d \in Paired
        PROVE  row'[d] # 0 /\ Has(d)' => Full(d)'
    <3>1. d \in Docs /\ Reserved(d) /\ gen[d] \in Nat /\ row[d] \in Nat
      BY NamesTyped DEF CorpusTypes
    <3>2. \A g : VersionsOf(d, g)' = VersionsOf(d, g)
      BY <2>1, <2>2, <3>1 DEF VersionsOf
    <3>3. CASE d \in Ids(fresh)
      <4>1. row'[d] = gen[d] + 1
        BY <2>1, <3>1, <3>3
      <4>2. VersionsOf(d, gen[d] + 1) = {}
        BY <2>3, <3>1 DEF VersionsOf
      <4> QED
        BY <3>2, <4>1, <4>2 DEF Has, VersionsOf
    <3>4. CASE d \notin Ids(fresh)
      <4>1. row'[d] = row[d]
        BY <2>1, <3>1, <3>4
      <4>2. VersionsOf(d, row[d])' = VersionsOf(d, row[d])
        BY <3>2, <4>1 DEF VersionsOf
      <4> QED
        BY <4>1, <4>2, SameFull DEF AllOrNone
    <3> QED
      BY <3>3, <3>4
  <2>5. PairsPlace'
    <3> HIDE DEF rows, fresh, made
    <3>1. script.result = "none" /\ script \in ScriptSet
      BY <2>1 DEF AccountsPlace, CorpusTypes
    <3>2. CASE V2Files = <<>>
      <4>1. Paired = {}
        BY <3>2 DEF Paired, Distinct
      <4> QED
        BY <4>1 DEF PairsPlace
    <3>3. CASE V2Files # <<>> /\ script.job = "seed"
      <4>1. /\ script' = AfterSeed
        BY <2>1, <3>3
      <4>2. script'.pc = "idle" /\ script'.job = "seed"
        BY <3>1, <3>3, <4>1 DEF AfterSeed, Succeeded, ScriptSet
      <4> QED
        BY <4>2 DEF PairsPlace
    <3>4. CASE V2Files # <<>> /\ script.job # "seed"
      <4>1. script' = [script EXCEPT !.pc = "pairs", !.todo = V2Files]
        BY <2>1, <3>4
      <4>2. script'.pc = "pairs" /\ script'.todo = V2Files /\ script'.result = "none"
        BY <3>1, <4>1 DEF ScriptSet
      <4> QED
        BY <4>2 DEF PairsPlace, Paired
    <3> QED
      BY <3>2, <3>3, <3>4
  <2> QED
    BY <2>4, <2>5 DEF AllOrNone
<1> QED
  BY <1>1, <1>2

\* A pair that is done leaves the pairs behind it, or none.
LEMMA PairDone ==
    ASSUME ReadyInv, script.pc \in {"pairs", "found", "staging"}, script' = NextPair,
           \A d \in Paired : Grows(d),
           NEW h, h = Head(script.todo), h \in Paired => ~ Owed(h)'
    PROVE  PairsPlace'
<1> USE DEF ReadyInv, AccountsInv, CorpusInv
<1>1. script \in ScriptSet /\ script.todo # <<>> /\ script.result = "none"
  BY DEF CorpusTypes, PairAtHand, AccountsPlace
<1>2. script.todo \in Seq(STRING)
  BY <1>1 DEF ScriptSet
<1>3. ASSUME NEW d \in Paired, Owed(d)'
      PROVE  d \in Distinct(script.todo) /\ d # Head(script.todo)
  <2>1. Owed(d)
    BY <1>3, GrowingOwed
  <2>2. d \in Distinct(script.todo)
    BY <2>1 DEF PairsPlace
  <2>3. d # h
    BY <1>3
  <2> QED
    BY <2>2, <2>3
<1>4. CASE NextPair = AfterSeed /\ Len(script.todo) = 1
  <2>1. Distinct(script.todo) = {Head(script.todo)}
    BY <1>2, <1>4 DEF Distinct
  <2>2. \A d \in Paired : ~ Owed(d)'
    BY <1>3, <2>1
  <2>3. script'.pc \in {"accounts", "idle"}
    BY <1>1, <1>4 DEF AfterSeed, Succeeded, ScriptSet
  <2> QED
    BY <2>2, <2>3 DEF PairsPlace
<1>5. CASE NextPair = [script EXCEPT !.pc = "pairs", !.todo = Tail(script.todo)]
  <2>1. script'.pc = "pairs" /\ script'.todo = Tail(script.todo) /\ script'.result = "none"
    BY <1>1, <1>5 DEF ScriptSet
  <2>2. ASSUME NEW d \in Distinct(script.todo), d # Head(script.todo)
        PROVE  d \in Distinct(Tail(script.todo))
    <3>1. PICK i \in DOMAIN script.todo : d = script.todo[i]
      BY DEF Distinct
    <3>2. i \in 2 .. Len(script.todo)
      BY <1>2, <2>2, <3>1
    <3>3. i - 1 \in DOMAIN Tail(script.todo) /\ Tail(script.todo)[i - 1] = script.todo[i]
      BY <1>1, <1>2, <3>2
    <3> QED
      BY <3>1, <3>3 DEF Distinct
  <2> QED
    BY <1>3, <2>1, <2>2 DEF PairsPlace
<1> QED
  BY <1>1, <1>4, <1>5, NextPairPlace

LEMMA PairReady ==
    ASSUME ReadyInv, PairFind \/ PairInsert
    PROVE  AllOrNone' /\ PairsPlace'
<1> USE DEF ReadyInv, AccountsInv, CorpusInv
<1>1. UNCHANGED <<row, versions>>
  BY DEF PairFind, PairInsert
<1>2. \A d \in Paired : Grows(d) /\ (Owed(d)' <=> Owed(d))
  BY <1>1 DEF Grows, Owed, Has, VersionsOf
<1>3. AllOrNone'
  BY <1>1 DEF AllOrNone, Full, Has, VersionsOf
<1>4. CASE script' = Failed("failed")
  BY <1>2, <1>3, <1>4, NoLongerOwed
<1>5. CASE script' = NextPair /\ PairFind
          /\ (Head(script.todo) \notin Paired \/ row[Head(script.todo)] = 0 \/ Has(Head(script.todo)))
  <2>1. PICK h : h = Head(script.todo)
    OBVIOUS
  <2>2. h \in Paired => ~ Owed(h)'
    BY <1>2, <1>5, <2>1 DEF Owed
  <2>3. PairsPlace'
    BY <1>2, <1>5, <2>1, <2>2, PairDone DEF PairFind
  <2> QED
    BY <1>3, <2>3
<1>6. CASE \/ script' = [script EXCEPT !.pc = "found"]
           \/ script' = [script EXCEPT !.pc = "staging"]
  <2>1. script \in ScriptSet /\ script.result = "none" /\ script.pc \in {"pairs", "found"}
    BY DEF PairFind, PairInsert, CorpusTypes, AccountsPlace
  <2>2. /\ script'.pc \in {"found", "staging"} /\ script'.todo = script.todo
        /\ script'.result = "none"
    BY <1>6, <2>1 DEF ScriptSet
  <2> QED
    BY <1>2, <1>3, <2>1, <2>2 DEF PairsPlace
<1> QED
  BY <1>4, <1>5, <1>6 DEF PairFind, PairInsert

\* The pair brings two versions at once.
LEMMA ParkReady ==
    ASSUME ReadyInv, PairPark
    PROVE  AllOrNone' /\ PairsPlace'
<1> USE DEF ReadyInv, AccountsInv, CorpusInv
<1>d. PICK d : d = Head(script.todo)
  OBVIOUS
<1>v. PICK v1, v2 : /\ v1 = Version(d, row[d], 1, "staged")
                    /\ v2 = Version(d, row[d], 2, "staged")
  OBVIOUS
<1>1. script.pc = "staging" /\ versions' = versions \cup {v1, v2} /\ script' = NextPair
      /\ row' = row
  BY <1>d, <1>v DEF PairPark
<1>2. v1 # v2 /\ v1.doc = d /\ v1.gen = row[d] /\ v2.doc = d /\ v2.gen = row[d]
  BY <1>v DEF Version
<1>3. \A e \in Paired : Grows(e)
  BY <1>1 DEF Grows, VersionsOf
<1>4. Has(d)' /\ Full(d)'
  BY <1>1, <1>2 DEF Has, Full, VersionsOf
<1>5. \A e \in Paired : e # d => VersionsOf(e, row[e])' = VersionsOf(e, row[e])
  BY <1>1, <1>2 DEF VersionsOf
<1>6. AllOrNone'
  <2>1. ASSUME NEW e \in Paired, e # d PROVE row'[e] # 0 /\ Has(e)' => Full(e)'
    BY <1>1, <1>5, <2>1, SameFull DEF AllOrNone
  <2> QED
    BY <1>4, <2>1 DEF AllOrNone
<1>7. PairsPlace'
  <2>1. ~ Owed(d)'
    BY <1>4 DEF Owed
  <2> QED
    BY <1>1, <1>3, <1>d, <2>1, PairDone
<1> QED
  BY <1>6, <1>7

LEMMA WipeReady ==
    ASSUME ReadyInv, WipeVersions \/ WipeDocuments
    PROVE  AllOrNone' /\ PairsPlace'
<1> USE DEF ReadyInv, AccountsInv, CorpusInv
<1>1. script \in ScriptSet /\ script.result = "none"
  BY DEF WipeVersions, WipeDocuments, CorpusTypes, AccountsPlace
<1>2. script'.pc \in {"wiping", "seed"} /\ script'.result = "none"
  BY <1>1 DEF WipeVersions, WipeDocuments, ScriptSet
<1>3. AllOrNone'
  <2>1. CASE WipeVersions
    BY <2>1 DEF WipeVersions, AllOrNone, Full, Has, VersionsOf
  <2>2. CASE WipeDocuments
    BY <2>2, NamesTyped DEF WipeDocuments, AllOrNone
  <2> QED
    BY <2>1, <2>2
<1> QED
  BY <1>2, <1>3 DEF PairsPlace

\* A version of the worker is enough by itself.
LEMMA WorkerReady ==
    ASSUME ReadyInv, WorkerCommit
    PROVE  AllOrNone' /\ PairsPlace'
<1>d. PICK d : d = worker.doc
  OBVIOUS
<1>v. PICK v0 : v0 = Version(d, row[d], Cardinality(VersionsOf(d, row[d])) + 1, "worker")
  OBVIOUS
<1>1. versions' = versions \cup {v0} /\ UNCHANGED <<row, script>>
  BY <1>d, <1>v DEF WorkerCommit
<1>2. v0.doc = d /\ v0.gen = row[d] /\ v0.by = "worker"
  BY <1>v DEF Version
<1>3. \A e \in Paired : Grows(e)
  BY <1>1 DEF Grows, VersionsOf
<1>4. Full(d)'
  BY <1>1, <1>2 DEF Full, VersionsOf
<1>5. \A e \in Paired : e # d => VersionsOf(e, row[e])' = VersionsOf(e, row[e])
  BY <1>1, <1>2 DEF VersionsOf
<1>6. ASSUME NEW e \in Paired, e # d PROVE row'[e] # 0 /\ Has(e)' => Full(e)'
  BY <1>1, <1>5, <1>6, SameFull DEF AllOrNone, ReadyInv
<1>7. AllOrNone'
  BY <1>4, <1>6 DEF AllOrNone
<1>8. PairsPlace'
  BY <1>1, <1>3, NoLongerOwed
<1> QED
  BY <1>7, <1>8

\* The rows of the browser tests' fixtures are no pair's.
LEMMA E2EReady ==
    ASSUME ReadyInv, E2ETeardown \/ E2ESeed
    PROVE  AllOrNone' /\ PairsPlace'
<1> USE DEF ReadyInv, AccountsInv, CorpusInv
<1>1. \A d \in Paired : d # E2EDoc /\ d \in Docs
  BY NamesTyped
<1>2. row \in [Docs -> Nat] /\ UNCHANGED script
  BY DEF E2ETeardown, E2ESeed, CorpusTypes
<1>3. ASSUME NEW d \in Paired
      PROVE  row'[d] = row[d] /\ VersionsOf(d, row[d])' = VersionsOf(d, row[d])
  BY <1>1, <1>2 DEF E2ETeardown, E2ESeed, E2EVersions, Version, VersionsOf
<1> QED
  BY <1>2, <1>3, SameFull, NoLongerOwed DEF AllOrNone

LEMMA ReadyKept == ReadyInv /\ [Next]_vars => ReadyInv'
<1> SUFFICES ASSUME ReadyInv, [Next]_vars PROVE AllOrNone' /\ PairsPlace'
  BY AccountsKept DEF ReadyInv
<1> USE DEF ReadyInv
<1>s. script \in ScriptSet
  BY DEF AccountsInv, CorpusInv, CorpusTypes
<1>u. ASSUME UNCHANGED <<row, versions>>
      PROVE  AllOrNone' /\ \A d \in Paired : Grows(d) /\ (Owed(d)' <=> Owed(d))
  BY <1>u DEF AllOrNone, Full, Has, Owed, Grows, VersionsOf
<1>1. CASE CorpusNext
  <2>1. ASSUME NEW stage \in BOOLEAN, StartSeed(stage) PROVE AllOrNone' /\ PairsPlace'
    <3>1. script'.pc = "seed" /\ script'.result = "none"
      BY <2>1 DEF StartSeed, Started, NoScript
    <3> QED
      BY <2>1, <3>1, <1>u DEF StartSeed, PairsPlace
  <2>2. CASE ScriptDies \/ Deadlock
    BY <2>2, <1>u, NoLongerOwed DEF ScriptDies, Deadlock
  <2>3. CASE UNCHANGED <<row, versions, script>>
    BY <2>3, <1>u, NoLongerOwed
  <2> QED
    BY <1>1, <2>1, <2>2, <2>3, SeedReady, PairReady, ParkReady, WipeReady, WorkerReady, E2EReady
    DEF CorpusNext, Claim, CadencePasses, WorkerInsert, WorkerNothingNew, WorkerRollsBack
<1>2. CASE UNCHANGED corpusVars
  BY <1>2, <1>u, NoLongerOwed DEF corpusVars
<1>3. CASE StartReseed
  <2>1. CASE script' = Failed("refused")
    BY <1>3, <2>1, <1>u, NoLongerOwed DEF StartReseed
  <2>2. ASSUME NEW r \in Runs, script' = Started("reseed", "wipe", r)
        PROVE  AllOrNone' /\ PairsPlace'
    <3>1. script'.pc = "wipe" /\ script'.result = "none"
      BY <2>2 DEF Started, NoScript
    <3> QED
      BY <1>3, <3>1, <1>u DEF StartReseed, PairsPlace
  <2> QED
    BY <1>3, <2>1, <2>2 DEF StartReseed
<1>4. CASE ReseedAccounts \/ Check
  <2>1. UNCHANGED <<row, versions>> /\ script.pc \in {"accounts", "check"}
    BY <1>4 DEF ReseedAccounts, Check
  <2>2. \A d \in Paired : ~ Owed(d)'
    BY <2>1, <1>u DEF PairsPlace
  <2>3. script'.pc \in {"check", "idle"}
    BY <1>4, <1>s DEF ReseedAccounts, Check, Succeeded, Failed, NoScript, ScriptSet
  <2> QED
    BY <2>1, <2>2, <2>3, <1>u DEF PairsPlace
<1>5. CASE RunByHand
  <2>1. PICK r \in Runs :
           script' = IF RunOutcome(r) = "ok"
                     THEN [Started("accounts", "idle", r) EXCEPT !.result = "ok"]
                     ELSE Failed(RunOutcome(r))
    BY <1>5 DEF RunByHand
  <2>2. script'.pc = "idle" /\ script'.job \in {"accounts", "none"}
    BY <2>1 DEF Started, Failed, NoScript
  <2> QED
    BY <1>5, <2>2, <1>u DEF RunByHand, PairsPlace
<1> QED
  BY <1>1, <1>2, <1>3, <1>4, <1>5 DEF Next, CorpusStep, ApiStep, vars

\* Two of the versions of a pair are two by count.
LEMMA TwoVersions ==
    ASSUME CorpusTypes, NEW d, NEW v \in VersionsOf(d, row[d]), NEW w \in VersionsOf(d, row[d]), v # w
    PROVE  Cardinality(VersionsOf(d, row[d])) >= 2
<1>1. IsFiniteSet(VersionsOf(d, row[d]))
  BY FS_Subset DEF CorpusTypes, VersionsOf
<1>2. IsFiniteSet({v, w}) /\ Cardinality({v, w}) = 2
  <2>1. IsFiniteSet({v}) /\ Cardinality({v}) = 1
    BY FS_Singleton
  <2>2. {v, w} = {v} \cup {w} /\ w \notin {v}
    OBVIOUS
  <2> QED
    BY <2>1, <2>2, FS_AddElement
<1>3. Cardinality({v, w}) <= Cardinality(VersionsOf(d, row[d]))
  BY <1>1, FS_Subset
<1>4. Cardinality(VersionsOf(d, row[d])) \in Nat
  BY <1>1, FS_CardinalityType
<1> QED
  BY <1>2, <1>3, <1>4

\* A script that reports success leaves the pairs staged, or with what the
\* worker polled first, and every account with the password of the environment,
\* for any fixtures, pairs, curated sets and accounts, and stays true to that
\* whatever the worker, the browser tests and the audit log do meanwhile.
THEOREM ReseedOkMeansReady == Spec => []OkMeansReady
<1>1. ReadyInv => OkMeansReady
  <2> SUFFICES ASSUME ReadyInv, script.result = "ok" PROVE OkMeansReady
    BY DEF OkMeansReady
  <2>1. ASSUME script.job \in {"reseed", "seed+pairs"}, NEW d \in Paired, row[d] # 0
        PROVE  \/ Cardinality(VersionsOf(d, row[d])) >= 2
               \/ \E v \in VersionsOf(d, row[d]) : v.by = "worker"
    <3>1. Full(d) /\ CorpusTypes
      BY <2>1 DEF ReadyInv, AccountsInv, CorpusInv, PairsPlace, AllOrNone, Owed
    <3> QED
      BY <3>1, TwoVersions DEF Full
  <2>2. ASSUME script.job \in {"reseed", "accounts"}
        PROVE  (\A a \in Accounts : cred[a] = Resolved(script.args, a)) /\ subscribed = Clients
    BY <2>2 DEF ReadyInv, AccountsInv, AccountsPlace, Served
  <2> QED
    BY <2>1, <2>2 DEF OkMeansReady
<1>2. Init => ReadyInv
  BY InitAccountsInv, InitReady DEF ReadyInv
<1> QED
  BY <1>1, <1>2, ReadyKept, PTL DEF Spec

=============================================================================
