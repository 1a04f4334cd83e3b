-------------------------- MODULE Metadata_proofs ---------------------------
(***************************************************************************)
(* The names that a snapshot shows, for every set of pools, DReps and      *)
(* tokens, every history bound and saved depth: what was read of db-sync   *)
(* stays read, and a token's own datum is never outranked.                 *)
(***************************************************************************)
EXTENDS Metadata, SequenceLemmas

Rows == [subject : Subjects, name : Names]
Refs == [token : Tokens, datum : Datums \cup {None}]

\* The cursor that a subject's rows are read by.
Reach(s, cur) == IF s \in Pools THEN cur.pool ELSE cur.drep

\* What some commit of a list has for a token.
Listed(known, x, field) == {None} \cup {known[i][x][field] : i \in DOMAIN known}

\* DatumsOutrankRegistry, of a snapshot and the chain up to its own block.
Ranks(snap, x, datum, known) ==
  datum # None =>
    /\ snap.decimals[x] \in IF datum.d > 0 THEN {datum.d} ELSE Listed(known, x, "d")
    /\ snap.tickers[x] \in {datum.t} \cup Listed(known, x, "t")
Outranks(snap, known) ==
  \A x \in Tokens : Ranks(snap, x, CurrentDatum(snap.hash, x), known)

Good(known) == {s \in Snapshots : Outranks(s, known)}

\* The rows of a subject among some, and NamesFollowDbSync of them and the names
\* that a snapshot shows.
IdsOf(rs, s) == {i \in DOMAIN rs : rs[i].subject = s}
Follows(rs, name, cur, skipped) ==
  \A s \in DOMAIN name :
    LET ids == IdsOf(rs, s)
    IN  (ids # {} /\ Max(ids) <= Reach(s, cur) /\ Max(ids) \notin skipped)
          => name[s] = rs[Max(ids)].name

\* A row behind its cursor is of a subject shown, or was passed over.
Accounted(rs, name, cur, skipped) ==
  \A i \in DOMAIN rs :
    i <= Reach(rs[i].subject, cur) => rs[i].subject \in DOMAIN name \/ i \in skipped

\* The history h is of consecutive blocks, and ends in the chain's last.
TailOf(h, c) ==
  /\ Len(h) <= Len(c) + 1
  /\ \A i \in DOMAIN h : h[i].hash = SubSeq(c, 1, Len(c) - Len(h) + i)

\* The inductive invariant.  Only the newest snapshot has to have the names that
\* were read, since a rollback reads them again; but each has to rank its own
\* datums first, since a rollback or a restart makes it the newest.
IInv ==
  /\ TypeOK
  /\ TailOf(history, chain)
  /\ history \in Seq(Good(commits)) /\ saved \in Good(commits)
  /\ Follows(rows, Now.name, cursor, passed)
  /\ Accounted(rows, Now.name, cursor, passed)

-----------------------------------------------------------------------------
(* Datums *)

RefsOf == [b \in Blocks |-> b.refs]
OfToken(x) == [token : {x}, datum : Datums \cup {None}]
DeclaredRefs == [token : Tokens, datum : Datums]

\* The assumptions on the constants, in the terms of the proofs.
LEMMA ConstantsAre ==
  /\ RefsOf \in [Blocks -> Seq(Refs)]
  /\ \A b \in Blocks : b.refs \in Seq(Refs) /\ b.regs \subseteq Pools
  /\ None \notin Names /\ None \notin Datums /\ None \notin Nat
  /\ Pools \cap DReps = {} /\ MaxHistory \in Nat \ {0} /\ Depth \in Nat \ {0}
  /\ \A d \in Datums : d.d \in Nat /\ d.t \in Names \cup {None}
  /\ \A e \in Entries, x \in Tokens :
       e[x].d \in Nat \cup {None} /\ e[x].t \in Names \cup {None}
<1>1. \A b \in Blocks : b.refs \in Seq(Refs) /\ b.regs \subseteq Pools
  BY MetadataAssumption DEF Refs
<1>2. \A d \in Datums : d.d \in Nat /\ d.t \in Names \cup {None}
  BY MetadataAssumption
<1>3. \A e \in Entries, x \in Tokens :
        e[x].d \in Nat \cup {None} /\ e[x].t \in Names \cup {None}
  <2> SUFFICES ASSUME NEW e \in Entries, NEW x \in Tokens
               PROVE  e[x].d \in Nat \cup {None} /\ e[x].t \in Names \cup {None}
    OBVIOUS
  <2>1. e \in [Tokens -> [d : Nat \cup {None}, t : Names \cup {None}]]
    BY MetadataAssumption
  <2>2. e[x] \in [d : Nat \cup {None}, t : Names \cup {None}]
    BY <2>1
  <2> QED BY <2>2
<1>4. RefsOf \in [Blocks -> Seq(Refs)]
  BY <1>1 DEF RefsOf
<1>5. /\ None \notin Names /\ None \notin Datums /\ None \notin Nat
      /\ Pools \cap DReps = {} /\ MaxHistory \in Nat \ {0} /\ Depth \in Nat \ {0}
  BY MetadataAssumption
<1> QED BY <1>1, <1>2, <1>3, <1>4, <1>5

\* The outputs of a reference token, and one more block of them.
LEMMA OutputsAppend ==
  ASSUME NEW c \in Seq(Blocks), NEW x \in Tokens
  PROVE  /\ Outputs(c, x) \in Seq(Refs)
         /\ \A b \in Blocks :
              Outputs(Append(c, b), x) = Outputs(c, x) \o Sift(b.refs, OfToken(x))
<1>1. \A d \in Seq(Blocks) :
        FlattenSeq([i \in DOMAIN d |-> d[i].refs]) = FlatMap(d, RefsOf)
  <2> SUFFICES ASSUME NEW d \in Seq(Blocks)
               PROVE  FlattenSeq([i \in DOMAIN d |-> d[i].refs]) = FlatMap(d, RefsOf)
    OBVIOUS
  <2>1. \A i \in DOMAIN d : RefsOf[d[i]] = d[i].refs
    BY ElementIn DEF RefsOf
  <2>2. [i \in DOMAIN d |-> d[i].refs] = [i \in DOMAIN d |-> RefsOf[d[i]]]
    BY <2>1
  <2> QED BY <2>2 DEF FlatMap
<1>2. /\ \A d \in Seq(Blocks) : FlatMap(d, RefsOf) \in Seq(Refs)
      /\ \A d \in Seq(Blocks), b \in Blocks :
           FlatMap(Append(d, b), RefsOf) = FlatMap(d, RefsOf) \o RefsOf[b]
  <2>1. RefsOf \in [Blocks -> Seq(Refs)]
    BY ConstantsAre
  <2> QED BY <2>1, FlatMapAppend, ZenonT(40)
<1>3. \A d \in Seq(Blocks) : Outputs(d, x) = Sift(FlatMap(d, RefsOf), OfToken(x))
  BY <1>1 DEF Outputs, OfToken
<1>4. Outputs(c, x) \in Seq(Refs)
  <2>1. Sift(FlatMap(c, RefsOf), OfToken(x)) \in Seq(Refs \cap OfToken(x))
    BY <1>2, SiftIn
  <2> QED BY <1>3, <2>1
<1>5. ASSUME NEW b \in Blocks
      PROVE  Outputs(Append(c, b), x) = Outputs(c, x) \o Sift(b.refs, OfToken(x))
  <2>1. Append(c, b) \in Seq(Blocks)
    OBVIOUS
  <2>2. FlatMap(Append(c, b), RefsOf) = FlatMap(c, RefsOf) \o RefsOf[b]
    BY <1>2
  <2>3. RefsOf[b] = b.refs /\ b.refs \in Seq(Refs)
    BY ConstantsAre DEF RefsOf
  <2>4. Sift(FlatMap(c, RefsOf) \o b.refs, OfToken(x))
          = Sift(FlatMap(c, RefsOf), OfToken(x)) \o Sift(b.refs, OfToken(x))
    BY <1>2, <2>3, SiftConcat, ZenonT(40)
  <2> QED BY <1>3, <2>1, <2>2, <2>3, <2>4
<1> QED BY <1>4, <1>5

\* The last of a list of outputs, and of two lists one after the other.
LEMMA LastOfConcat ==
  ASSUME NEW S, NEW u \in Seq(S), NEW v \in Seq(S)
  PROVE  /\ u # <<>> => Last(u) \in S
         /\ v # <<>> => u \o v # <<>> /\ Last(u \o v) = Last(v)
         /\ v = <<>> => u \o v = u
<1>1. Len(u) \in Nat /\ Len(v) \in Nat
  BY LenNat
<1>2. u # <<>> => Last(u) \in S
  BY <1>1 DEF Last
<1>3. v # <<>> => u \o v # <<>> /\ Last(u \o v) = Last(v)
  <2> SUFFICES ASSUME v # <<>> PROVE u \o v # <<>> /\ Last(u \o v) = Last(v)
    OBVIOUS
  <2>1. Len(v) # 0
    BY <1>1
  <2>2. Len(u \o v) = Len(u) + Len(v) /\ (u \o v)[Len(u) + Len(v)] = v[Len(v)]
    BY <1>1, <2>1
  <2> QED BY <1>1, <2>1, <2>2 DEF Last
<1>4. v = <<>> => u \o v = u
  OBVIOUS
<1> QED BY <1>2, <1>3, <1>4

\* The datum a token is at, after one more block.
LEMMA DatumAppend ==
  ASSUME NEW c \in Seq(Blocks), NEW x \in Tokens
  PROVE  /\ CurrentDatum(c, x) \in Datums \cup {None}
         /\ \A b \in Blocks :
              LET own == Sift(b.refs, OfToken(x))
              IN  CurrentDatum(Append(c, b), x)
                    = IF own = <<>> THEN CurrentDatum(c, x) ELSE Last(own).datum
<1>1. Outputs(c, x) \in Seq(Refs)
  BY OutputsAppend
<1>2. CurrentDatum(c, x) \in Datums \cup {None}
  <2>1. CASE Outputs(c, x) = <<>>
    BY <2>1 DEF CurrentDatum
  <2>2. CASE Outputs(c, x) # <<>>
    <3>1. Last(Outputs(c, x)) \in Refs
      BY <1>1, <2>2, LastOfConcat
    <3> QED BY <2>2, <3>1 DEF CurrentDatum, Refs
  <2> QED BY <2>1, <2>2
<1>3. ASSUME NEW b \in Blocks
      PROVE  CurrentDatum(Append(c, b), x)
               = IF Sift(b.refs, OfToken(x)) = <<>> THEN CurrentDatum(c, x)
                 ELSE Last(Sift(b.refs, OfToken(x))).datum
  <2> DEFINE u == Outputs(c, x)
             v == Sift(b.refs, OfToken(x))
  <2>1. Outputs(Append(c, b), x) = u \o v
    BY OutputsAppend
  <2>2. v \in Seq(Refs)
    <3>1. v \in Seq(Refs \cap OfToken(x))
      BY ConstantsAre, SiftIn
    <3> QED BY <3>1
  <2>3. /\ v # <<>> => u \o v # <<>> /\ Last(u \o v) = Last(v)
        /\ v = <<>> => u \o v = u
    BY <1>1, <2>2, LastOfConcat
  <2> HIDE DEF v
  <2>4. CurrentDatum(Append(c, b), x) = IF v = <<>> THEN CurrentDatum(c, x) ELSE Last(v).datum
    BY <2>1, <2>3 DEF CurrentDatum
  <2> QED BY <2>4 DEF v
<1> QED BY <1>2, <1>3

-----------------------------------------------------------------------------
(* What a block declares *)

\* One datum's declaration.
LEMMA DeclareIs ==
  ASSUME NEW snap \in Snapshots, NEW ref \in DeclaredRefs
  PROVE  LET s == Declare(snap, ref)
         IN  /\ s \in Snapshots /\ s.hash = snap.hash /\ s.name = snap.name
             /\ \A x \in Tokens :
                  /\ s.decimals[x] = IF x = ref.token THEN Positive(ref.datum.d)
                                     ELSE snap.decimals[x]
                  /\ s.tickers[x] = IF x = ref.token THEN ref.datum.t ELSE snap.tickers[x]
<1> DEFINE s == Declare(snap, ref)
           decimals == [snap.decimals EXCEPT ![ref.token] = Positive(ref.datum.d)]
           tickers == [snap.tickers EXCEPT ![ref.token] = ref.datum.t]
<1>1. ref.token \in Tokens /\ ref.datum \in Datums
  BY DEF DeclaredRefs
<1>2. ref.datum.d \in Nat /\ ref.datum.t \in Names \cup {None}
  BY <1>1, ConstantsAre
<1>3. Positive(ref.datum.d) \in Nat \cup {None}
  BY <1>2 DEF Positive
<1>4. /\ snap.decimals \in [Tokens -> Nat \cup {None}]
      /\ snap.tickers \in [Tokens -> Names \cup {None}]
  BY DEF Snapshots
<1>5. /\ decimals \in [Tokens -> Nat \cup {None}]
      /\ tickers \in [Tokens -> Names \cup {None}]
  BY <1>1, <1>2, <1>3, <1>4
<1>6. \A x \in Tokens :
        /\ decimals[x] = IF x = ref.token THEN Positive(ref.datum.d) ELSE snap.decimals[x]
        /\ tickers[x] = IF x = ref.token THEN ref.datum.t ELSE snap.tickers[x]
  BY <1>1, <1>4
<1> HIDE DEF decimals, tickers
<1>7. s = [snap EXCEPT !.decimals = decimals, !.tickers = tickers]
  BY DEF Declare, decimals, tickers
<1>8. /\ s \in Snapshots /\ s.hash = snap.hash /\ s.name = snap.name
      /\ s.decimals = decimals /\ s.tickers = tickers
  BY <1>5, <1>7 DEF Snapshots
<1> QED BY <1>6, <1>8

\* The loop of AfterBlock, and one more iteration of it.
DeclareAll(snap, refs) ==
  LET after[i \in 0..Len(refs)] == IF i = 0 THEN snap ELSE Declare(after[i - 1], refs[i])
  IN  after[Len(refs)]
DeclareStep == [s \in Snapshots |-> [r \in DeclaredRefs |-> Declare(s, r)]]

LEMMA DeclareLoop ==
  ASSUME NEW snap \in Snapshots, NEW refs \in Seq(DeclaredRefs)
  PROVE  \E f : /\ IsLoop(f, snap, DeclareStep, refs, Snapshots)
                /\ DeclareAll(snap, refs) = f[Len(refs)]
<1> DEFINE n == Len(refs)
           S == Snapshots
           Q == DeclaredRefs
           next(a, b) == Declare(a, b)
           Loop(f) == f = [i \in 0..n |-> IF i = 0 THEN snap ELSE next(f[i - 1], refs[i])]
           after == CHOOSE f : Loop(f)
<1>1. n \in Nat /\ (\A i \in 1..n : refs[i] \in Q) /\ refs \in Seq(Q)
  BY LenNat, ElementIn
<1>2. ASSUME NEW a \in S, NEW b \in Q PROVE next(a, b) \in S
  BY DeclareIs
<1>3. DeclareStep = [a \in S |-> [b \in Q |-> next(a, b)]]
  BY DEF DeclareStep
<1>4. snap \in S
  OBVIOUS
<1> HIDE DEF S, Q, next
<1>5. DeclareStep \in [S -> [Q -> S]]
  BY <1>2, <1>3
<1>6. PICK f : IsLoop(f, snap, DeclareStep, refs, S)
  BY <1>1, <1>4, <1>5, LoopExists
<1>7. ASSUME NEW i \in 1..n PROVE f[i] = next(f[i - 1], refs[i])
  <2>1. i - 1 \in 0..n
    BY <1>1
  <2>2. f[i - 1] \in S
    BY <1>6, <2>1 DEF IsLoop
  <2>3. refs[i] \in Q
    BY <1>1
  <2> QED BY <1>3, <1>6, <2>2, <2>3 DEF IsLoop
<1>8. Loop(f)
  BY <1>1, <1>6, <1>7 DEF IsLoop
<1>9. Loop(after)
  BY <1>8
<1> HIDE DEF after
<1> DEFINE T == {i \in 0..n : after[i] = f[i]}
<1>10. 0 \in T
  BY <1>1, <1>8, <1>9
<1>11. ASSUME NEW i \in 1..n, i - 1 \in T PROVE i \in T
  <2>1. i \in 0..n /\ i # 0
    BY <1>1
  <2>2. after[i] = next(after[i - 1], refs[i])
    BY <1>9, <2>1
  <2> QED BY <1>7, <1>11, <2>1, <2>2
<1>12. \A i \in 0..n : i \in T
  BY <1>1, <1>10, <1>11, CountUp
<1>13. after[n] = f[n]
  BY <1>1, <1>12
<1>14. DeclareAll(snap, refs) = after[n]
  BY DEF DeclareAll, after, next
<1> QED BY <1>6, <1>13, <1>14 DEF S

LEMMA DeclareMore ==
  ASSUME NEW snap \in Snapshots
  PROVE  /\ DeclareAll(snap, <<>>) = snap
         /\ \A u \in Seq(DeclaredRefs) : DeclareAll(snap, u) \in Snapshots
         /\ \A u \in Seq(DeclaredRefs), r \in DeclaredRefs :
              DeclareAll(snap, Append(u, r)) = Declare(DeclareAll(snap, u), r)
<1>1. DeclareAll(snap, <<>>) = snap
  <2>1. <<>> \in Seq(DeclaredRefs) /\ Len(<<>>) = 0
    OBVIOUS
  <2>2. PICK f : /\ IsLoop(f, snap, DeclareStep, <<>>, Snapshots)
                 /\ DeclareAll(snap, <<>>) = f[Len(<<>>)]
    BY <2>1, DeclareLoop
  <2> QED BY <2>1, <2>2 DEF IsLoop
<1>2. ASSUME NEW u \in Seq(DeclaredRefs) PROVE DeclareAll(snap, u) \in Snapshots
  <2>1. PICK f : /\ IsLoop(f, snap, DeclareStep, u, Snapshots)
                 /\ DeclareAll(snap, u) = f[Len(u)]
    BY DeclareLoop
  <2> QED BY <2>1, LenNat DEF IsLoop
<1>3. ASSUME NEW u \in Seq(DeclaredRefs), NEW r \in DeclaredRefs
      PROVE  DeclareAll(snap, Append(u, r)) = Declare(DeclareAll(snap, u), r)
  <2>1. PICK f : /\ IsLoop(f, snap, DeclareStep, u, Snapshots)
                 /\ DeclareAll(snap, u) = f[Len(u)]
    BY DeclareLoop
  <2>2. Append(u, r) \in Seq(DeclaredRefs) /\ Len(Append(u, r)) = Len(u) + 1
    BY AppendIs
  <2>3. PICK g : /\ IsLoop(g, snap, DeclareStep, Append(u, r), Snapshots)
                 /\ DeclareAll(snap, Append(u, r)) = g[Len(Append(u, r))]
    BY <2>2, DeclareLoop
  <2>4. g[Len(u) + 1] = DeclareStep[f[Len(u)]][r]
    BY <2>1, <2>3, LoopAppend
  <2>5. f[Len(u)] \in Snapshots
    BY <1>2, <2>1
  <2> QED BY <2>1, <2>2, <2>3, <2>4, <2>5 DEF DeclareStep
<1> QED BY <1>1, <1>2, <1>3

\* What a list of outputs makes of a snapshot: the last of a token's decides,
\* if it has a datum.
Decided(s, snap, own, x) ==
  /\ own = <<>> => s.decimals[x] = snap.decimals[x] /\ s.tickers[x] = snap.tickers[x]
  /\ (own # <<>> /\ Last(own).datum # None) =>
       /\ s.decimals[x] = Positive(Last(own).datum.d)
       /\ s.tickers[x] = Last(own).datum.t
Declares(s, snap, u) ==
  /\ s \in Snapshots /\ s.hash = snap.hash /\ s.name = snap.name
  /\ \A x \in Tokens : Decided(s, snap, Sift(u, OfToken(x)), x)

LEMMA DeclaredDecides ==
  ASSUME NEW snap \in Snapshots
  PROVE  \A u \in Seq(Refs) : Declares(DeclareAll(snap, Sift(u, DeclaredRefs)), snap, u)
<1> DEFINE result(u) == DeclareAll(snap, Sift(u, DeclaredRefs))
           W == {u \in Seq(Refs) : Declares(result(u), snap, u)}
<1>1. <<>> \in W
  <2>1. result(<<>>) = snap
    BY SiftEmpty, DeclareMore
  <2>2. \A x \in Tokens : Sift(<<>>, OfToken(x)) = <<>>
    BY SiftEmpty
  <2> QED BY <2>1, <2>2 DEF Declares, Decided
<1>2. ASSUME NEW u \in Seq(Refs), NEW r \in Refs, u \in W PROVE Append(u, r) \in W
  <2> DEFINE v == Append(u, r)
             before == result(u)
             s == result(v)
             own(x) == Sift(u, OfToken(x))
  <2>1. v \in Seq(Refs) /\ Declares(before, snap, u)
    BY <1>2, AppendIs
  <2>2. r.token \in Tokens /\ (r \in DeclaredRefs <=> r.datum # None)
    <3>1. r.datum \in Datums \cup {None} /\ r.token \in Tokens /\ None \notin Datums
      BY ConstantsAre DEF Refs
    <3>2. r = [token |-> r.token, datum |-> r.datum]
      BY DEF Refs
    <3> QED BY <3>1, <3>2 DEF DeclaredRefs
  <2>3. ASSUME NEW x \in Tokens
        PROVE  Sift(v, OfToken(x)) = IF x = r.token THEN Append(own(x), r) ELSE own(x)
    <3>1. r \in OfToken(x) <=> x = r.token
      BY DEF Refs, OfToken
    <3> QED BY <3>1, SiftAppend
  <2>4. ASSUME NEW x \in Tokens PROVE own(x) \in Seq(Refs)
    <3>1. own(x) \in Seq(Refs \cap OfToken(x))
      BY SiftIn
    <3> QED BY <3>1
  <2>5. ASSUME NEW x \in Tokens
        PROVE  Append(own(x), r) # <<>> /\ Last(Append(own(x), r)) = r
    <3>1. Len(own(x)) \in Nat /\ Len(Append(own(x), r)) = Len(own(x)) + 1
          /\ Append(own(x), r)[Len(own(x)) + 1] = r
      BY <2>4, LenNat, AppendIs
    <3> HIDE DEF own
    <3> QED BY <3>1 DEF Last
  <2>6. Sift(u, DeclaredRefs) \in Seq(DeclaredRefs)
    <3>1. Sift(u, DeclaredRefs) \in Seq(Refs \cap DeclaredRefs)
      BY SiftIn
    <3> QED BY <3>1
  <2>7. CASE r.datum = None
    <3>1. Sift(v, DeclaredRefs) = Sift(u, DeclaredRefs)
      BY <2>2, <2>7, SiftAppend
    <3>2. s = before
      BY <3>1
    <3> HIDE DEF s, before, own, v, W
    <3>3. Declares(s, snap, v)
      BY <2>1, <2>3, <2>5, <2>7, <3>2 DEF Declares, Decided, own
    <3> QED BY <2>1, <3>3 DEF W, s, v
  <2>8. CASE r.datum # None
    <3>1. Sift(v, DeclaredRefs) = Append(Sift(u, DeclaredRefs), r)
      BY <2>2, <2>8, SiftAppend
    <3>2. s = Declare(before, r)
      BY <2>2, <2>6, <2>8, <3>1, DeclareMore
    <3>3. /\ s \in Snapshots /\ s.hash = before.hash /\ s.name = before.name
          /\ \A x \in Tokens :
               /\ s.decimals[x] = IF x = r.token THEN Positive(r.datum.d)
                                  ELSE before.decimals[x]
               /\ s.tickers[x] = IF x = r.token THEN r.datum.t ELSE before.tickers[x]
      BY <2>1, <2>2, <2>8, <3>2, DeclareIs DEF Declares
    <3> HIDE DEF s, before, own, v, W
    <3>4. ASSUME NEW x \in Tokens PROVE Decided(s, snap, Sift(v, OfToken(x)), x)
      <4>1. CASE x = r.token
        <5>1. s.decimals[x] = Positive(r.datum.d) /\ s.tickers[x] = r.datum.t
          BY <3>3, <4>1
        <5>2. Sift(v, OfToken(x)) # <<>> /\ Last(Sift(v, OfToken(x))) = r
          BY <2>3, <2>5, <4>1
        <5> QED BY <5>1, <5>2 DEF Decided
      <4>2. CASE x # r.token
        <5>1. s.decimals[x] = before.decimals[x] /\ s.tickers[x] = before.tickers[x]
          BY <3>3, <4>2
        <5>2. Decided(before, snap, Sift(v, OfToken(x)), x)
          BY <2>1, <2>3, <4>2 DEF Declares, own
        <5> QED BY <5>1, <5>2 DEF Decided
      <4> QED BY <4>1, <4>2
    <3>5. Declares(s, snap, v)
      BY <2>1, <3>3, <3>4 DEF Declares
    <3> QED BY <2>1, <3>5 DEF W, s, v
  <2> QED BY <2>7, <2>8
<1>3. \A u \in Seq(Refs) : u \in W
  <2> HIDE DEF W
  <2> QED BY <1>1, <1>2, BuiltUp
<1> QED BY <1>3

-----------------------------------------------------------------------------
(* Datums rank first *)

\* A new commit takes nothing from what some commit listed.
LEMMA CommitKeepsRanks ==
  ASSUME NEW snap, NEW known \in Seq(Entries), NEW e \in Entries, Outranks(snap, known)
  PROVE  Outranks(snap, Append(known, e))
<1>1. /\ Len(known) \in Nat /\ DOMAIN known = 1..Len(known)
      /\ DOMAIN Append(known, e) = 1..(Len(known) + 1)
      /\ \A i \in 1..Len(known) : Append(known, e)[i] = known[i]
  BY LenNat, AppendIs
<1>2. \A i \in 1..Len(known) : i \in 1..(Len(known) + 1)
  BY <1>1
<1>3. ASSUME NEW x, NEW field
      PROVE  Listed(known, x, field) \subseteq Listed(Append(known, e), x, field)
  BY <1>1, <1>2 DEF Listed
<1> QED BY <1>3 DEF Outranks, Ranks

\* A block: what it declares is in the snapshot, and nothing else changes.
LEMMA BlockKeepsRanks ==
  ASSUME NEW snap \in Snapshots, NEW b \in Blocks, NEW known, Outranks(snap, known)
  PROVE  LET s == AfterBlock(snap, b)
         IN  /\ s \in Snapshots /\ s.hash = Append(snap.hash, b)
             /\ DOMAIN s.name = DOMAIN snap.name \cup b.regs
             /\ \A x \in DOMAIN snap.name : s.name[x] = snap.name[x]
             /\ Outranks(s, known)
<1> DEFINE base == Carried(snap, b)
           name == [x \in DOMAIN snap.name \cup b.regs |->
                      IF x \in DOMAIN snap.name THEN snap.name[x] ELSE None]
           s == AfterBlock(snap, b)
<1>1. b.refs \in Seq(Refs) /\ b.regs \subseteq Pools
  BY ConstantsAre
<1>2. PICK subjects \in SUBSET Subjects : snap.name \in [subjects -> Names \cup {None}]
  BY DEF Snapshots
<1>3. name \in [subjects \cup b.regs -> Names \cup {None}] /\ subjects \cup b.regs \in SUBSET Subjects
  BY <1>1, <1>2 DEF Subjects
<1>4. /\ DOMAIN name = DOMAIN snap.name \cup b.regs
      /\ \A x \in DOMAIN snap.name : name[x] = snap.name[x]
  OBVIOUS
<1> HIDE DEF name
<1>5. base = [snap EXCEPT !.hash = Append(@, b), !.name = name]
  BY DEF Carried, name
<1>6. Append(snap.hash, b) \in Seq(Blocks) /\ snap.hash \in Seq(Blocks)
  BY DEF Snapshots
<1>7. name \in UNION {[d -> Names \cup {None}] : d \in SUBSET Subjects}
  BY <1>3
<1>8. /\ base \in Snapshots /\ base.hash = Append(snap.hash, b) /\ base.name = name
      /\ base.decimals = snap.decimals /\ base.tickers = snap.tickers
  BY <1>5, <1>6, <1>7 DEF Snapshots
<1> HIDE DEF base
<1>9. s = DeclareAll(base, Sift(b.refs, DeclaredRefs))
  BY DEF AfterBlock, DeclareAll, Declared, DeclaredRefs, base
<1> HIDE DEF s
<1>10. Declares(s, base, b.refs)
  BY <1>1, <1>8, <1>9, DeclaredDecides
<1>11. s \in Snapshots /\ s.hash = Append(snap.hash, b) /\ s.name = name
  BY <1>8, <1>10 DEF Declares
<1>12. ASSUME NEW x \in Tokens
       PROVE  Ranks(s, x, CurrentDatum(s.hash, x), known)
  <2> DEFINE own == Sift(b.refs, OfToken(x))
             old == CurrentDatum(snap.hash, x)
             new == CurrentDatum(s.hash, x)
  <2>1. new = IF own = <<>> THEN old ELSE Last(own).datum
    BY <1>6, <1>11, DatumAppend
  <2>2. Ranks(snap, x, old, known)
    BY DEF Outranks
  <2>3. Decided(s, base, own, x)
    BY <1>10 DEF Declares
  <2>4. new \in Datums \cup {None}
    BY <1>6, <1>11, DatumAppend
  <2> HIDE DEF own, old, new
  <2>5. CASE own = <<>>
    <3>1. s.decimals[x] = snap.decimals[x] /\ s.tickers[x] = snap.tickers[x]
      BY <1>8, <2>3, <2>5 DEF Decided
    <3> QED BY <2>1, <2>2, <2>5, <3>1 DEF Ranks, new
  <2>6. CASE own # <<>> /\ new # None
    <3>1. s.decimals[x] = Positive(new.d) /\ s.tickers[x] = new.t
      BY <2>1, <2>3, <2>6 DEF Decided
    <3>2. s.decimals[x] \in IF new.d > 0 THEN {new.d} ELSE Listed(known, x, "d")
      BY <3>1 DEF Positive, Listed
    <3> QED BY <3>1, <3>2 DEF Ranks, new
  <2>7. CASE new = None
    BY <2>7 DEF Ranks, new
  <2> QED BY <2>5, <2>6, <2>7
<1> QED BY <1>4, <1>11, <1>12 DEF Outranks, s

\* The last commit is one of them.
LEMMA RegistryIs ==
  ASSUME commits \in Seq(Entries), commits # <<>>
  PROVE  /\ Registry \in Entries
         /\ \A x, field : Registry[x][field] \in Listed(commits, x, field)
<1>1. Len(commits) \in Nat /\ DOMAIN commits = 1..Len(commits) /\ Len(commits) # 0
  BY LenNat
<1>2. Len(commits) \in DOMAIN commits /\ Registry = commits[Len(commits)]
  BY <1>1 DEF Registry, Last
<1> QED BY <1>2, ElementIn DEF Listed

\* A pass of the registry's task leaves declared decimals alone.
LEMMA PassKeepsRanks ==
  ASSUME commits \in Seq(Entries), commits # <<>>, NEW snap \in Snapshots, Outranks(snap, commits)
  PROVE  LET s == [snap EXCEPT
                     !.decimals = [x \in Tokens |-> AddDecimals(@[x], Registry[x].d)],
                     !.tickers = [x \in Tokens |-> OwnFirst(Registry[x].t, @[x])]]
         IN  s \in Snapshots /\ s.hash = snap.hash /\ s.name = snap.name /\ Outranks(s, commits)
<1> DEFINE decimals == [x \in Tokens |-> AddDecimals(snap.decimals[x], Registry[x].d)]
           tickers == [x \in Tokens |-> OwnFirst(Registry[x].t, snap.tickers[x])]
           s == [snap EXCEPT !.decimals = decimals, !.tickers = tickers]
<1>1. /\ snap.decimals \in [Tokens -> Nat \cup {None}]
      /\ snap.tickers \in [Tokens -> Names \cup {None}]
  BY DEF Snapshots
<1>2. \A x \in Tokens : Registry[x].d \in Nat \cup {None} /\ Registry[x].t \in Names \cup {None}
  BY RegistryIs, ConstantsAre
<1>3. /\ decimals \in [Tokens -> Nat \cup {None}]
      /\ tickers \in [Tokens -> Names \cup {None}]
  BY <1>1, <1>2 DEF AddDecimals, OwnFirst
<1>4. \A x \in Tokens :
        /\ decimals[x] = IF snap.decimals[x] # None THEN snap.decimals[x] ELSE Registry[x].d
        /\ tickers[x] = IF Registry[x].t # None THEN Registry[x].t ELSE snap.tickers[x]
  BY DEF AddDecimals, OwnFirst
<1> HIDE DEF decimals, tickers
<1>5. /\ s \in Snapshots /\ s.hash = snap.hash /\ s.name = snap.name
      /\ s.decimals = decimals /\ s.tickers = tickers
  BY <1>3 DEF Snapshots
<1>6. ASSUME NEW x \in Tokens PROVE Ranks(s, x, CurrentDatum(snap.hash, x), commits)
  <2> DEFINE datum == CurrentDatum(snap.hash, x)
  <2>1. SUFFICES ASSUME datum # None
                 PROVE  /\ s.decimals[x] \in IF datum.d > 0 THEN {datum.d}
                                             ELSE Listed(commits, x, "d")
                        /\ s.tickers[x] \in {datum.t} \cup Listed(commits, x, "t")
    BY DEF Ranks
  <2>2. /\ snap.decimals[x] \in IF datum.d > 0 THEN {datum.d} ELSE Listed(commits, x, "d")
        /\ snap.tickers[x] \in {datum.t} \cup Listed(commits, x, "t")
    BY <2>1 DEF Outranks, Ranks
  <2>3. snap.hash \in Seq(Blocks)
    BY DEF Snapshots
  <2>4. datum \in Datums
    BY <2>1, <2>3, DatumAppend
  <2>5. datum.d \in Nat /\ datum.d # None
    BY <2>4, ConstantsAre
  <2>6. Registry[x].d \in Listed(commits, x, "d") /\ Registry[x].t \in Listed(commits, x, "t")
    <3>1. \A field : Registry[x][field] \in Listed(commits, x, field)
      BY RegistryIs
    <3> QED BY <3>1
  <2> HIDE DEF s, datum
  <2>7. s.decimals[x] \in IF datum.d > 0 THEN {datum.d} ELSE Listed(commits, x, "d")
    BY <1>4, <1>5, <2>2, <2>5, <2>6
  <2>8. s.tickers[x] \in {datum.t} \cup Listed(commits, x, "t")
    BY <1>4, <1>5, <2>2, <2>6
  <2> QED BY <2>7, <2>8
<1>7. s.hash = snap.hash /\ Outranks(s, commits)
  BY <1>5, <1>6 DEF Outranks
<1>8. s = [snap EXCEPT
            !.decimals = [x \in Tokens |-> AddDecimals(@[x], Registry[x].d)],
            !.tickers = [x \in Tokens |-> OwnFirst(Registry[x].t, @[x])]]
  BY DEF s, decimals, tickers
<1> HIDE DEF s
<1> QED BY <1>5, <1>7, <1>8

-----------------------------------------------------------------------------
(* Rows *)

\* The newest row of a subject among those of a list.
LEMMA IdsAre ==
  ASSUME NEW rs \in Seq(Rows), NEW s
  PROVE  /\ IdsOf(rs, s) \subseteq 1..Len(rs) /\ Len(rs) \in Nat /\ DOMAIN rs = 1..Len(rs)
         /\ IdsOf(rs, s) # {} =>
              /\ Max(IdsOf(rs, s)) \in IdsOf(rs, s)
              /\ \A i \in IdsOf(rs, s) : Max(IdsOf(rs, s)) >= i
              /\ Max(IdsOf(rs, s)) \in 1..Len(rs)
              /\ rs[Max(IdsOf(rs, s))].name \in Names
<1>1. Len(rs) \in Nat /\ DOMAIN rs = 1..Len(rs)
  BY LenNat
<1>2. IdsOf(rs, s) \subseteq 1..Len(rs)
  BY <1>1 DEF IdsOf
<1> DEFINE ids == IdsOf(rs, s)
<1>3. ids \subseteq 0..Len(rs)
  BY <1>1, <1>2
<1> HIDE DEF ids
<1>4. ASSUME ids # {}
      PROVE  Max(ids) \in ids /\ \A i \in ids : Max(ids) >= i
  BY <1>1, <1>3, <1>4, MaxIndex
<1>5. \A i \in 1..Len(rs) : rs[i].name \in Names
  <2>1. \A i \in 1..Len(rs) : rs[i] \in Rows
    BY <1>1
  <2> QED BY <2>1 DEF Rows
<1> QED BY <1>1, <1>2, <1>4, <1>5 DEF ids

\* The queries, in these terms.
LEMMA QueriesAre ==
  ASSUME rows \in Seq(Rows)
  PROVE  /\ \A s : Ids({s}) = IdsOf(rows, s)
         /\ \A group : /\ MaxId(group) \in 0..Len(rows)
                       /\ \A i \in DOMAIN rows : rows[i].subject \in group => i <= MaxId(group)
<1>1. \A s : Ids({s}) = IdsOf(rows, s)
  BY DEF Ids, IdsOf
<1>2. Len(rows) \in Nat /\ DOMAIN rows = 1..Len(rows)
  BY LenNat
<1>3. ASSUME NEW group
      PROVE  /\ MaxId(group) \in 0..Len(rows)
             /\ \A i \in DOMAIN rows : rows[i].subject \in group => i <= MaxId(group)
  <2> DEFINE T == {0} \cup Ids(group)
  <2>1. T \subseteq 0..Len(rows) /\ T # {}
    BY <1>2 DEF Ids
  <2>2. \A i \in DOMAIN rows : rows[i].subject \in group => i \in T
    BY DEF Ids
  <2>3. MaxId(group) = Max(T)
    BY DEF MaxId
  <2> HIDE DEF T
  <2>4. Max(T) \in T /\ \A y \in T : Max(T) >= y
    BY <1>2, <2>1, MaxIndex
  <2> QED BY <1>2, <2>1, <2>2, <2>3, <2>4
<1> QED BY <1>1, <1>3

\* What a query for rows after a cursor finds of a subject.
LEMMA NewNameIs ==
  ASSUME rows \in Seq(Rows), NEW s, NEW since \in Nat
  PROVE  LET ids == IdsOf(rows, s)
         IN  NewName(s, since) = IF ids # {} /\ Max(ids) > since THEN rows[Max(ids)].name
                                 ELSE None
<1> DEFINE ids == IdsOf(rows, s)
           new == {i \in ids : i > since}
           top == Max(ids)
<1>1. NewName(s, since) = IF new = {} THEN None ELSE rows[Max(new)].name
  <2>1. Ids({s}) = ids
    BY QueriesAre
  <2> QED BY <2>1 DEF NewName
<1>2. ids \subseteq 1..Len(rows) /\ Len(rows) \in Nat
  BY IdsAre
<1>3. ids # {} => top \in ids /\ (\A i \in ids : top >= i) /\ top \in 1..Len(rows)
  BY IdsAre
<1> HIDE DEF ids, top
<1>4. ids \subseteq 0..Len(rows) /\ \A i \in ids : top >= i /\ (i > since => top > since)
  <2>1. ASSUME NEW i \in ids PROVE i \in 0..Len(rows) /\ top >= i /\ (i > since => top > since)
    <3>1. i \in 1..Len(rows) /\ top \in 1..Len(rows) /\ top >= i
      BY <1>2, <1>3
    <3> QED BY <1>2, <3>1
  <2> QED BY <2>1
<1>5. NewName(s, since) = IF ids # {} /\ top > since THEN rows[top].name ELSE None
  <2>1. CASE ids # {} /\ top > since
    <3>1. top \in new
      BY <1>3, <2>1
    <3>2. new \subseteq 0..Len(rows) /\ \A i \in new : top >= i
      BY <1>3, <1>4
    <3> HIDE DEF new
    <3>3. Max(new) = top
      BY <1>2, <3>1, <3>2, MaxIs
    <3>4. new # {}
      BY <3>1
    <3>5. NewName(s, since) = rows[top].name
      BY <1>1, <3>3, <3>4
    <3> QED BY <2>1, <3>5
  <2>2. CASE ~(ids # {} /\ top > since)
    <3>1. new = {}
      BY <1>4, <2>2
    <3> HIDE DEF new
    <3>2. NewName(s, since) = None
      BY <1>1, <3>1
    <3> QED BY <2>2, <3>2
  <2> QED BY <2>1, <2>2
<1> QED BY <1>5 DEF ids, top

\* Cursors at the start: nothing was read.
LEMMA StartFollows ==
  ASSUME NEW rs \in Seq(Rows), NEW name
  PROVE  Follows(rs, name, FromStart, {}) /\ Accounted(rs, name, FromStart, {})
<1>1. \A s : Reach(s, FromStart) = 0
  BY DEF Reach, FromStart
<1>2. \A i \in DOMAIN rs : ~(i <= 0)
  BY LenNat
<1>3. \A s : IdsOf(rs, s) # {} => Max(IdsOf(rs, s)) \in DOMAIN rs
  BY IdsAre DEF IdsOf
<1> QED BY <1>1, <1>2, <1>3 DEF Follows, Accounted

\* The cursors are within the rows.
CursorsOf(rs) == [pool : 0..Len(rs), drep : 0..Len(rs)]
LEMMA ReachIs ==
  ASSUME NEW rs \in Seq(Rows), NEW cur \in CursorsOf(rs), NEW s
  PROVE  Reach(s, cur) \in 0..Len(rs)
BY DEF Reach, CursorsOf

\* One more row: no cursor is past it.
LEMMA RowKeepsFollowing ==
  ASSUME NEW rs \in Seq(Rows), NEW row \in Rows, NEW name, NEW cur \in CursorsOf(rs), NEW skipped,
         Follows(rs, name, cur, skipped), Accounted(rs, name, cur, skipped)
  PROVE  /\ Follows(Append(rs, row), name, cur, skipped)
         /\ Accounted(Append(rs, row), name, cur, skipped)
<1> DEFINE new == Append(rs, row)
           n == Len(rs)
<1>1. /\ n \in Nat /\ DOMAIN rs = 1..n /\ DOMAIN new = 1..(n + 1) /\ new \in Seq(Rows)
      /\ new[n + 1] = row /\ \A i \in 1..n : new[i] = rs[i]
  BY LenNat, AppendIs
<1>2. \A s : Reach(s, cur) \in 0..n
  BY ReachIs
<1> HIDE DEF new, n
<1>3. ASSUME NEW s, IdsOf(new, s) # {}, Max(IdsOf(new, s)) <= Reach(s, cur)
      PROVE  /\ IdsOf(rs, s) # {} /\ Max(IdsOf(rs, s)) = Max(IdsOf(new, s))
             /\ new[Max(IdsOf(new, s))] = rs[Max(IdsOf(new, s))]
  <2> DEFINE top == Max(IdsOf(new, s))
  <2>1. top \in IdsOf(new, s) /\ \A i \in IdsOf(new, s) : top >= i
    BY <1>1, <1>3, IdsAre
  <2>2. top \in 1..(n + 1) /\ IdsOf(new, s) \subseteq 1..(n + 1)
    BY <1>1, <2>1 DEF IdsOf
  <2> HIDE DEF top
  <2>3. top <= n
    BY <1>1, <1>2, <1>3, <2>2 DEF top
  <2>4. n + 1 \notin IdsOf(new, s) /\ top \in 1..n
    BY <1>1, <2>1, <2>2, <2>3
  <2>5. IdsOf(rs, s) = IdsOf(new, s)
    <3>1. ASSUME NEW i PROVE i \in IdsOf(rs, s) <=> i \in IdsOf(new, s)
      <4>1. i \in 1..(n + 1) <=> i \in 1..n \/ i = n + 1
        BY <1>1
      <4> QED BY <1>1, <2>4, <4>1 DEF IdsOf
    <3> QED BY <3>1
  <2> QED BY <1>1, <1>3, <2>4, <2>5 DEF top
<1>4. Follows(new, name, cur, skipped)
  BY <1>3 DEF Follows
<1>5. Accounted(new, name, cur, skipped)
  <2> SUFFICES ASSUME NEW i \in DOMAIN new, i <= Reach(new[i].subject, cur)
               PROVE  new[i].subject \in DOMAIN name \/ i \in skipped
    BY DEF Accounted
  <2>1. i \in 1..n
    BY <1>1, <1>2
  <2> QED BY <1>1, <2>1 DEF Accounted
<1> QED BY <1>4, <1>5 DEF new

\* A subject that comes in: what was read of it before was passed over.
LEMMA ComingKeepsFollowing ==
  ASSUME NEW rs \in Seq(Rows), NEW name, NEW more, NEW cur, NEW skipped,
         DOMAIN name \subseteq DOMAIN more, \A s \in DOMAIN name : more[s] = name[s],
         Follows(rs, name, cur, skipped), Accounted(rs, name, cur, skipped)
  PROVE  Follows(rs, more, cur, skipped) /\ Accounted(rs, more, cur, skipped)
<1>1. Accounted(rs, more, cur, skipped)
  BY DEF Accounted
<1>2. ASSUME NEW s \in DOMAIN more, IdsOf(rs, s) # {}, Max(IdsOf(rs, s)) <= Reach(s, cur),
             Max(IdsOf(rs, s)) \notin skipped
      PROVE  more[s] = rs[Max(IdsOf(rs, s))].name
  <2>1. Max(IdsOf(rs, s)) \in IdsOf(rs, s)
    BY <1>2, IdsAre
  <2>2. s \in DOMAIN name
    BY <1>2, <2>1 DEF IdsOf, Accounted
  <2> QED BY <1>2, <2>2 DEF Follows
<1> QED BY <1>1, <1>2 DEF Follows

\* The cursors after a refresh of some groups, and the rows it goes by.
CursorsAfter(groups) ==
  [pool |-> IF Pools \in groups THEN MaxId(Pools) ELSE cursor.pool,
   drep |-> IF DReps \in groups THEN MaxId(DReps) ELSE cursor.drep]
SkippedAfter(snap, groups, skipped) ==
  skipped \cup {i \in Strangers(snap) : rows[i].subject \in UNION groups}

\* The idle refresh: a subject whose group was asked for has its newest name, and
\* the cursor of any other stays.
LEMMA RefreshKeeps ==
  ASSUME rows \in Seq(Rows), cursor \in CursorsOf(rows), NEW snap \in Snapshots,
         NEW groups \in SUBSET {Pools, DReps}, NEW skipped,
         Follows(rows, snap.name, cursor, skipped), Accounted(rows, snap.name, cursor, skipped)
  PROVE  LET r == Refreshed(snap, groups)
             cur == CursorsAfter(groups)
             over == SkippedAfter(snap, groups, skipped)
         IN  /\ r \in Snapshots /\ r.hash = snap.hash
             /\ r.decimals = snap.decimals /\ r.tickers = snap.tickers
             /\ cur \in CursorsOf(rows)
             /\ Follows(rows, r.name, cur, over) /\ Accounted(rows, r.name, cur, over)
<1> DEFINE r == Refreshed(snap, groups)
           cur == CursorsAfter(groups)
           over == SkippedAfter(snap, groups, skipped)
           found(s) == NewName(s, Reach(s, cursor))
           name == [s \in DOMAIN snap.name |->
                      IF s \in UNION groups /\ found(s) # None THEN found(s) ELSE snap.name[s]]
<1>1. PICK subjects \in SUBSET Subjects : snap.name \in [subjects -> Names \cup {None}]
  BY DEF Snapshots
<1>2. \A s : Reach(s, cursor) \in 0..Len(rows) /\ Reach(s, cursor) \in Nat
  <2>1. \A s : Reach(s, cursor) \in 0..Len(rows)
    BY ReachIs
  <2>2. Len(rows) \in Nat
    BY LenNat
  <2> QED BY <2>1, <2>2
<1>3. \A s : found(s) = LET ids == IdsOf(rows, s)
                        IN  IF ids # {} /\ Max(ids) > Reach(s, cursor)
                            THEN rows[Max(ids)].name ELSE None
  BY <1>2, NewNameIs
<1>4. \A s : IdsOf(rows, s) # {} => /\ rows[Max(IdsOf(rows, s))].name \in Names
                                    /\ Max(IdsOf(rows, s)) \in 1..Len(rows)
  BY IdsAre
<1>5. \A s : found(s) \in Names \cup {None}
  BY <1>3, <1>4
<1>6. r = [snap EXCEPT !.name = name]
  BY DEF Refreshed, Reach
<1> HIDE DEF found
<1>7. name \in [subjects -> Names \cup {None}] /\ DOMAIN name = subjects
  BY <1>1, <1>5
<1>8. \A s \in subjects :
        name[s] = IF s \in UNION groups /\ found(s) # None THEN found(s) ELSE snap.name[s]
  BY <1>1
<1> HIDE DEF name
<1>9. name \in UNION {[d -> Names \cup {None}] : d \in SUBSET Subjects}
  BY <1>7
<1>10. /\ r \in Snapshots /\ r.hash = snap.hash /\ r.name = name
       /\ r.decimals = snap.decimals /\ r.tickers = snap.tickers
  BY <1>6, <1>9 DEF Snapshots
<1>11. cur \in CursorsOf(rows)
  <2>1. MaxId(Pools) \in 0..Len(rows) /\ MaxId(DReps) \in 0..Len(rows)
    BY QueriesAre
  <2>2. cursor.pool \in 0..Len(rows) /\ cursor.drep \in 0..Len(rows)
    BY DEF CursorsOf
  <2> QED BY <2>1, <2>2 DEF CursorsOf, CursorsAfter
<1>12. \A s \in Subjects : s \notin UNION groups => Reach(s, cur) = Reach(s, cursor)
  <2> SUFFICES ASSUME NEW s \in Subjects, s \notin UNION groups
               PROVE  Reach(s, cur) = Reach(s, cursor)
    OBVIOUS
  <2>1. CASE s \in Pools
    <3>1. Pools \notin groups
      BY <2>1
    <3>2. cur.pool = cursor.pool
      BY <3>1 DEF CursorsAfter
    <3> QED BY <2>1, <3>2 DEF Reach
  <2>2. CASE s \notin Pools
    <3>1. DReps \notin groups
      BY <2>2 DEF Subjects
    <3>2. cur.drep = cursor.drep
      BY <3>1 DEF CursorsAfter
    <3> QED BY <2>2, <3>2 DEF Reach
  <2> QED BY <2>1, <2>2
<1> HIDE DEF r, cur
<1>13. ASSUME NEW s \in subjects, IdsOf(rows, s) # {}, Max(IdsOf(rows, s)) <= Reach(s, cur),
              Max(IdsOf(rows, s)) \notin over
       PROVE  name[s] = rows[Max(IdsOf(rows, s))].name
  <2> DEFINE top == Max(IdsOf(rows, s))
  <2>1. top \notin skipped
    BY <1>13 DEF SkippedAfter
  <2>2. top \in 1..Len(rows) /\ Len(rows) \in Nat /\ rows[top].name # None
    BY <1>4, <1>13, LenNat, ConstantsAre
  <2>3. found(s) = IF top > Reach(s, cursor) THEN rows[top].name ELSE None
    BY <1>3, <1>13
  <2>4. top <= Reach(s, cursor) => snap.name[s] = rows[top].name
    BY <1>1, <1>13, <2>1 DEF Follows
  <2> HIDE DEF top
  <2>5. CASE top > Reach(s, cursor)
    <3>1. s \in UNION groups
      <4>1. Reach(s, cursor) \in 0..Len(rows)
        BY <1>2
      <4>2. ~(top <= Reach(s, cursor))
        BY <2>2, <2>5, <4>1
      <4> QED BY <1>1, <1>12, <1>13, <4>2 DEF top
    <3> QED BY <1>8, <2>2, <2>3, <2>5, <3>1 DEF top
  <2>6. CASE ~(top > Reach(s, cursor))
    <3>1. top <= Reach(s, cursor)
      BY <1>2, <2>2, <2>6
    <3> QED BY <1>8, <2>3, <2>4, <2>6, <3>1 DEF top
  <2> QED BY <2>5, <2>6
<1>14. Follows(rows, name, cur, over)
  BY <1>7, <1>13 DEF Follows
<1>15. Accounted(rows, name, cur, over)
  <2> SUFFICES ASSUME NEW i \in DOMAIN rows, i <= Reach(rows[i].subject, cur)
               PROVE  rows[i].subject \in DOMAIN name \/ i \in over
    BY DEF Accounted
  <2>1. rows[i].subject \in Subjects
    <3>1. rows[i] \in Rows
      BY ElementIn
    <3> QED BY <3>1 DEF Rows
  <2>2. DOMAIN name = DOMAIN snap.name
    BY <1>1, <1>7
  <2>3. CASE rows[i].subject \in UNION groups
    BY <2>2, <2>3 DEF SkippedAfter, Strangers
  <2>4. CASE rows[i].subject \notin UNION groups
    <3>1. i <= Reach(rows[i].subject, cursor)
      BY <1>12, <2>1, <2>4
    <3> QED BY <2>2, <3>1 DEF Accounted, SkippedAfter
  <2> QED BY <2>3, <2>4
<1> QED BY <1>10, <1>11, <1>14, <1>15 DEF r, cur

\* A rebuild: every name db-sync has, and every token's own datum first.
LEMMA RebuiltIs ==
  ASSUME rows \in Seq(Rows), commits \in Seq(Entries), commits # <<>>, NEW blocks \in Seq(Blocks)
  PROVE  LET s == Rebuilt(blocks)
         IN  /\ s \in Good(commits) /\ s.hash = blocks
             /\ \A x \in DOMAIN s.name : s.name[x] = NewName(x, 0)
<1> DEFINE s == Rebuilt(blocks)
           name == [x \in Registered(blocks) |-> NewName(x, 0)]
           datum(x) == CurrentDatum(blocks, x)
           d(x) == IF datum(x) = None THEN None ELSE Positive(datum(x).d)
           t(x) == IF datum(x) = None THEN None ELSE datum(x).t
           decimals == [x \in Tokens |-> OwnFirst(d(x), Registry[x].d)]
           tickers == [x \in Tokens |-> OwnFirst(t(x), Registry[x].t)]
<1>1. s = [hash |-> blocks, name |-> name, decimals |-> decimals, tickers |-> tickers]
  BY DEF Rebuilt
<1>2. Registered(blocks) \subseteq Subjects
  <2>1. \A b \in ToSet(blocks) : b \in Blocks
    BY ElementIn DEF ToSet
  <2>2. \A b \in ToSet(blocks) : b.regs \subseteq Pools
    BY <2>1, ConstantsAre
  <2> QED BY <2>2 DEF Registered, Genesis, Subjects
<1>3. name \in [Registered(blocks) -> Names \cup {None}]
  <2>1. \A x : NewName(x, 0) \in Names \cup {None}
    <3>1. \A x : LET ids == IdsOf(rows, x)
                 IN  NewName(x, 0) = IF ids # {} /\ Max(ids) > 0 THEN rows[Max(ids)].name
                                     ELSE None
      BY NewNameIs
    <3>2. \A x : IdsOf(rows, x) # {} => rows[Max(IdsOf(rows, x))].name \in Names
      BY IdsAre
    <3> QED BY <3>1, <3>2
  <2> QED BY <2>1
<1>4. \A x \in Tokens : datum(x) \in Datums \cup {None}
  BY DatumAppend
<1>5. /\ \A x \in Tokens : datum(x) # None => datum(x).d \in Nat /\ datum(x).t \in Names \cup {None}
      /\ None \notin Nat
  BY <1>4, ConstantsAre
<1>6. \A x \in Tokens : Registry[x].d \in Nat \cup {None} /\ Registry[x].t \in Names \cup {None}
  BY RegistryIs, ConstantsAre
<1>7. \A x \in Tokens : Registry[x].d \in Listed(commits, x, "d")
                        /\ Registry[x].t \in Listed(commits, x, "t")
  <2>1. \A x, field : Registry[x][field] \in Listed(commits, x, field)
    BY RegistryIs
  <2> QED BY <2>1
<1> HIDE DEF datum
<1>8. \A x \in Tokens : d(x) \in Nat \cup {None} /\ t(x) \in Names \cup {None}
  BY <1>5 DEF Positive
<1>9. /\ decimals \in [Tokens -> Nat \cup {None}]
      /\ tickers \in [Tokens -> Names \cup {None}]
  BY <1>6, <1>8 DEF OwnFirst
<1>10. name \in UNION {[e -> Names \cup {None}] : e \in SUBSET Subjects}
  BY <1>2, <1>3
<1>11. ASSUME NEW x \in Tokens, datum(x) # None
       PROVE  /\ decimals[x] \in IF datum(x).d > 0 THEN {datum(x).d} ELSE Listed(commits, x, "d")
              /\ tickers[x] \in {datum(x).t} \cup Listed(commits, x, "t")
  BY <1>5, <1>7, <1>11 DEF OwnFirst, Positive
<1>12. \A x \in DOMAIN name : name[x] = NewName(x, 0)
  OBVIOUS
<1> HIDE DEF name, decimals, tickers
<1>13. s \in Snapshots
  BY <1>1, <1>9, <1>10 DEF Snapshots
<1>14. /\ s.hash = blocks /\ s.name = name /\ s.decimals = decimals /\ s.tickers = tickers
  BY <1>1
<1> HIDE DEF s
<1>15. \A x \in Tokens : Ranks(s, x, CurrentDatum(s.hash, x), commits)
  BY <1>11, <1>14 DEF Ranks, datum
<1>16. s \in Good(commits) /\ \A x \in DOMAIN s.name : s.name[x] = NewName(x, 0)
  BY <1>12, <1>13, <1>14, <1>15 DEF Good, Outranks
<1> QED BY <1>14, <1>16 DEF s

-----------------------------------------------------------------------------
(* The history *)

\* Another snapshot in the place of the newest.
LEMMA ReplaceLast ==
  ASSUME NEW S, NEW h \in Seq(S), h # <<>>, NEW s \in S
  PROVE  LET g == Front(h) \o <<s>>
         IN  /\ g \in Seq(S) /\ g # <<>> /\ Len(g) = Len(h) /\ Last(g) = s
             /\ \A i \in 1..Len(h) : g[i] = IF i = Len(h) THEN s ELSE h[i]
<1> DEFINE n == Len(h)
           f == SubSeq(h, 1, n - 1)
           g == Front(h) \o <<s>>
<1>1. n \in Nat /\ n # 0
  BY LenNat
<1>2. f \in Seq(S) /\ Len(f) = n - 1 /\ \A i \in 1..(n - 1) : f[i] = h[i]
  <2>1. n - 1 \in 0..Len(h)
    BY <1>1
  <2>2. f \in Seq(S) /\ Len(f) = n - 1
    BY <2>1, PrefixStep
  <2>3. \A i \in 1..(n - 1) : SubSeq(h, 1, n - 1)[i] = h[i]
    BY <1>1
  <2> QED BY <2>2, <2>3
<1>3. g = f \o <<s>>
  BY DEF Front
<1> HIDE DEF n, f, g
<1>4. /\ g \in Seq(S) /\ Len(g) = n /\ g[n] = s
      /\ \A i \in 1..(n - 1) : g[i] = f[i]
  <2>1. f \o <<s>> = Append(f, s)
    BY <1>2
  <2>2. /\ Append(f, s) \in Seq(S) /\ Len(Append(f, s)) = Len(f) + 1
        /\ Append(f, s)[Len(f) + 1] = s /\ \A i \in 1..Len(f) : Append(f, s)[i] = f[i]
    BY <1>2, AppendIs
  <2>3. Len(f) + 1 = n
    BY <1>1, <1>2
  <2> QED BY <1>2, <1>3, <2>1, <2>2, <2>3
<1>5. \A i \in 1..n : i = n \/ i \in 1..(n - 1)
  BY <1>1
<1>6. \A i \in 1..n : g[i] = IF i = n THEN s ELSE h[i]
  BY <1>2, <1>4, <1>5
<1>7. g # <<>> /\ Last(g) = s
  BY <1>1, <1>4 DEF Last
<1> QED BY <1>4, <1>6, <1>7 DEF n, g

LEMMA ReplaceKeepsTail ==
  ASSUME NEW S, NEW h \in Seq(S), h # <<>>, NEW s \in S, NEW c,
         TailOf(h, c), s.hash = Last(h).hash
  PROVE  TailOf(Front(h) \o <<s>>, c)
<1> DEFINE g == Front(h) \o <<s>>
<1>1. /\ g \in Seq(S) /\ Len(g) = Len(h)
      /\ \A i \in 1..Len(h) : g[i] = IF i = Len(h) THEN s ELSE h[i]
  BY ReplaceLast
<1>2. DOMAIN g = 1..Len(g) /\ DOMAIN h = 1..Len(h)
  BY <1>1, LenNat
<1> HIDE DEF g
<1>3. \A i \in DOMAIN g : g[i].hash = h[i].hash
  BY <1>1, <1>2 DEF Last
<1> QED BY <1>1, <1>2, <1>3 DEF TailOf, g

\* The newest snapshot is of the chain's last block.
LEMMA NewestIs ==
  ASSUME NEW S, NEW h \in Seq(S), h # <<>>, NEW c \in Seq(Blocks), TailOf(h, c)
  PROVE  Last(h) \in S /\ Last(h).hash = c
<1>1. Len(h) \in Nat /\ Len(h) # 0 /\ DOMAIN h = 1..Len(h) /\ Len(c) \in Nat
  BY LenNat
<1>2. Len(h) \in DOMAIN h /\ Len(c) - Len(h) + Len(h) = Len(c)
  BY <1>1
<1>3. Last(h).hash = SubSeq(c, 1, Len(c))
  BY <1>2 DEF TailOf, Last
<1>4. SubSeq(c, 1, Len(c)) = c
  BY PrefixStep
<1> QED BY <1>2, <1>3, <1>4, ElementIn DEF Last

\* A block and its snapshot.
LEMMA AppendKeepsTail ==
  ASSUME NEW S, NEW h \in Seq(S), NEW c \in Seq(Blocks), NEW b \in Blocks, TailOf(h, c),
         NEW s \in S, s.hash = Append(c, b)
  PROVE  TailOf(Append(h, s), Append(c, b))
<1> DEFINE g == Append(h, s)
           d == Append(c, b)
           m == Len(h)
           n == Len(c)
<1>1. m \in Nat /\ n \in Nat /\ DOMAIN h = 1..m /\ m <= n + 1
  BY LenNat DEF TailOf
<1>2. /\ Len(g) = m + 1 /\ DOMAIN g = 1..(m + 1) /\ g[m + 1] = s
      /\ \A i \in 1..m : g[i] = h[i]
  BY AppendIs
<1>3. /\ d \in Seq(Blocks) /\ Len(d) = n + 1 /\ SubSeq(d, 1, n + 1) = d
      /\ \A k \in 0..n : SubSeq(d, 1, k) = SubSeq(c, 1, k)
  <2>1. /\ d \in Seq(Blocks) /\ Len(d) = n + 1 /\ \A i \in 1..n : d[i] = c[i]
    BY AppendIs
  <2>2. SubSeq(d, 1, n + 1) = d
    BY <2>1, PrefixStep
  <2>3. \A k \in 0..n : SubSeq(d, 1, k) = SubSeq(c, 1, k)
    BY <1>1, <2>1
  <2> QED BY <2>1, <2>2, <2>3
<1> HIDE DEF g, d, m, n
<1>4. ASSUME NEW i \in 1..(m + 1) PROVE g[i].hash = SubSeq(d, 1, (n + 1) - (m + 1) + i)
  <2>1. CASE i = m + 1
    <3>1. (n + 1) - (m + 1) + i = n + 1
      BY <1>1, <2>1
    <3> QED BY <1>2, <1>3, <2>1, <3>1 DEF d
  <2>2. CASE i # m + 1
    <3>1. i \in 1..m /\ (n + 1) - (m + 1) + i = n - m + i /\ n - m + i \in 0..n
      BY <1>1, <2>2
    <3>2. h[i].hash = SubSeq(c, 1, n - m + i)
      BY <1>1, <3>1 DEF TailOf, n, m
    <3> QED BY <1>2, <1>3, <3>1, <3>2
  <2> QED BY <2>1, <2>2
<1>5. m + 1 <= (n + 1) + 1
  BY <1>1
<1> QED BY <1>2, <1>3, <1>4, <1>5 DEF TailOf, g, d

\* The bound of the history drops the oldest snapshot.
LEMMA TrimKeepsTail ==
  ASSUME NEW S, NEW h \in Seq(S), NEW c \in Seq(Blocks), TailOf(h, c),
         h # <<>>, Len(h) <= MaxHistory + 1
  PROVE  /\ Trim(h) \in Seq(S) /\ Trim(h) # <<>> /\ Len(Trim(h)) <= MaxHistory
         /\ TailOf(Trim(h), c) /\ Last(Trim(h)) = Last(h)
<1>1. Len(h) \in Nat /\ Len(h) # 0 /\ MaxHistory \in Nat \ {0} /\ Len(c) \in Nat
  BY LenNat, ConstantsAre
<1>2. CASE Len(h) <= MaxHistory
  BY <1>1, <1>2 DEF Trim
<1>3. CASE ~(Len(h) <= MaxHistory)
  <2> DEFINE g == Tail(h)
             m == Len(h)
  <2>1. Trim(h) = g /\ m = MaxHistory + 1 /\ m > 1
    BY <1>1, <1>3 DEF Trim
  <2>2. /\ g \in Seq(S) /\ Len(g) = m - 1 /\ DOMAIN g = 1..(m - 1)
        /\ \A i \in 1..(m - 1) : g[i] = h[i + 1]
    BY <1>1
  <2> HIDE DEF g, m
  <2>3. g # <<>> /\ Last(g) = Last(h)
    <3>1. m - 1 \in 1..(m - 1) /\ (m - 1) + 1 = m
      BY <1>1, <2>1 DEF m
    <3> QED BY <2>2, <3>1 DEF Last, m
  <2>4. ASSUME NEW i \in 1..(m - 1) PROVE g[i].hash = SubSeq(c, 1, Len(c) - (m - 1) + i)
    <3>1. i + 1 \in 1..m /\ Len(c) - (m - 1) + i = Len(c) - m + (i + 1) /\ DOMAIN h = 1..m
      BY <1>1, <2>1, LenNat DEF m
    <3>2. h[i + 1].hash = SubSeq(c, 1, Len(c) - m + (i + 1))
      BY <3>1 DEF TailOf, m
    <3> QED BY <2>2, <3>1, <3>2
  <2>5. m - 1 <= Len(c) + 1 /\ m - 1 <= MaxHistory
    BY <1>1, <2>1 DEF TailOf, m
  <2> QED BY <2>1, <2>2, <2>3, <2>4, <2>5 DEF TailOf
<1> QED BY <1>2, <1>3

\* The snapshots up to a height that the history has.
LEMMA CutKeepsTail ==
  ASSUME NEW S, NEW h \in Seq(S), NEW c \in Seq(Blocks), TailOf(h, c),
         NEW n \in Nat, n < Len(c), NEW at \in DOMAIN h, Len(h[at].hash) = n
  PROVE  LET g == Sift(h, {s \in ToSet(h) : Len(s.hash) <= n})
         IN  g \in Seq(S) /\ g # <<>> /\ Len(g) <= Len(h) /\ TailOf(g, SubSeq(c, 1, n))
<1> DEFINE m == Len(h)
           k == n - (Len(c) - m)
           keep == {s \in ToSet(h) : Len(s.hash) <= n}
           g == Sift(h, keep)
           d == SubSeq(c, 1, n)
<1>1. m \in Nat /\ DOMAIN h = 1..m /\ Len(c) \in Nat /\ m <= Len(c) + 1
  BY LenNat DEF TailOf
<1>2. ASSUME NEW i \in 1..m
      PROVE  /\ h[i].hash = SubSeq(c, 1, Len(c) - m + i)
             /\ Len(h[i].hash) = Len(c) - m + i /\ Len(c) - m + i \in 0..Len(c)
  <2>1. h[i].hash = SubSeq(c, 1, Len(c) - m + i)
    BY <1>1 DEF TailOf
  <2>2. Len(c) - m + i \in 0..Len(c)
    BY <1>1
  <2> QED BY <2>1, <2>2, PrefixStep, ZenonT(40)
<1>3. k \in 1..m
  <2>1. Len(h[at].hash) = Len(c) - m + at /\ at \in 1..m
    BY <1>1, <1>2
  <2> QED BY <1>1, <2>1
<1>4. ASSUME NEW i \in 1..m PROVE h[i] \in keep <=> i <= k
  <2>1. h[i] \in ToSet(h)
    BY <1>1 DEF ToSet
  <2>2. Len(c) - m + i <= n <=> i <= k
    BY <1>1
  <2> QED BY <1>2, <2>1, <2>2
<1> HIDE DEF keep, k
<1>5. g \in Seq(S) /\ Len(g) = k /\ \A j \in 1..k : g[j] = h[j]
  <2>1. k \in 0..Len(h) /\ \A i \in 1..Len(h) : h[i] \in keep <=> i <= k
    BY <1>3, <1>4
  <2> QED BY <2>1, SiftPrefix
<1>6. /\ d \in Seq(Blocks) /\ Len(d) = n
      /\ \A j \in 0..n : SubSeq(d, 1, j) = SubSeq(c, 1, j)
  BY <1>1
<1> HIDE DEF g, d
<1>7. ASSUME NEW j \in 1..k PROVE g[j].hash = SubSeq(d, 1, n - k + j)
  <2>1. j \in 1..m /\ n - k + j = Len(c) - m + j /\ n - k + j \in 0..n
    BY <1>1, <1>2, <1>3 DEF k
  <2> QED BY <1>2, <1>5, <1>6, <2>1
<1>8. k <= n + 1 /\ k <= m /\ k # 0
  BY <1>1, <1>3 DEF k
<1>9. DOMAIN g = 1..k
  BY <1>5, LenNat
<1>10. TailOf(g, d)
  BY <1>5, <1>6, <1>7, <1>8, <1>9 DEF TailOf
<1> QED BY <1>5, <1>8, <1>10 DEF g, d, keep

-----------------------------------------------------------------------------
(* The inductive invariant *)

\* The parts of TypeOK, in the terms of the proofs.
LEMMA TypeIs ==
  TypeOK <=>
    /\ chain \in Seq(Blocks) /\ Len(chain) <= MaxBlocks
    /\ rows \in Seq(Rows)
    /\ commits \in Seq(Entries) /\ commits # <<>>
    /\ history \in Seq(Snapshots) /\ Len(history) \in 1..MaxHistory
    /\ saved \in Snapshots
    /\ cursor \in CursorsOf(rows)
    /\ passed \subseteq DOMAIN rows
    /\ lastSha \in 0..Len(commits) /\ catching \in BOOLEAN
    /\ faults \in 0..MaxFaults
BY DEF TypeOK, Rows, CursorsOf

\* What every step starts from.
LEMMA InvIs ==
  ASSUME IInv
  PROVE  /\ history \in Seq(Good(commits)) /\ history # <<>>
         /\ Len(history) \in Nat /\ Len(history) <= MaxHistory
         /\ Now \in Good(commits) /\ Now \in Snapshots /\ Outranks(Now, commits)
         /\ Now.hash = chain
<1>1. /\ history \in Seq(Good(commits)) /\ TailOf(history, chain) /\ chain \in Seq(Blocks)
      /\ Len(history) \in 1..MaxHistory
  BY TypeIs DEF IInv
<1>2. Len(history) \in Nat /\ Len(history) # 0 /\ Len(history) <= MaxHistory
  BY <1>1, ConstantsAre
<1>3. history # <<>>
  BY <1>2
<1>4. Now \in Good(commits) /\ Now.hash = chain
  BY <1>1, <1>3, NewestIs DEF Now
<1> QED BY <1>1, <1>2, <1>3, <1>4 DEF Good

\* A history of one.
LEMMA SingleIs ==
  ASSUME NEW S, NEW s \in S, NEW c, s.hash = c, c \in Seq(Blocks)
  PROVE  /\ <<s>> \in Seq(S) /\ Len(<<s>>) \in 1..MaxHistory /\ Last(<<s>>) = s
         /\ TailOf(<<s>>, c)
<1>1. MaxHistory \in Nat \ {0} /\ Len(c) \in Nat /\ SubSeq(c, 1, Len(c)) = c
  BY ConstantsAre, LenNat, PrefixStep
<1>2. <<s>> \in Seq(S) /\ Len(<<s>>) = 1 /\ DOMAIN <<s>> = 1..1 /\ <<s>>[1] = s
  OBVIOUS
<1>3. Len(<<s>>) \in 1..MaxHistory /\ Last(<<s>>) = s
  BY <1>1, <1>2 DEF Last
<1>4. TailOf(<<s>>, c)
  <2>1. \A i \in 1..1 : i = 1 /\ Len(c) - 1 + i = Len(c)
    BY <1>1
  <2>2. 1 <= Len(c) + 1
    BY <1>1
  <2> QED BY <1>1, <1>2, <2>1, <2>2 DEF TailOf
<1> QED BY <1>2, <1>3, <1>4

LEMMA InitIInv == Init => IInv
<1> SUFFICES ASSUME Init PROVE IInv
  OBVIOUS
<1>1. /\ chain = <<>> /\ rows = <<>> /\ cursor = FromStart /\ passed = {}
      /\ history = <<Rebuilt(<<>>)>> /\ saved = Rebuilt(<<>>)
      /\ lastSha = 0 /\ catching = FALSE /\ faults = 0
  BY DEF Init
<1>2. commits \in Seq(Entries) /\ commits # <<>> /\ Len(commits) \in Nat
  <2>1. PICK e \in Entries : commits = <<e>>
    BY DEF Init
  <2> QED BY <2>1
<1>3. rows \in Seq(Rows) /\ chain \in Seq(Blocks) /\ Len(chain) = 0 /\ Len(rows) = 0
  BY <1>1
<1>4. saved \in Good(commits) /\ saved.hash = chain
  BY <1>1, <1>2, <1>3, RebuiltIs
<1>5. /\ history \in Seq(Good(commits)) /\ Len(history) \in 1..MaxHistory
      /\ TailOf(history, chain)
  <2>1. history = <<saved>>
    BY <1>1
  <2> QED BY <1>3, <1>4, <2>1, SingleIs
<1>6. cursor \in CursorsOf(rows)
  BY <1>1, <1>3 DEF FromStart, CursorsOf
<1>7. Follows(rows, Now.name, cursor, passed) /\ Accounted(rows, Now.name, cursor, passed)
  BY <1>1, <1>3, StartFollows
<1>8. TypeOK
  <2>1. MaxBlocks \in Nat /\ MaxFaults \in Nat
    BY MetadataAssumption
  <2>2. history \in Seq(Snapshots) /\ saved \in Snapshots
    BY <1>4, <1>5 DEF Good
  <2>3. lastSha \in 0..Len(commits) /\ faults \in 0..MaxFaults /\ Len(chain) <= MaxBlocks
    BY <1>1, <1>2, <1>3, <2>1
  <2>4. passed \subseteq DOMAIN rows /\ catching \in BOOLEAN
    BY <1>1
  <2> QED BY <1>2, <1>3, <1>5, <1>6, <2>2, <2>3, <2>4, TypeIs
<1> QED BY <1>4, <1>5, <1>7, <1>8 DEF IInv

LEMMA AddRowKeepsIInv ==
  ASSUME IInv, NEW row \in Rows, AddRow(row)
  PROVE  IInv'
<1>1. /\ rows' = Append(rows, row)
      /\ UNCHANGED <<chain, commits, history, cursor, passed, lastSha,
                     catching, saved, faults>>
  BY DEF AddRow
<1>2. TypeOK /\ rows \in Seq(Rows) /\ cursor \in CursorsOf(rows) /\ passed \subseteq DOMAIN rows
  BY TypeIs DEF IInv
<1>3. /\ Len(rows) \in Nat /\ DOMAIN rows = 1..Len(rows)
      /\ rows' \in Seq(Rows) /\ Len(rows') = Len(rows) + 1 /\ DOMAIN rows' = 1..(Len(rows) + 1)
  BY <1>1, <1>2, LenNat, AppendIs
<1>4. cursor' \in CursorsOf(rows') /\ passed' \subseteq DOMAIN rows'
  <2>1. 0..Len(rows) \subseteq 0..Len(rows') /\ DOMAIN rows \subseteq DOMAIN rows'
    BY <1>3
  <2> QED BY <1>1, <1>2, <2>1 DEF CursorsOf
<1>5. Follows(rows', Now.name, cursor, passed) /\ Accounted(rows', Now.name, cursor, passed)
  BY <1>1, <1>2, RowKeepsFollowing DEF IInv
<1>6. Now' = Now /\ TailOf(history, chain)'
  BY <1>1 DEF Now, IInv
<1>7. TypeOK'
  BY <1>1, <1>2, <1>3, <1>4 DEF TypeOK, Rows, CursorsOf
<1> QED BY <1>1, <1>5, <1>6, <1>7 DEF IInv

LEMMA CommitKeepsIInv ==
  ASSUME IInv, NEW e \in Entries, Commit(e)
  PROVE  IInv'
<1>1. /\ commits' = Append(commits, e)
      /\ UNCHANGED <<chain, rows, history, cursor, passed, lastSha,
                     catching, saved, faults>>
  BY DEF Commit
<1>2. TypeOK /\ commits \in Seq(Entries) /\ lastSha \in 0..Len(commits)
  BY TypeIs DEF IInv
<1>3. /\ Len(commits) \in Nat /\ commits' \in Seq(Entries) /\ commits' # <<>>
      /\ Len(commits') = Len(commits) + 1
  BY <1>1, <1>2, LenNat, AppendIs
<1>4. lastSha' \in 0..Len(commits')
  BY <1>1, <1>2, <1>3
<1>5. Good(commits) \subseteq Good(commits')
  BY <1>1, <1>2, CommitKeepsRanks DEF Good
<1>6. history' \in Seq(Good(commits')) /\ saved' \in Good(commits')
  <2>1. history \in Seq(Good(commits)) /\ saved \in Good(commits)
    BY DEF IInv
  <2> QED BY <1>1, <1>5, <2>1
<1>7. TypeOK'
  BY <1>1, <1>2, <1>3, <1>4 DEF TypeOK
<1>8. Now' = Now /\ TailOf(history, chain)'
  BY <1>1 DEF Now, IInv
<1> QED BY <1>1, <1>6, <1>7, <1>8 DEF IInv

LEMMA PassKeepsIInv ==
  ASSUME IInv, RegistryPass
  PROVE  IInv'
<1> DEFINE s == [Now EXCEPT
                   !.decimals = [x \in Tokens |-> AddDecimals(@[x], Registry[x].d)],
                   !.tickers = [x \in Tokens |-> OwnFirst(Registry[x].t, @[x])]]
<1>1. /\ history' = Front(history) \o <<s>> /\ lastSha' = Len(commits)
      /\ UNCHANGED <<chain, rows, commits, cursor, passed, catching, saved, faults>>
  BY DEF RegistryPass
<1>2. TypeOK /\ commits \in Seq(Entries) /\ commits # <<>> /\ TailOf(history, chain)
  BY TypeIs DEF IInv
<1>3. /\ history \in Seq(Good(commits)) /\ history # <<>> /\ Len(history) \in 1..MaxHistory
      /\ Now \in Snapshots /\ Outranks(Now, commits)
  BY <1>2, InvIs, TypeIs
<1>4. s \in Snapshots /\ s.hash = Now.hash /\ s.name = Now.name /\ Outranks(s, commits)
  BY <1>2, <1>3, PassKeepsRanks
<1> HIDE DEF s
<1>5. s \in Good(commits)
  BY <1>4 DEF Good
<1>6. history' \in Seq(Good(commits)) /\ Len(history') = Len(history) /\ Last(history') = s
  BY <1>1, <1>3, <1>5, ReplaceLast
<1>7. TailOf(history', chain)
  BY <1>1, <1>2, <1>3, <1>4, <1>5, ReplaceKeepsTail DEF Now
<1>8. Now'.name = Now.name
  BY <1>4, <1>6 DEF Now
<1>9. TypeOK'
  <2>1. history' \in Seq(Snapshots)
    BY <1>6 DEF Good
  <2>2. Len(commits) \in Nat /\ lastSha' \in 0..Len(commits)
    BY <1>1, <1>2, LenNat
  <2> QED BY <1>1, <1>2, <1>3, <1>6, <2>1, <2>2 DEF TypeOK
<1>10. Follows(rows, Now.name, cursor, passed)' /\ Accounted(rows, Now.name, cursor, passed)'
  BY <1>1, <1>8 DEF IInv, Follows, Accounted
<1> QED BY <1>1, <1>6, <1>7, <1>9, <1>10 DEF IInv

\* The snapshot to save is one of those in the history.
LEMMA ToSaveIn ==
  ASSUME NEW S, NEW h \in Seq(S), h # <<>>
  PROVE  ToSave(h) \in S
<1> DEFINE T == {1, Len(h) + 1 - Depth}
<1>1. Len(h) \in Nat /\ Len(h) # 0 /\ Depth \in Nat \ {0}
  BY LenNat, ConstantsAre
<1>2. T \in SUBSET Int
  BY <1>1
<1>3. /\ Len(h) + 1 - Depth <= Len(h) /\ 1 <= Len(h)
      /\ \A x \in T : x <= Len(h)
  BY <1>1
<1>4. Max(T) \in T /\ \A x \in T : Max(T) >= x
  <2>1. \E m \in T : \A x \in T : m >= x
    <3>1. CASE Len(h) + 1 - Depth >= 1
      BY <1>1, <3>1
    <3>2. CASE ~(Len(h) + 1 - Depth >= 1)
      BY <1>1, <3>2
    <3> QED BY <3>1, <3>2
  <2> HIDE DEF T
  <2> QED BY <2>1 DEF Max
<1>5. Max(T) \in Int /\ Max(T) >= 1 /\ Max(T) <= Len(h)
  BY <1>1, <1>2, <1>3, <1>4
<1> HIDE DEF T
<1>6. Max(T) \in 1..Len(h)
  BY <1>1, <1>5
<1>7. h[Max(T)] \in S
  BY <1>6
<1> QED BY <1>7 DEF ToSave, T

LEMMA ApplyKeepsIInv ==
  ASSUME IInv, NEW b \in Blocks, Apply(b)
  PROVE  IInv'
<1> DEFINE snap == AfterBlock(Now, b)
           h == Trim(Append(history, snap))
<1>1. /\ Len(chain) < MaxBlocks /\ chain' = Append(chain, b)
      /\ UNCHANGED <<rows, commits, lastSha, faults>>
  BY DEF Apply
<1>2. PICK groups \in SUBSET Due, ends \in BOOLEAN :
        /\ saved' = IF Saves(Len(snap.hash), ends) THEN ToSave(h) ELSE saved
        /\ history' = Front(h) \o <<Refreshed(snap, groups)>>
        /\ cursor' = CursorsAfter(groups)
        /\ passed' = SkippedAfter(snap, groups, passed)
        /\ catching' = (catching /\ ~ends)
  <2>1. PICK ends \in IF catching THEN BOOLEAN ELSE {FALSE},
             groups \in SUBSET (IF catching THEN {} ELSE Due) :
          /\ saved' = IF Saves(Len(snap.hash), ends) THEN ToSave(h) ELSE saved
          /\ history' = Front(h) \o <<Refreshed(snap, groups)>>
          /\ cursor' = [pool |-> IF Pools \in groups THEN MaxId(Pools) ELSE cursor.pool,
                        drep |-> IF DReps \in groups THEN MaxId(DReps) ELSE cursor.drep]
          /\ passed' = passed \cup {i \in Strangers(snap) : rows[i].subject \in UNION groups}
          /\ catching' = (catching /\ ~ends)
    BY Zenon DEF Apply
  <2>2. groups \in SUBSET Due /\ ends \in BOOLEAN
    BY <2>1
  <2> HIDE DEF snap, h
  <2>3. cursor' = CursorsAfter(groups) /\ passed' = SkippedAfter(snap, groups, passed)
    BY <2>1 DEF CursorsAfter, SkippedAfter
  <2> QED BY <2>1, <2>2, <2>3, Zenon
<1>3. /\ TypeOK /\ rows \in Seq(Rows) /\ cursor \in CursorsOf(rows) /\ passed \subseteq DOMAIN rows
      /\ chain \in Seq(Blocks) /\ TailOf(history, chain) /\ saved \in Good(commits)
  BY TypeIs DEF IInv
<1>4. /\ history \in Seq(Good(commits)) /\ history # <<>> /\ Len(history) \in Nat
      /\ Len(history) <= MaxHistory /\ Now \in Snapshots /\ Outranks(Now, commits)
      /\ Now.hash = chain
  BY InvIs
<1>5. /\ snap \in Snapshots /\ snap.hash = Append(chain, b)
      /\ DOMAIN Now.name \subseteq DOMAIN snap.name
      /\ \A x \in DOMAIN Now.name : snap.name[x] = Now.name[x]
      /\ snap \in Good(commits)
  BY <1>4, BlockKeepsRanks DEF Good
<1>6. Follows(rows, snap.name, cursor, passed) /\ Accounted(rows, snap.name, cursor, passed)
  BY <1>3, <1>5, ComingKeepsFollowing DEF IInv
<1>7. groups \in SUBSET {Pools, DReps}
  BY <1>2 DEF Due
<1> HIDE DEF snap, h
<1> DEFINE r == Refreshed(snap, groups)
<1>8. /\ r \in Snapshots /\ r.hash = Append(chain, b)
      /\ r.decimals = snap.decimals /\ r.tickers = snap.tickers
      /\ cursor' \in CursorsOf(rows)
      /\ Follows(rows, r.name, cursor', passed') /\ Accounted(rows, r.name, cursor', passed')
  BY <1>2, <1>3, <1>5, <1>6, <1>7, RefreshKeeps
<1> HIDE DEF r
<1>9. r \in Good(commits)
  BY <1>5, <1>8 DEF Good, Outranks, Ranks
<1>10. /\ Append(history, snap) \in Seq(Good(commits)) /\ Append(history, snap) # <<>>
       /\ Len(Append(history, snap)) <= MaxHistory + 1
       /\ Last(Append(history, snap)) = snap
  <2>1. MaxHistory \in Nat
    BY ConstantsAre
  <2>2. /\ Append(history, snap) \in Seq(Good(commits))
        /\ Len(Append(history, snap)) = Len(history) + 1
        /\ Append(history, snap)[Len(history) + 1] = snap
    BY <1>4, <1>5, AppendIs
  <2>3. Append(history, snap) # <<>>
    BY <1>4, <2>2
  <2> QED BY <1>4, <2>1, <2>2, <2>3 DEF Last
<1>11. chain' \in Seq(Blocks) /\ TailOf(Append(history, snap), chain')
  BY <1>1, <1>3, <1>4, <1>5, AppendKeepsTail
<1>12. /\ h \in Seq(Good(commits)) /\ h # <<>> /\ Len(h) <= MaxHistory
       /\ TailOf(h, chain') /\ Last(h) = snap
  BY <1>10, <1>11, TrimKeepsTail DEF h
<1>13. /\ history' \in Seq(Good(commits)) /\ Len(history') = Len(h) /\ Last(history') = r
       /\ history' # <<>>
  BY <1>2, <1>9, <1>12, ReplaceLast DEF r
<1>14. TailOf(history', chain')
  BY <1>2, <1>5, <1>8, <1>9, <1>12, ReplaceKeepsTail DEF r
<1>15. saved' \in Good(commits)
  BY <1>2, <1>3, <1>12, ToSaveIn
<1>16. Len(history') \in 1..MaxHistory
  <2>1. Len(history') \in Nat /\ Len(history') # 0 /\ Len(history') <= MaxHistory
    BY <1>12, <1>13, LenNat
  <2> QED BY <2>1, ConstantsAre
<1>17. passed' \subseteq DOMAIN rows
  BY <1>2, <1>3 DEF SkippedAfter, Strangers
<1>18. TypeOK'
  <2>1. Len(chain') <= MaxBlocks
    BY <1>1, <1>3, AppendIs, LenNat, MetadataAssumption
  <2>2. history' \in Seq(Snapshots) /\ saved' \in Snapshots
    BY <1>13, <1>15 DEF Good
  <2>3. /\ commits \in Seq(Entries) /\ commits # <<>> /\ lastSha \in 0..Len(commits)
        /\ faults \in 0..MaxFaults /\ catching' \in BOOLEAN
    BY <1>2, <1>3, TypeIs
  <2>4. cursor' \in [pool : 0..Len(rows), drep : 0..Len(rows)]
    BY <1>8 DEF CursorsOf
  <2>5. rows \in Seq([subject : Subjects, name : Names])
    BY <1>3 DEF Rows
  <2> QED BY <1>1, <1>11, <1>16, <1>17, <2>1, <2>2, <2>3, <2>4, <2>5 DEF TypeOK
<1>19. Now' = r
  BY <1>13 DEF Now
<1> QED BY <1>1, <1>8, <1>13, <1>14, <1>15, <1>18, <1>19 DEF IInv

LEMMA RollBackKeepsIInv ==
  ASSUME IInv, NEW n \in 0..MaxBlocks, RollBack(n)
  PROVE  IInv'
<1> DEFINE g == Sift(history, {s \in ToSet(history) : Len(s.hash) <= n})
<1>1. /\ faults < MaxFaults /\ n < Len(chain) /\ faults' = faults + 1
      /\ chain' = SubSeq(chain, 1, n) /\ history' = g
      /\ cursor' = FromStart /\ passed' = {}
      /\ UNCHANGED <<rows, commits, lastSha, catching, saved>>
  BY DEF RollBack, RolledCursors
<1>2. PICK at \in DOMAIN history : Len(history[at].hash) = n
  BY DEF RollBack
<1>3. /\ TypeOK /\ rows \in Seq(Rows) /\ chain \in Seq(Blocks) /\ Len(chain) <= MaxBlocks
      /\ TailOf(history, chain) /\ saved \in Good(commits) /\ faults \in 0..MaxFaults
  BY TypeIs DEF IInv
<1>4. /\ history \in Seq(Good(commits)) /\ Len(history) \in Nat /\ Len(history) <= MaxHistory
  BY InvIs
<1>5. n \in Nat /\ MaxBlocks \in Nat /\ MaxFaults \in Nat /\ MaxHistory \in Nat
  BY MetadataAssumption
<1>6. /\ g \in Seq(Good(commits)) /\ g # <<>> /\ Len(g) <= Len(history)
      /\ TailOf(g, SubSeq(chain, 1, n))
  BY <1>1, <1>2, <1>3, <1>4, <1>5, CutKeepsTail
<1> HIDE DEF g
<1>7. chain' \in Seq(Blocks) /\ Len(chain') <= MaxBlocks
  <2>1. n \in 0..Len(chain)
    BY <1>1, <1>3, <1>5, LenNat
  <2>2. SubSeq(chain, 1, n) \in Seq(Blocks) /\ Len(SubSeq(chain, 1, n)) = n
    BY <1>3, <2>1, PrefixStep
  <2> QED BY <1>1, <1>5, <2>2
<1>8. Len(g) \in 1..MaxHistory
  <2>1. Len(g) \in Nat /\ Len(g) # 0
    BY <1>6, LenNat
  <2> QED BY <1>4, <1>5, <1>6, <2>1
<1>9. faults' \in 0..MaxFaults
  BY <1>1, <1>3, <1>5
<1>10. FromStart \in CursorsOf(rows)
  <2>1. 0 \in 0..Len(rows)
    BY <1>3, LenNat
  <2> QED BY <2>1 DEF FromStart, CursorsOf
<1>11. TypeOK'
  <2>1. g \in Seq(Snapshots)
    BY <1>6 DEF Good
  <2> QED BY <1>1, <1>3, <1>7, <1>8, <1>9, <1>10, <2>1 DEF TypeOK, CursorsOf
<1>12. Follows(rows, Now'.name, FromStart, {}) /\ Accounted(rows, Now'.name, FromStart, {})
  BY <1>3, StartFollows
<1> QED BY <1>1, <1>3, <1>6, <1>11, <1>12 DEF IInv

\* The queries for the cursors, and after a step.
LEMMA CursorsNow ==
  rows \in Seq(Rows) => MaxId(Pools) \in 0..Len(rows) /\ MaxId(DReps) \in 0..Len(rows)
BY QueriesAre

LEMMA CursorsNext ==
  (rows \in Seq(Rows) => MaxId(Pools) \in 0..Len(rows) /\ MaxId(DReps) \in 0..Len(rows))'
BY CursorsNow, PTL

\* The names come from a query before the cursors, so that a row that comes in
\* between is behind the cursors, and passed over.
LEMMA ResetKeepsIInv ==
  ASSUME IInv, NEW n \in 0..MaxBlocks, Reset(n)
  PROVE  IInv'
<1> DEFINE c == SubSeq(chain, 1, n)
           s == Rebuilt(c)
<1>1. /\ faults < MaxFaults /\ n < Len(chain) /\ faults' = faults + 1
      /\ chain' = c /\ history' = <<s>> /\ saved' = s
      /\ cursor' = Cursors'
      /\ UNCHANGED <<commits, lastSha, catching>>
  BY DEF Reset
<1>2. PICK late \in {<<>>} \cup {<<[subject |-> x, name |-> m]>> : x \in Subjects, m \in Names} :
        /\ rows' = rows \o late
        /\ passed' = Strangers(s) \cup (DOMAIN rows' \ DOMAIN rows)
  BY SMTT(30) DEF Reset
<1>3. /\ TypeOK /\ rows \in Seq(Rows) /\ chain \in Seq(Blocks) /\ Len(chain) <= MaxBlocks
      /\ commits \in Seq(Entries) /\ commits # <<>> /\ faults \in 0..MaxFaults
  BY TypeIs DEF IInv
<1>4. n \in Nat /\ MaxBlocks \in Nat /\ MaxFaults \in Nat
  BY MetadataAssumption
<1>5. c \in Seq(Blocks) /\ Len(c) <= MaxBlocks
  <2>1. n \in 0..Len(chain)
    BY <1>1, <1>3, <1>4, LenNat
  <2>2. c \in Seq(Blocks) /\ Len(c) = n
    BY <1>3, <2>1, PrefixStep
  <2> QED BY <1>4, <2>2
<1> HIDE DEF c
<1>6. /\ s \in Good(commits) /\ s.hash = c
      /\ \A x \in DOMAIN s.name : s.name[x] = NewName(x, 0)
  BY <1>3, <1>5, RebuiltIs
<1>7. late \in Seq(Rows)
  <2>1. \A x \in Subjects, m \in Names : <<[subject |-> x, name |-> m]>> \in Seq(Rows)
    BY DEF Rows
  <2>2. CASE late = <<>>
    BY <2>2
  <2>3. CASE late \in {<<[subject |-> x, name |-> m]>> : x \in Subjects, m \in Names}
    <3>1. PICK x \in Subjects, m \in Names : late = <<[subject |-> x, name |-> m]>>
      BY <2>3
    <3> QED BY <2>1, <3>1
  <2> QED BY <1>2, <2>2, <2>3
<1>8. /\ rows' \in Seq(Rows) /\ Len(rows) \in Nat /\ Len(rows') \in Nat
      /\ DOMAIN rows = 1..Len(rows) /\ DOMAIN rows' = 1..Len(rows')
      /\ Len(rows) <= Len(rows')
      /\ \A i \in DOMAIN rows : i \in DOMAIN rows' /\ rows'[i] = rows[i]
  <2> HIDE DEF s
  <2>1. rows' \in Seq(Rows) /\ Len(rows) \in Nat /\ Len(rows') \in Nat
    BY <1>2, <1>3, <1>7
  <2>2. DOMAIN rows = 1..Len(rows) /\ DOMAIN rows' = 1..Len(rows')
    BY <1>3, <2>1
  <2>3. Len(rows) <= Len(rows')
    BY <1>2, <1>3, <1>7
  <2>4. \A i \in 1..Len(rows) : rows'[i] = rows[i]
    BY <1>2, <1>3, <1>7
  <2> QED BY <2>1, <2>2, <2>3, <2>4
<1> HIDE DEF s
<1>9. /\ history' \in Seq(Good(commits)) /\ Len(history') \in 1..MaxHistory
      /\ Last(history') = s /\ TailOf(history', c)
  BY <1>1, <1>5, <1>6, SingleIs
<1>10. /\ Cursors' \in CursorsOf(rows')
       /\ passed' \subseteq DOMAIN rows'
  <2>1. MaxId(Pools)' \in 0..Len(rows') /\ MaxId(DReps)' \in 0..Len(rows')
    BY <1>8, CursorsNext
  <2>2. Cursors' \in CursorsOf(rows')
    BY <2>1 DEF Cursors, CursorsOf
  <2>3. Strangers(s) \subseteq DOMAIN rows
    BY DEF Strangers
  <2> QED BY <1>2, <1>8, <2>2, <2>3
<1>11. Follows(rows', s.name, cursor', passed')
  <2> SUFFICES ASSUME NEW x \in DOMAIN s.name, IdsOf(rows', x) # {},
                      Max(IdsOf(rows', x)) \notin passed'
               PROVE  s.name[x] = rows'[Max(IdsOf(rows', x))].name
    BY DEF Follows
  <2> DEFINE m == Max(IdsOf(rows', x))
  <2>1. m \in IdsOf(rows', x) /\ \A i \in IdsOf(rows', x) : m >= i
    BY <1>8, IdsAre
  <2>2. m \in DOMAIN rows /\ m \in Nat /\ m > 0
    <3>1. m \in DOMAIN rows' /\ m \notin passed'
      BY <2>1 DEF IdsOf
    <3> HIDE DEF m
    <3>2. m \in DOMAIN rows
      BY <1>2, <3>1
    <3> QED BY <1>8, <3>2
  <2>3. m \in IdsOf(rows, x)
    BY <1>8, <2>1, <2>2 DEF IdsOf
  <2>4. \A i \in IdsOf(rows, x) : i \in IdsOf(rows', x)
    BY <1>8 DEF IdsOf
  <2> HIDE DEF m
  <2>5. Max(IdsOf(rows, x)) = m
    <3>1. /\ Max(IdsOf(rows, x)) \in IdsOf(rows, x)
          /\ \A i \in IdsOf(rows, x) : Max(IdsOf(rows, x)) >= i
          /\ Max(IdsOf(rows, x)) \in 1..Len(rows)
      BY <1>3, <2>3, IdsAre
    <3>2. Max(IdsOf(rows, x)) >= m /\ m >= Max(IdsOf(rows, x))
      BY <2>1, <2>3, <2>4, <3>1
    <3> QED BY <1>8, <2>2, <3>1, <3>2
  <2>6. NewName(x, 0) = rows[m].name
    BY <1>3, <2>2, <2>3, <2>5, NewNameIs
  <2> QED BY <1>6, <1>8, <2>2, <2>6 DEF m
<1>12. Accounted(rows', s.name, cursor', passed')
  <2> SUFFICES ASSUME NEW i \in DOMAIN rows', rows'[i].subject \notin DOMAIN s.name
               PROVE  i \in passed'
    BY DEF Accounted
  <2>1. CASE i \in DOMAIN rows
    BY <1>2, <1>8, <2>1 DEF Strangers
  <2>2. CASE i \notin DOMAIN rows
    BY <1>2, <2>2
  <2> QED BY <2>1, <2>2
<1>13. TypeOK'
  <2>1. s \in Snapshots /\ history' \in Seq(Snapshots)
    BY <1>6, <1>9 DEF Good
  <2>2. faults' \in 0..MaxFaults
    BY <1>1, <1>3, <1>4
  <2>3. cursor' \in [pool : 0..Len(rows'), drep : 0..Len(rows')]
    BY <1>1, <1>10 DEF CursorsOf
  <2>4. rows' \in Seq([subject : Subjects, name : Names])
    BY <1>8 DEF Rows
  <2>5. lastSha \in 0..Len(commits) /\ catching \in BOOLEAN
    BY <1>3, TypeIs
  <2> QED BY <1>1, <1>3, <1>5, <1>9, <1>10, <2>1, <2>2, <2>3, <2>4, <2>5 DEF TypeOK
<1>14. Now' = s
  BY <1>9 DEF Now
<1> QED BY <1>1, <1>6, <1>9, <1>11, <1>12, <1>13, <1>14 DEF IInv

LEMMA RestartKeepsIInv ==
  ASSUME IInv, Restart
  PROVE  IInv'
<1>1. /\ faults < MaxFaults /\ faults' = faults + 1
      /\ IsPrefix(saved.hash, chain)
      /\ history' = <<saved>> /\ chain' = saved.hash
      /\ cursor' = FromStart /\ passed' = {} /\ lastSha' = 0 /\ catching' \in BOOLEAN
      /\ UNCHANGED <<rows, commits, saved>>
  BY DEF Restart
<1>2. /\ TypeOK /\ rows \in Seq(Rows) /\ chain \in Seq(Blocks) /\ Len(chain) <= MaxBlocks
      /\ commits \in Seq(Entries) /\ commits # <<>> /\ faults \in 0..MaxFaults
      /\ saved \in Good(commits)
  BY TypeIs DEF IInv
<1>3. saved \in Snapshots /\ saved.hash \in Seq(Blocks)
  BY <1>2 DEF Good, Snapshots
<1>4. MaxBlocks \in Nat /\ MaxFaults \in Nat
  BY MetadataAssumption
<1>5. chain' \in Seq(Blocks) /\ Len(chain') <= MaxBlocks
  <2>1. Len(saved.hash) <= Len(chain)
    BY <1>1 DEF IsPrefix
  <2>2. Len(saved.hash) \in Nat /\ Len(chain) \in Nat
    BY <1>2, <1>3, LenNat
  <2> QED BY <1>1, <1>2, <1>3, <1>4, <2>1, <2>2
<1>6. /\ history' \in Seq(Good(commits)) /\ Len(history') \in 1..MaxHistory
      /\ Last(history') = saved /\ TailOf(history', chain')
  BY <1>1, <1>2, <1>3, SingleIs
<1>7. FromStart \in CursorsOf(rows)
  <2>1. 0 \in 0..Len(rows)
    BY <1>2, LenNat
  <2> QED BY <2>1 DEF FromStart, CursorsOf
<1>8. TypeOK'
  <2>1. history' \in Seq(Snapshots)
    BY <1>6 DEF Good
  <2>2. faults' \in 0..MaxFaults /\ lastSha' \in 0..Len(commits)
    BY <1>1, <1>2, <1>4, LenNat
  <2> QED BY <1>1, <1>2, <1>3, <1>5, <1>6, <1>7, <2>1, <2>2 DEF TypeOK, CursorsOf, Rows
<1>9. Follows(rows, Now'.name, FromStart, {}) /\ Accounted(rows, Now'.name, FromStart, {})
  BY <1>2, StartFollows
<1> QED BY <1>1, <1>2, <1>6, <1>8, <1>9 DEF IInv

LEMMA NextKeepsIInv ==
  ASSUME IInv, [Next]_vars
  PROVE  IInv'
<1>1. ASSUME NEW s \in Subjects, NEW m \in Names, AddRow([subject |-> s, name |-> m])
      PROVE  IInv'
  <2>1. [subject |-> s, name |-> m] \in Rows
    BY DEF Rows
  <2> QED BY <1>1, <2>1, AddRowKeepsIInv
<1>2. ASSUME NEW e \in Entries, Commit(e) PROVE IInv'
  BY <1>2, CommitKeepsIInv
<1>3. ASSUME NEW b \in Blocks, Apply(b) PROVE IInv'
  BY <1>3, ApplyKeepsIInv
<1>4. ASSUME NEW n \in 0..MaxBlocks, RollBack(n) PROVE IInv'
  BY <1>4, RollBackKeepsIInv
<1>5. ASSUME NEW n \in 0..MaxBlocks, Reset(n) PROVE IInv'
  BY <1>5, ResetKeepsIInv
<1>6. CASE Restart
  BY <1>6, RestartKeepsIInv
<1>7. CASE RegistryPass
  BY <1>7, PassKeepsIInv
<1>8. CASE UNCHANGED vars
  BY <1>8 DEF vars, IInv, TypeOK, Now, CursorsOf
<1> QED BY <1>1, <1>2, <1>3, <1>4, <1>5, <1>6, <1>7, <1>8 DEF Next

THEOREM Invariance == Spec => []IInv
<1>1. IInv /\ [Next]_vars => IInv'
  BY NextKeepsIInv
<1> QED BY <1>1, InitIInv, PTL DEF Spec

-----------------------------------------------------------------------------
(* What it amounts to *)

LEMMA IInvNames == IInv => NamesFollowDbSync
<1> SUFFICES ASSUME IInv PROVE NamesFollowDbSync
  OBVIOUS
<1>1. TypeOK /\ rows \in Seq(Rows) /\ Follows(rows, Now.name, cursor, passed)
  BY TypeIs DEF IInv
<1>2. \A s : Ids({s}) = IdsOf(rows, s)
  BY <1>1, QueriesAre
<1> QED BY <1>1, <1>2 DEF NamesFollowDbSync, Follows, Reach

LEMMA IInvDatums == IInv => DatumsOutrankRegistry
<1> SUFFICES ASSUME IInv PROVE DatumsOutrankRegistry
  OBVIOUS
<1>1. Outranks(Now, commits) /\ Now.hash = chain
  BY InvIs
<1> QED BY <1>1 DEF DatumsOutrankRegistry, Outranks, Ranks, Listed

\* What the server has read of db-sync it shows: for any pools and DReps, history
\* bound and saved depth, a pool or DRep in the newest snapshot has the newest
\* name that its cursor is past, unless that row was passed over, through every
\* block, rollback, rebuild and restart (handle_apply, handle_reset).
THEOREM NamesStayRead == Spec => []NamesFollowDbSync
BY Invariance, IInvNames, PTL

\* A token's own datum is never outranked: whatever commits the registry gets and
\* whenever its task passes, the newest snapshot has the decimals that the datum
\* at the reference token declares, and its ticker or one that some commit
\* listed, also after a rollback or restart to an older snapshot (extract_from_tx,
\* State::reset, cip26_refresh_task).
THEOREM DatumsStayOnTop == Spec => []DatumsOutrankRegistry
BY Invariance, IInvDatums, PTL
=============================================================================
