---------------------------- MODULE Resume_proofs ----------------------------
(***************************************************************************)
(* The three safety properties of Resume, for every chain, every set of    *)
(* forks and faults, and every depth, window and capacity.                 *)
(*                                                                         *)
(* IInv follows the path of the source: breadcrumbs are End and the blocks *)
(* before it one by one, the port leads from where the sink is to End, and *)
(* the history ends where the port begins.  A rollback is to a block of    *)
(* the path, so what is cut off is what is above it.  What a save takes is *)
(* Depth back from the end of the history, or the first of a history that  *)
(* is shorter: FilePart says that what is Depth back from a block the sink *)
(* reaches is before every later one and stays on chain, as long as no     *)
(* fork is marked.                                                         *)
(***************************************************************************)
EXTENDS Resume, SequenceLemmas, SequenceTheorems

\* What a point's hash stands for.
Block == Seq(Labels)

-----------------------------------------------------------------------------
(* Blocks and what they extend *)

\* A prefix is a shorter sequence with the same elements.
LEMMA PrefixIs ==
  ASSUME NEW s \in Block, NEW t \in Block
  PROVE  IsPrefix(s, t) <=> /\ Len(s) <= Len(t)
                            /\ \A i \in 1..Len(s) : s[i] = t[i]
<1>1. ASSUME Len(s) <= Len(t), SubSeq(s, 1, Len(s)) = SubSeq(t, 1, Len(s)),
             NEW i \in 1..Len(s)
      PROVE  s[i] = t[i]
  <2>1. SubSeq(s, 1, Len(s))[i] = s[i] /\ SubSeq(t, 1, Len(s))[i] = t[i]
    BY <1>1 DEF Block
  <2> QED BY <1>1, <2>1
<1>2. ASSUME Len(s) <= Len(t), \A i \in 1..Len(s) : s[i] = t[i]
      PROVE  SubSeq(s, 1, Len(s)) = SubSeq(t, 1, Len(s))
  BY <1>2 DEF Block
<1> QED BY <1>1, <1>2 DEF IsPrefix

\* Prefixes are an order, linear below a block.
LEMMA PrefixOrder ==
  ASSUME NEW s \in Block, NEW t \in Block, NEW u \in Block
  PROVE  /\ Len(s) \in Nat
         /\ IsPrefix(s, s) /\ IsPrefix(<<>>, s)
         /\ IsPrefix(s, t) => Len(s) <= Len(t)
         /\ IsPrefix(s, t) /\ IsPrefix(t, u) => IsPrefix(s, u)
         /\ IsPrefix(s, u) /\ IsPrefix(t, u) /\ Len(s) <= Len(t) => IsPrefix(s, t)
         /\ IsPrefix(s, t) /\ Len(t) <= Len(s) => s = t
<1>1. <<>> \in Block /\ Len(<<>>) = 0
  BY DEF Block
<1>2. Len(s) \in Nat /\ Len(t) \in Nat /\ Len(u) \in Nat
  BY DEF Block
<1>3. ASSUME IsPrefix(s, t), Len(t) <= Len(s) PROVE s = t
  <2>1. Len(s) = Len(t) /\ \A i \in 1..Len(s) : s[i] = t[i]
    BY <1>2, <1>3, PrefixIs
  <2> QED BY <2>1, SeqEqual DEF Block
<1>4. IsPrefix(s, s) /\ IsPrefix(<<>>, s) /\ (IsPrefix(s, t) => Len(s) <= Len(t))
  BY <1>1, <1>2, PrefixIs
<1>5. IsPrefix(s, t) /\ IsPrefix(t, u) => IsPrefix(s, u)
  BY <1>2, PrefixIs
<1>6. IsPrefix(s, u) /\ IsPrefix(t, u) /\ Len(s) <= Len(t) => IsPrefix(s, t)
  BY <1>2, PrefixIs
<1> QED BY <1>2, <1>3, <1>4, <1>5, <1>6

\* The first n labels of a block.
LEMMA FirstOf ==
  ASSUME NEW s \in Block, NEW n \in Int, n <= Len(s)
  PROVE  /\ SubSeq(s, 1, n) \in Block
         /\ IsPrefix(SubSeq(s, 1, n), s)
         /\ Len(SubSeq(s, 1, n)) = IF n < 0 THEN 0 ELSE n
         /\ \A t \in Block : IsPrefix(t, s) /\ Len(t) <= n => IsPrefix(t, SubSeq(s, 1, n))
<1> DEFINE p == SubSeq(s, 1, n)
<1>0. Len(s) \in Nat /\ \A i \in 1..Len(s) : s[i] \in Labels
  BY DEF Block
<1>1. p \in Block /\ Len(p) = (IF n < 0 THEN 0 ELSE n) /\ \A i \in 1..Len(p) : p[i] = s[i]
  <2>1. \A i \in 1..n : s[i] \in Labels
    BY <1>0
  <2> QED BY <2>1, SubSeqProperties, Z3 DEF Block
<1> HIDE DEF p
<1>2. IsPrefix(p, s)
  BY <1>0, <1>1, PrefixIs
<1>3. ASSUME NEW t \in Block, IsPrefix(t, s), Len(t) <= n
      PROVE  IsPrefix(t, p)
  <2>1. Len(t) \in Nat
    BY <1>3 DEF Block
  <2> QED BY <1>0, <1>1, <1>2, <1>3, <2>1, PrefixOrder
<1> QED BY <1>1, <1>2, <1>3 DEF p

\* A block is a prefix of what continues it.
LEMMA Continued ==
  ASSUME NEW s \in Block, NEW t \in Block
  PROVE  s \o t \in Block /\ Len(s \o t) = Len(s) + Len(t) /\ IsPrefix(s, s \o t)
<1> DEFINE c == s \o t
<1>1. c \in Block /\ Len(c) = Len(s) + Len(t)
      /\ \A i \in 1..(Len(s) + Len(t)) : c[i] = IF i <= Len(s) THEN s[i] ELSE t[i - Len(s)]
  BY ConcatProperties DEF Block
<1>2. Len(s) \in Nat /\ Len(t) \in Nat
  BY DEF Block
<1> HIDE DEF c
<1>3. IsPrefix(s, c)
  BY <1>1, <1>2, PrefixIs
<1> QED BY <1>1, <1>3 DEF c

\* One block more.
LEMMA OneMore ==
  ASSUME NEW s \in Block, NEW l \in Labels
  PROVE  Append(s, l) \in Block /\ Len(Append(s, l)) = Len(s) + 1 /\ IsPrefix(s, Append(s, l))
<1> DEFINE c == Append(s, l)
<1>1. c \in Block /\ Len(c) = Len(s) + 1 /\ \A i \in 1..Len(s) : c[i] = s[i]
  BY AppendProperties DEF Block
<1>2. Len(s) \in Nat
  BY DEF Block
<1> HIDE DEF c
<1>3. IsPrefix(s, c)
  BY <1>1, <1>2, PrefixIs
<1> QED BY <1>1, <1>3 DEF c

-----------------------------------------------------------------------------
(* The invariant *)

\* The hash that goes with a slot is never of a later block.
Sound == {p \in Point : Len(p.hash) <= p.slot}

Event == [kind : {"Apply", "Reset"}, block : Block]

Job == [at : Sound, mixed : BOOLEAN]

Typed ==
  /\ chain \in Block /\ Len(chain) > Window /\ pos \in Block
  /\ phase \in {"down", "connecting", "up"} /\ told \in BOOLEAN
  /\ point \in Sound
  /\ crumbs \in Seq(Sound) /\ Len(crumbs) <= MaxCrumbs
  /\ port \in Seq(Event) /\ Len(port) <= PortSize
  /\ history \in Seq(Sound) /\ Len(history) <= MaxHistory
  /\ file \in Seq(Sound) /\ Len(file) <= 1
  /\ job \in Seq(Job) /\ Len(job) <= 1
  /\ marks \subseteq {"deep", "empty", "astray"}
  /\ phase = "down" => crumbs = <<>> /\ port = <<>> /\ history = <<>> /\ job = <<>>

\* The last block the source has sent.
End == crumbs[1].hash

\* The breadcrumbs are End and the blocks before it, one by one; the node has
\* the client at End, or further back on it until it says so.
CrumbPart ==
  /\ \A i \in DOMAIN crumbs :
       /\ crumbs[i].slot = Len(crumbs[i].hash)
       /\ crumbs[i].slot = crumbs[1].slot - i + 1
       /\ IsPrefix(crumbs[i].hash, End)
  /\ phase = "up" => IsPrefix(pos, chain)
  /\ phase = "up" /\ crumbs # <<>> => IsPrefix(pos, End)
  /\ phase = "up" /\ told => crumbs # <<>> /\ pos = End

\* The event connects to the block before it.
Follows(block, event) ==
  IF event.kind = "Apply"
  THEN IsPrefix(block, event.block) /\ Len(event.block) = Len(block) + 1
  ELSE IsPrefix(event.block, block)

\* The port holds a path to End.
PortPart ==
  /\ port # <<>> => crumbs # <<>> /\ port[Len(port)].block = End
  /\ \A j \in 1..(Len(port) - 1) : Follows(port[j].block, port[j + 1])

\* Nothing has been sent yet.
StartPart ==
  crumbs = <<>> /\ phase # "down" =>
    /\ history = <<>> \/ history = <<point>>
    /\ phase = "up" => IsPrefix(pos, point.hash)

\* Where the sink goes next.
Here == IF port # <<>> THEN port[1].block ELSE End

\* A history has a snapshot per slot, and only the first may be of an older
\* block.
Gapless(h) ==
  \A i \in DOMAIN h : /\ h[i].slot = h[1].slot + i - 1
                      /\ i > 1 => h[i].slot = Len(h[i].hash)

\* What a history h has up to a block are blocks before it.
Below(h, block, except) ==
  \A i \in DOMAIN h :
    (i > 1 \/ "astray" \notin except) /\ h[i].slot <= Len(block) => IsPrefix(h[i].hash, block)

HistoryPart ==
  /\ Gapless(history)
  /\ port # <<>> /\ port[1].kind = "Apply" =>
       history # <<>> /\ history[Len(history)].slot = Len(port[1].block) - 1
  /\ port # <<>> /\ port[1].kind = "Reset" /\ history # <<>> =>
       history[Len(history)].slot >= Len(port[1].block)
  /\ port = <<>> /\ crumbs # <<>> =>
       history # <<>> /\ history[Len(history)].slot = Len(End)
  /\ crumbs # <<>> => Below(history, Here, marks)

\* A point of the chain c that only a fork of Depth blocks abandons.
Deep(p, c) ==
  /\ p.slot = Len(p.hash) /\ IsPrefix(p.hash, c)
  /\ p.slot + Depth <= Len(c) + 1

\* What is Depth blocks back from x is also before y.
Holds(x, y) ==
  \A t \in Block : IsPrefix(t, x) /\ Len(t) + Depth <= Len(x) + 1 => IsPrefix(t, y)

\* What a save would take while the history is short.
Base == IF history # <<>> THEN history[1] ELSE point

\* The blocks that the sink will reach.
Sent == {port[j].block : j \in DOMAIN port} \cup (IF crumbs # <<>> THEN {End} ELSE {})

FilePart ==
  marks = {} =>
    /\ \A i \in DOMAIN file : Deep(file[i], chain)
    /\ \A i \in DOMAIN job : Deep(job[i].at, chain)
    /\ phase # "down" => Deep(point, chain) /\ Deep(Base, chain)
    /\ phase = "up" /\ crumbs = <<>> => pos = point.hash
    /\ history = <<>> /\ port # <<>> => port[1].block = point.hash
    /\ \A x \in Sent : /\ Len(x) <= Len(chain)
                       /\ Holds(x, chain) /\ IsPrefix(Base.hash, x)
    /\ phase = "up" => IsPrefix(Base.hash, pos) /\ \A x \in Sent : Holds(x, pos)
    /\ \A i, j \in DOMAIN port : i < j => Holds(port[i].block, port[j].block)

IInv == Typed /\ CrumbPart /\ PortPart /\ StartPart /\ HistoryPart /\ FilePart

-----------------------------------------------------------------------------
(* The parts give the properties *)

\* The numbers the code's constants are.
LEMMA Sizes ==
  /\ Depth \in Nat /\ Depth > 0 /\ MaxHistory \in Nat /\ MaxHistory >= Depth
  /\ MaxCrumbs \in Nat /\ MaxCrumbs > 0 /\ Window \in Nat /\ Window > 0 /\ Depth <= Window + 1
  /\ PortSize \in Nat /\ MaxFork \in Nat
BY ResumeAssumption

\* A point and the block of it.
LEMMA PointIs ==
  ASSUME NEW b \in Block
  PROVE  PointOf(b) \in Sound /\ PointOf(b).slot = Len(b) /\ PointOf(b).hash = b
<1>1. Len(b) \in Nat
  BY DEF Block
<1> QED BY <1>1 DEF PointOf, Sound, Point, Block

\* What a sound point is made of.
LEMMA SoundIs ==
  ASSUME NEW p \in Sound
  PROVE  p.slot \in Nat /\ p.hash \in Block /\ Len(p.hash) <= p.slot
BY DEF Sound, Point, Block

\* Blocks have a height.
LEMMA LenBlock == \A b \in Block : Len(b) \in Nat
BY DEF Block

\* A sequence of at most one element.
LEMMA Single ==
  ASSUME NEW S, NEW s \in Seq(S), Len(s) <= 1, s # <<>>
  PROVE  s = <<s[1]>> /\ 1 \in DOMAIN s /\ s[1] \in S
<1>1. Len(s) = 1 /\ DOMAIN s = 1..1 /\ s[1] \in S
  OBVIOUS
<1>2. <<s[1]>> \in Seq(S) /\ Len(<<s[1]>>) = 1 /\ <<s[1]>>[1] = s[1]
  BY <1>1
<1>3. \A i \in 1..Len(s) : s[i] = <<s[1]>>[i]
  BY <1>1, <1>2
<1> QED BY <1>1, <1>2, <1>3, SeqEqual

\* What the sequences of the state hold.
LEMMA Elements ==
  ASSUME Typed
  PROVE  /\ \A i \in DOMAIN crumbs : crumbs[i] \in Sound
         /\ \A i \in DOMAIN history : history[i] \in Sound
         /\ \A i \in DOMAIN file : file[i] \in Sound
         /\ \A i \in DOMAIN job : job[i] \in Job /\ job[i].at \in Sound
         /\ \A i \in DOMAIN port : port[i] \in Event /\ port[i].block \in Block
<1>1. /\ crumbs \in Seq(Sound) /\ history \in Seq(Sound) /\ file \in Seq(Sound)
      /\ job \in Seq(Job) /\ port \in Seq(Event)
  BY DEF Typed
<1>2. \A i \in DOMAIN job : job[i] \in Job
  BY <1>1
<1>3. \A i \in DOMAIN port : port[i] \in Event
  BY <1>1
<1>4. \A i \in DOMAIN job : job[i].at \in Sound
  BY <1>2 DEF Job
<1>5. \A i \in DOMAIN port : port[i].block \in Block
  BY <1>3 DEF Event
<1> QED BY <1>1, <1>2, <1>3, <1>4, <1>5

\* The blocks ahead of the sink are blocks.
LEMMA SentBlocks ==
  ASSUME Typed
  PROVE  Sent \subseteq Block /\ (crumbs # <<>> => End \in Block /\ 1 \in DOMAIN crumbs)
<1>1. crumbs # <<>> => End \in Block /\ 1 \in DOMAIN crumbs
  <2>1. crumbs # <<>> => 1 \in DOMAIN crumbs
    BY DEF Typed
  <2> QED BY <2>1, Elements, SoundIs DEF End
<1> QED BY <1>1, Elements DEF Sent

\* The parts of the type invariant.
LEMMA TypedIsTypeOK == Typed => TypeOK
<1> SUFFICES ASSUME Typed PROVE TypeOK
  OBVIOUS
<1>1. ASSUME NEW s \in Seq(Sound) PROVE Points(s)
  <2>1. \A i \in DOMAIN s : s[i] \in Sound
    OBVIOUS
  <2> QED BY <2>1 DEF Points, ToSet, Sound
<1>2. Points(crumbs) /\ Points(history) /\ Points(file)
  BY <1>1 DEF Typed
<1>3. point \in Point
  BY DEF Typed, Sound
<1> QED BY <1>2, <1>3 DEF Typed, TypeOK, Block

\* The invariant implies the three properties.
LEMMA PartsAreProperties ==
  IInv => SettledHistoryIsTheChain /\ CrumbsAreOnPath /\ SavedPointIsOnChain
<1> SUFFICES ASSUME IInv PROVE SettledHistoryIsTheChain /\ CrumbsAreOnPath /\ SavedPointIsOnChain
  OBVIOUS
<1>1. TypeOK
  BY TypedIsTypeOK DEF IInv
<1>2. CrumbsAreOnPath
  <2>1. ASSUME NEW i \in DOMAIN crumbs, i > 1
        PROVE  crumbs[i].slot < crumbs[i - 1].slot
    <3>1. i \in 1..Len(crumbs) /\ i - 1 \in DOMAIN crumbs /\ 1 \in DOMAIN crumbs
      BY <2>1 DEF IInv, Typed
    <3>2. crumbs[1].slot \in Int
      BY <3>1, SoundIs DEF IInv, Typed
    <3> QED BY <3>1, <3>2, <2>1 DEF IInv, CrumbPart
  <2> QED BY <2>1 DEF IInv, CrumbPart, CrumbsAreOnPath, End
<1>3. ASSUME Settled
      PROVE  /\ history # <<>> /\ Last(history).slot = Len(pos)
             /\ \A i \in DOMAIN history :
                  /\ (i > 1 \/ "astray" \notin marks) => IsPrefix(history[i].hash, pos)
                  /\ i > 1 => history[i].slot = history[i - 1].slot + 1
                  /\ i > 1 => history[i].slot = Len(history[i].hash)
  <2>1. crumbs # <<>> /\ pos = End /\ port = <<>> /\ Here = pos
    BY <1>3 DEF Settled, IInv, CrumbPart, Here
  <2>2. /\ history # <<>> /\ Last(history).slot = Len(pos)
        /\ Below(history, pos, marks) /\ Gapless(history)
    BY <2>1 DEF IInv, HistoryPart, Last
  <2>3. /\ history \in Seq(Sound) /\ DOMAIN history = 1..Len(history) /\ Len(history) \in Nat
        /\ history[1].slot \in Nat
    BY <2>2, SoundIs DEF IInv, Typed
  <2>4. ASSUME NEW i \in DOMAIN history
        PROVE  history[i].slot <= Len(pos)
    BY <2>2, <2>3 DEF Gapless, Last
  <2>5. ASSUME NEW i \in DOMAIN history, i > 1
        PROVE  history[i].slot = history[i - 1].slot + 1
    <3>1. i - 1 \in DOMAIN history
      BY <2>3, <2>5
    <3> QED BY <2>2, <2>3, <2>5, <3>1 DEF Gapless
  <2> QED BY <2>2, <2>4, <2>5 DEF Below, Gapless
<1>4. SavedPointIsOnChain
  BY DEF IInv, FilePart, Deep, SavedPointIsOnChain, OnChain
<1> QED BY <1>1, <1>2, <1>3, <1>4 DEF SettledHistoryIsTheChain

-----------------------------------------------------------------------------
(* The node's steps *)

\* It holds at first: nothing runs.
LEMMA InitIInv == Init => IInv
<1> SUFFICES ASSUME Init PROVE IInv
  OBVIOUS
<1>1. <<>> \in Block /\ Len(<<>>) = 0
  BY DEF Block
<1>2. Typed
  <2>1. chain \in Block /\ Len(chain) > Window
    BY ResumeAssumption DEF Init, Block
  <2>2. point \in Sound
    BY <1>1, PointIs DEF Init
  <2>3. /\ <<>> \in Seq(Sound) /\ <<>> \in Seq(Event) /\ <<>> \in Seq(Job)
    OBVIOUS
  <2>4. 0 <= MaxCrumbs /\ 0 <= PortSize /\ 0 <= MaxHistory
    BY Sizes
  <2>5. crumbs \in Seq(Sound) /\ Len(crumbs) <= MaxCrumbs
    BY <1>1, <2>3, <2>4 DEF Init
  <2>6. port \in Seq(Event) /\ Len(port) <= PortSize
    BY <1>1, <2>3, <2>4 DEF Init
  <2>7. history \in Seq(Sound) /\ Len(history) <= MaxHistory
    BY <1>1, <2>3, <2>4 DEF Init
  <2>8. file \in Seq(Sound) /\ Len(file) <= 1 /\ job \in Seq(Job) /\ Len(job) <= 1
    BY <1>1, <2>3 DEF Init
  <2>9. pos \in Block /\ phase = "down" /\ told = FALSE /\ marks = {}
        /\ crumbs = <<>> /\ port = <<>> /\ history = <<>> /\ job = <<>>
    BY <1>1 DEF Init
  <2> HIDE DEF Init
  <2> QED BY <2>1, <2>2, <2>5, <2>6, <2>7, <2>8, <2>9 DEF Typed
<1>3. CrumbPart /\ PortPart /\ StartPart /\ HistoryPart
  BY DEF Init, CrumbPart, PortPart, StartPart, HistoryPart, Gapless
<1>4. FilePart
  BY DEF Init, FilePart, Sent
<1> QED BY <1>2, <1>3, <1>4 DEF IInv

\* The node's chain gets longer, and what a fork abandons without a mark is
\* not Depth blocks back; a client is sent back by a fork, never forward.
LEMMA ChainMoves ==
  ASSUME IInv, UNCHANGED <<phase, point, crumbs, port, history, job, file>>,
         chain' \in Block, Len(chain) <= Len(chain'),
         marks' \in {marks, marks \cup {"deep"}}, told' \in BOOLEAN, pos' \in Block,
         phase = "up" => /\ IsPrefix(pos', pos) /\ IsPrefix(pos', chain')
                         /\ told' => told /\ pos' = pos,
         marks' = {} => \A t \in Block :
           IsPrefix(t, chain) /\ Len(t) + Depth <= Len(chain) + 1 =>
             /\ IsPrefix(t, chain')
             /\ phase = "up" /\ IsPrefix(t, pos) => IsPrefix(t, pos')
  PROVE  IInv'
<1>1. Typed'
  <2>1. Len(chain) \in Nat /\ Len(chain') \in Nat
    BY LenBlock DEF IInv, Typed
  <2>2. Len(chain') > Window
    BY <2>1, Sizes DEF IInv, Typed
  <2>3. marks' \subseteq {"deep", "empty", "astray"}
    BY DEF IInv, Typed
  <2> QED BY <2>2, <2>3 DEF IInv, Typed
<1>2. crumbs # <<>> => End \in Block
  BY SoundIs DEF IInv, Typed, End
<1>3. CrumbPart'
  <2>1. phase = "up" /\ crumbs # <<>> => IsPrefix(pos', End)
    BY <1>2, PrefixOrder DEF IInv, CrumbPart, Typed
  <2> QED BY <2>1 DEF IInv, CrumbPart, End
<1>4. PortPart'
  BY DEF IInv, PortPart, Follows, End
<1>5. point.hash \in Block
  BY SoundIs DEF IInv, Typed
<1>6. StartPart'
  BY <1>5, PrefixOrder DEF IInv, StartPart, Typed
<1>7. HistoryPart'
  <2>1. "astray" \in marks' <=> "astray" \in marks
    OBVIOUS
  <2>2. crumbs # <<>> => Below(history, Here, marks')
    BY <2>1 DEF IInv, HistoryPart, Below
  <2> QED BY <2>2 DEF IInv, HistoryPart, Below, Gapless, Here, End
<1>8. FilePart'
  <2> SUFFICES ASSUME marks' = {} PROVE FilePart'
    BY DEF FilePart
  <2>1. marks = {}
    OBVIOUS
  <2>2. \A t \in Block :
           IsPrefix(t, chain) /\ Len(t) + Depth <= Len(chain) + 1 =>
             /\ IsPrefix(t, chain')
             /\ phase = "up" /\ IsPrefix(t, pos) => IsPrefix(t, pos')
    OBVIOUS
  <2>3. Len(chain) \in Nat /\ Len(chain') \in Nat /\ Depth \in Nat
    BY Sizes DEF IInv, Typed, Block
  <2>4. ASSUME NEW p \in Sound, Deep(p, chain)
        PROVE  Deep(p, chain') /\ (phase = "up" /\ IsPrefix(p.hash, pos) => IsPrefix(p.hash, pos'))
    BY <2>2, <2>3, <2>4, SoundIs DEF Deep
  <2>5. Base' = Base /\ Sent' = Sent
    BY DEF Base, Sent, End
  <2>6. phase # "down" => Base \in Sound /\ Deep(Base, chain)
    BY <2>1 DEF IInv, FilePart, Base, Typed
  <2>7. Sent \subseteq Block
    BY <1>2, SentBlocks DEF Sent, IInv
  <2>8. ASSUME NEW x \in Sent
        PROVE  /\ Len(x) <= Len(chain') /\ Holds(x, chain') /\ IsPrefix(Base.hash, x)
               /\ phase = "up" => Holds(x, pos')
    <3>1. /\ Len(x) <= Len(chain) /\ Holds(x, chain) /\ IsPrefix(Base.hash, x)
          /\ phase = "up" => Holds(x, pos)
      BY <2>1 DEF IInv, FilePart
    <3>2. Len(x) \in Nat
      BY <2>7 DEF Block
    <3>3. ASSUME NEW t \in Block, IsPrefix(t, x), Len(t) + Depth <= Len(x) + 1
          PROVE  IsPrefix(t, chain') /\ (phase = "up" => IsPrefix(t, pos'))
      <4>1. IsPrefix(t, chain) /\ (phase = "up" => IsPrefix(t, pos))
        BY <3>1, <3>3 DEF Holds
      <4>2. Len(t) + Depth <= Len(chain) + 1
        <5>1. Len(t) \in Nat
          BY DEF Block
        <5> QED BY <2>3, <3>1, <3>2, <3>3, <5>1
      <4> QED BY <2>2, <4>1, <4>2
    <3> QED BY <2>3, <3>1, <3>2, <3>3 DEF Holds
  <2>9. \A i \in DOMAIN file : Deep(file[i], chain')
    BY <2>1, <2>4, Elements DEF IInv, FilePart
  <2>10. \A i \in DOMAIN job : Deep(job[i].at, chain')
    BY <2>1, <2>4, Elements DEF IInv, FilePart
  <2>11. phase # "down" => Deep(point, chain') /\ Deep(Base, chain')
    BY <2>1, <2>4, <2>6 DEF IInv, FilePart, Typed
  <2>12. phase = "up" => IsPrefix(Base.hash, pos')
    BY <2>1, <2>4, <2>6 DEF IInv, FilePart
  <2>13. phase = "up" /\ crumbs = <<>> => pos' = point.hash
    <3>1. phase = "up" /\ crumbs = <<>> => pos = point.hash /\ Deep(point, chain)
      BY <2>1 DEF IInv, FilePart
    <3>2. phase = "up" /\ crumbs = <<>> => IsPrefix(point.hash, pos') /\ IsPrefix(pos', point.hash)
      BY <1>5, <2>4, <3>1, PrefixOrder DEF IInv, Typed
    <3> QED BY <1>5, <3>2, PrefixOrder
  <2>14. \A i, j \in DOMAIN port : i < j => Holds(port[i].block, port[j].block)
    BY <2>1 DEF IInv, FilePart
  <2>15. history = <<>> /\ port # <<>> => port[1].block = point.hash
    BY <2>1 DEF IInv, FilePart
  <2>16. \A x \in Sent' : Len(x) <= Len(chain') /\ Holds(x, chain)' /\ IsPrefix(Base.hash, x)'
    BY <2>5, <2>8 DEF Holds
  <2> QED BY <2>5, <2>8, <2>9, <2>10, <2>11, <2>12, <2>13, <2>14, <2>15, <2>16 DEF FilePart, Holds
<1> QED BY <1>1, <1>3, <1>4, <1>6, <1>7, <1>8 DEF IInv

\* A block is added to the node's chain.
LEMMA ExtendKeeps == ASSUME IInv, NEW l \in Labels, Extend(l) PROVE IInv'
<1>1. chain' = Append(chain, l) /\ chain \in Block /\ pos \in Block
  BY DEF Extend, IInv, Typed
<1>2. chain' \in Block /\ Len(chain') = Len(chain) + 1 /\ IsPrefix(chain, chain') /\ Len(chain) \in Nat
  BY <1>1, OneMore, PrefixOrder
<1>3. UNCHANGED <<phase, point, pos, told, crumbs, port, history, job, file, marks>>
  BY DEF Extend, process
<1>4. \A t \in Block : IsPrefix(t, chain) => IsPrefix(t, chain')
  BY <1>1, <1>2, PrefixOrder
<1>5. phase = "up" => IsPrefix(pos, pos) /\ IsPrefix(pos, chain')
  BY <1>1, <1>4, PrefixOrder DEF IInv, CrumbPart
<1> QED BY <1>1, <1>2, <1>3, <1>4, <1>5, ChainMoves DEF IInv, Typed

\* A fork keeps what it forks from, and sends a client back to it.
LEMMA SwitchForkKeeps ==
  ASSUME IInv, NEW n \in 1..MaxHeight, NEW l \in Labels, SwitchFork(n, l)
  PROVE  IInv'
<1>1. chain \in Block /\ pos \in Block /\ Len(chain) \in Nat /\ Len(pos) \in Nat
  BY DEF IInv, Typed, Block
<1>2. n \in Int /\ n > 0 /\ n <= Len(chain) - 1 /\ Depth \in Nat
  BY <1>1, Sizes DEF SwitchFork
<1> DEFINE stem == Prefix(n)
           fork == [i \in 1..(Len(chain) - n + 1) |-> l]
<1>3. stem \in Block /\ Len(stem) = n /\ IsPrefix(stem, chain)
      /\ \A t \in Block : IsPrefix(t, chain) /\ Len(t) <= n => IsPrefix(t, stem)
  BY <1>1, <1>2, FirstOf DEF Prefix
<1>4. fork \in Block /\ Len(fork) = Len(chain) - n + 1
  <2>1. Len(chain) - n + 1 \in Nat
    BY <1>1, <1>2
  <2> QED BY <2>1 DEF Block
<1>5. chain' = stem \o fork
  BY DEF SwitchFork
<1> HIDE DEF stem, fork
<1>6. chain' \in Block /\ Len(chain') = Len(chain) + 1 /\ IsPrefix(stem, chain')
  BY <1>1, <1>2, <1>3, <1>4, <1>5, Continued
<1>7. \A t \in Block : IsPrefix(t, chain) /\ Len(t) <= n => IsPrefix(t, chain')
  BY <1>3, <1>6, PrefixOrder
<1>8. /\ UNCHANGED <<phase, point, crumbs, port, history, job, file>>
      /\ marks' = marks \cup IF n < Len(chain) - (Depth - 1) THEN {"deep"} ELSE {}
      /\ IF phase = "up" /\ Len(pos) > n THEN pos' = stem /\ told' = FALSE
         ELSE UNCHANGED <<pos, told>>
  BY DEF SwitchFork, stem
<1>9. pos' \in Block /\ told' \in BOOLEAN
  BY <1>1, <1>3, <1>8 DEF IInv, Typed
<1>10. ASSUME phase = "up"
       PROVE  IsPrefix(pos', pos) /\ IsPrefix(pos', chain') /\ (told' => told /\ pos' = pos)
  <2>1. IsPrefix(pos, chain)
    BY <1>10 DEF IInv, CrumbPart
  <2>2. CASE Len(pos) > n
    <3>1. pos' = stem /\ ~told'
      BY <1>8, <1>10, <2>2
    <3>2. IsPrefix(stem, pos)
      BY <1>1, <1>2, <1>3, <2>1, <2>2, PrefixOrder
    <3> QED BY <1>6, <3>1, <3>2
  <2>3. CASE ~(Len(pos) > n)
    BY <1>1, <1>2, <1>7, <1>8, <2>1, <2>3, PrefixOrder
  <2> QED BY <2>2, <2>3
<1>11. ASSUME marks' = {}, NEW t \in Block,
              IsPrefix(t, chain), Len(t) + Depth <= Len(chain) + 1
       PROVE  IsPrefix(t, chain') /\ (phase = "up" /\ IsPrefix(t, pos) => IsPrefix(t, pos'))
  <2>1. Len(t) \in Nat
    BY DEF Block
  <2>2. ~(n < Len(chain) - (Depth - 1))
    BY <1>8, <1>11
  <2>3. Len(t) <= n
    BY <1>1, <1>2, <1>11, <2>1, <2>2
  <2>4. IsPrefix(t, chain') /\ IsPrefix(t, stem)
    BY <1>3, <1>7, <1>11, <2>3
  <2> QED BY <1>8, <2>4
<1>12. marks' \in {marks, marks \cup {"deep"}}
  BY <1>8
<1> QED BY <1>1, <1>6, <1>8, <1>9, <1>10, <1>11, <1>12, ChainMoves

-----------------------------------------------------------------------------
(* The process starts, ends and connects *)

\* The process ends: the file is all that is left.
LEMMA GoneKeeps == ASSUME IInv, Gone, UNCHANGED <<chain, file, marks>> PROVE IInv'
<1>1. <<>> \in Block
  BY DEF Block
<1>2. Typed'
  <2>1. point' \in Sound
    BY <1>1, PointIs DEF Gone
  <2>2. /\ <<>> \in Seq(Sound) /\ <<>> \in Seq(Event) /\ <<>> \in Seq(Job) /\ Len(<<>>) = 0
    OBVIOUS
  <2>3. 0 <= MaxCrumbs /\ 0 <= PortSize /\ 0 <= MaxHistory
    BY Sizes
  <2>4. crumbs' \in Seq(Sound) /\ Len(crumbs') <= MaxCrumbs
    BY <2>2, <2>3 DEF Gone
  <2>5. port' \in Seq(Event) /\ Len(port') <= PortSize
    BY <2>2, <2>3 DEF Gone
  <2>6. history' \in Seq(Sound) /\ Len(history') <= MaxHistory
    BY <2>2, <2>3 DEF Gone
  <2>7. job' \in Seq(Job) /\ Len(job') <= 1
    BY <2>2 DEF Gone
  <2>8. pos' \in Block /\ phase' = "down" /\ told' = FALSE
        /\ crumbs' = <<>> /\ port' = <<>> /\ history' = <<>> /\ job' = <<>>
    BY <1>1 DEF Gone
  <2>9. chain' = chain /\ file' = file /\ marks' = marks
    OBVIOUS
  <2> QED BY <2>1, <2>4, <2>5, <2>6, <2>7, <2>8, <2>9 DEF IInv, Typed
<1>3. CrumbPart' /\ PortPart' /\ StartPart' /\ HistoryPart'
  BY DEF Gone, CrumbPart, PortPart, StartPart, HistoryPart, Gapless
<1>4. FilePart'
  BY DEF Gone, FilePart, Sent, IInv
<1> QED BY <1>2, <1>3, <1>4 DEF IInv

\* A start is from the saved point, or from one that far back in the chain.
LEMMA StartKeeps == ASSUME IInv, Start PROVE IInv'
<1>1. /\ phase = "down" /\ phase' = "connecting" /\ history' = file
      /\ UNCHANGED <<chain, pos, told, crumbs, port, job, file, faults, marks>>
      /\ crumbs = <<>> /\ port = <<>> /\ job = <<>>
  BY DEF Start, IInv, Typed
<1>2. chain \in Block /\ Len(chain) \in Nat /\ Len(chain) - Window \in Nat
      /\ Len(chain) - Window <= Len(chain)
  BY Sizes, LenBlock DEF IInv, Typed
<1>3. file # <<>> => file = <<file[1]>> /\ 1 \in DOMAIN file
  BY Single DEF IInv, Typed
<1> DEFINE old == Prefix(Len(chain) - Window)
<1>4. old \in Block /\ IsPrefix(old, chain) /\ Len(old) = Len(chain) - Window
  BY <1>2, FirstOf DEF Prefix
<1>5. point' = IF file # <<>> THEN file[1] ELSE PointOf(old)
  BY DEF Start
<1> HIDE DEF old
<1>6. point' \in Sound /\ (history' = <<>> \/ history' = <<point'>>)
  BY <1>1, <1>3, <1>4, <1>5, Elements, PointIs DEF IInv
<1>7. Typed'
  <2>1. Len(history') <= MaxHistory
    BY <1>1, Sizes DEF IInv, Typed
  <2> QED BY <1>1, <1>6, <2>1 DEF IInv, Typed
<1>8. CrumbPart' /\ PortPart' /\ StartPart'
  BY <1>1, <1>6 DEF CrumbPart, PortPart, StartPart
<1>9. HistoryPart'
  <2>1. Gapless(history')
    <3>1. CASE history' = <<>>
      BY <3>1 DEF Gapless
    <3>2. CASE history' = <<point'>>
      BY <1>6, <3>2, SoundIs DEF Gapless
    <3> QED BY <1>6, <3>1, <3>2
  <2> QED BY <1>1, <2>1 DEF HistoryPart
<1>10. FilePart'
  <2>1. ASSUME marks = {} PROVE Deep(point', chain)
    <3>1. CASE file # <<>>
      BY <1>3, <1>5, <2>1, <3>1 DEF IInv, FilePart
    <3>2. CASE file = <<>>
      <4>1. point'.slot = Len(old) /\ point'.hash = old
        BY <1>4, <1>5, <3>2, PointIs
      <4>2. Len(old) + Depth <= Len(chain) + 1
        BY <1>2, <1>4, Sizes
      <4> QED BY <1>4, <4>1, <4>2 DEF Deep
    <3> QED BY <3>1, <3>2
  <2>2. Base' = point'
    BY <1>6 DEF Base
  <2>3. Sent' = {}
    BY <1>1 DEF Sent
  <2> QED BY <1>1, <2>1, <2>2, <2>3 DEF FilePart, IInv
<1> QED BY <1>7, <1>8, <1>9, <1>10 DEF IInv

\* The newest breadcrumb on chain has all that is before End and on chain:
\* a block in between would be a newer breadcrumb.
LEMMA NewestCrumb ==
  ASSUME IInv, NEW i \in DOMAIN crumbs, OnChain(crumbs[i]),
         \A j \in DOMAIN crumbs : OnChain(crumbs[j]) => i <= j,
         NEW t \in Block, IsPrefix(t, End), IsPrefix(t, chain)
  PROVE  IsPrefix(t, crumbs[i].hash)
<1>1. /\ crumbs[i].hash \in Block /\ crumbs[i].slot \in Nat /\ End \in Block
      /\ i \in 1..Len(crumbs) /\ Len(crumbs) \in Nat /\ 1 \in DOMAIN crumbs
      /\ DOMAIN crumbs = 1..Len(crumbs)
  BY Elements, SoundIs, SentBlocks DEF IInv, Typed
<1>2. /\ IsPrefix(crumbs[i].hash, End) /\ crumbs[i].slot = Len(crumbs[i].hash)
      /\ crumbs[i].slot = crumbs[1].slot - i + 1 /\ crumbs[1].slot = Len(End)
  BY <1>1 DEF IInv, CrumbPart, End
<1>3. Len(t) \in Nat /\ Len(End) \in Nat /\ Len(t) <= Len(End) /\ Len(crumbs[i].hash) \in Nat
  BY <1>1, LenBlock, PrefixOrder
<1>4. ASSUME Len(t) > Len(crumbs[i].hash) PROVE FALSE
  <2> DEFINE k == Len(End) - Len(t) + 1
  <2>1. k \in DOMAIN crumbs /\ k < i /\ k \in Int
    BY <1>1, <1>2, <1>3, <1>4
  <2>2. /\ crumbs[k].slot = Len(crumbs[k].hash) /\ IsPrefix(crumbs[k].hash, End)
        /\ crumbs[k].slot = Len(End) - k + 1 /\ crumbs[k].hash \in Block
    BY <1>2, <2>1, Elements, SoundIs DEF IInv, CrumbPart
  <2>3. Len(crumbs[k].hash) = Len(t)
    BY <1>3, <2>2
  <2> HIDE DEF k
  <2>4. crumbs[k].hash = t
    BY <1>1, <1>3, <2>2, <2>3, PrefixOrder
  <2>5. OnChain(crumbs[k])
    BY <2>2, <2>4 DEF OnChain
  <2> QED BY <1>1, <2>1, <2>5
<1>5. Len(t) <= Len(crumbs[i].hash)
  BY <1>3, <1>4
<1>6. \A u \in Block : IsPrefix(u, End) /\ Len(t) <= Len(u) => IsPrefix(t, u)
  BY <1>1, PrefixOrder
<1> QED BY <1>1, <1>2, <1>5, <1>6

\* What is Depth blocks back from a block of the path is before End.
LEMMA SentHoldsEnd ==
  ASSUME IInv, marks = {}, NEW x \in Sent
  PROVE  Holds(x, End) /\ crumbs # <<>>
<1>1. CASE x = End /\ crumbs # <<>>
  BY <1>1 DEF Holds
<1>2. CASE \E j \in DOMAIN port : x = port[j].block
  <2>1. PICK j \in DOMAIN port : x = port[j].block
    BY <1>2
  <2>2. j \in 1..Len(port) /\ Len(port) \in Nat /\ Len(port) \in DOMAIN port /\ port # <<>>
    BY <2>1 DEF IInv, Typed
  <2>3. crumbs # <<>> /\ port[Len(port)].block = End
    BY <2>2 DEF IInv, PortPart
  <2>4. CASE j = Len(port)
    BY <2>1, <2>3, <2>4 DEF Holds
  <2>5. CASE j < Len(port)
    BY <2>1, <2>2, <2>3, <2>5 DEF IInv, FilePart
  <2> QED BY <2>2, <2>3, <2>4, <2>5
<1> QED BY <1>1, <1>2 DEF Sent

\* The node has the client at a block of its chain that has all of its chain
\* that the source went through.
LEMMA AtKeeps ==
  ASSUME IInv, phase = "connecting", NEW b \in Block, At(b), IsPrefix(b, chain),
         UNCHANGED <<chain, file, marks>>,
         crumbs = <<>> => IsPrefix(b, point.hash) /\ (OnChain(point) => b = point.hash),
         crumbs # <<>> => /\ IsPrefix(b, End)
                          /\ \A t \in Block : IsPrefix(t, End) /\ IsPrefix(t, chain) => IsPrefix(t, b)
  PROVE  IInv'
<1>1. /\ phase' = "up" /\ pos' = b /\ told' = FALSE
      /\ UNCHANGED <<chain, point, crumbs, port, history, job, file, marks>>
  BY DEF At
<1>2. Typed'
  BY <1>1 DEF IInv, Typed
<1>3. CrumbPart'
  BY <1>1 DEF IInv, CrumbPart, End
<1>4. PortPart' /\ HistoryPart'
  BY <1>1 DEF IInv, PortPart, Follows, HistoryPart, Gapless, Below, Here, End
<1>5. StartPart'
  BY <1>1 DEF IInv, StartPart
<1>6. FilePart'
  <2> SUFFICES ASSUME marks = {} PROVE FilePart'
    BY <1>1 DEF FilePart
  <2>1. Base' = Base /\ Sent' = Sent
    BY <1>1 DEF Base, Sent, End
  <2>2. Deep(point, chain) /\ Deep(Base, chain) /\ Base \in Sound /\ point \in Sound
    BY Elements DEF IInv, FilePart, Base, Typed
  <2>3. crumbs = <<>> => b = point.hash /\ Base = point
    BY <2>2 DEF Deep, OnChain, Base, IInv, StartPart
  <2>4. Base.hash \in Block /\ IsPrefix(Base.hash, chain) /\ point.hash \in Block
    BY <2>2, SoundIs DEF Deep
  <2>5. IsPrefix(Base.hash, b)
    <3>1. CASE crumbs = <<>>
      BY <2>3, <2>4, <3>1, PrefixOrder
    <3>2. CASE crumbs # <<>>
      <4>1. IsPrefix(Base.hash, End)
        BY <3>2 DEF IInv, FilePart, Sent
      <4> QED BY <2>4, <3>2, <4>1
    <3> QED BY <3>1, <3>2
  <2>6. ASSUME NEW x \in Sent PROVE Holds(x, b)
    <3>1. crumbs # <<>> /\ Holds(x, End) /\ Holds(x, chain)
      BY SentHoldsEnd DEF IInv, FilePart
    <3> QED BY <3>1 DEF Holds
  <2> QED BY <1>1, <2>1, <2>2, <2>3, <2>5, <2>6 DEF IInv, FilePart
<1> QED BY <1>2, <1>3, <1>4, <1>5, <1>6 DEF IInv

\* A connection is at the newest breadcrumb on chain, or at the first point.
LEMMA ConnectKeeps == ASSUME IInv, Connect PROVE IInv'
<1> DEFINE known == {i \in DOMAIN crumbs : OnChain(crumbs[i])}
<1>1. /\ phase = "connecting" /\ UNCHANGED <<chain, file, faults, marks>>
      /\ IF crumbs # <<>>
         THEN IF known # {} THEN At(crumbs[Min(known)].hash) ELSE Gone
         ELSE At(IF OnChain(point) THEN point.hash ELSE <<>>)
  BY DEF Connect
<1>2. CASE crumbs # <<>> /\ known # {}
  <2>1. known \subseteq Nat
    BY DEF IInv, Typed
  <2>2. Min(known) \in known /\ \A y \in known : Min(known) <= y
    BY <1>2, <2>1, MinIndex
  <2>3. PICK i \in DOMAIN crumbs : /\ i = Min(known) /\ OnChain(crumbs[i])
                                   /\ \A j \in DOMAIN crumbs : OnChain(crumbs[j]) => i <= j
    BY <2>2
  <2>4. /\ crumbs[i].hash \in Block /\ At(crumbs[i].hash)
        /\ IsPrefix(crumbs[i].hash, chain) /\ IsPrefix(crumbs[i].hash, End)
    BY <1>1, <1>2, <2>3, Elements, SoundIs DEF OnChain, IInv, CrumbPart
  <2>5. \A t \in Block : IsPrefix(t, End) /\ IsPrefix(t, chain) => IsPrefix(t, crumbs[i].hash)
    BY <2>3, NewestCrumb
  <2> QED BY <1>1, <1>2, <2>4, <2>5, AtKeeps
<1>3. CASE crumbs # <<>> /\ known = {}
  BY <1>1, <1>3, GoneKeeps
<1>4. CASE crumbs = <<>>
  <2> DEFINE b == IF OnChain(point) THEN point.hash ELSE <<>>
  <2>1. point.hash \in Block /\ <<>> \in Block /\ chain \in Block
    BY SoundIs DEF IInv, Typed, Block
  <2>2. b \in Block /\ IsPrefix(b, chain) /\ IsPrefix(b, point.hash)
    BY <2>1, PrefixOrder DEF OnChain
  <2> QED BY <1>1, <1>4, <2>2, AtKeeps
<1> QED BY <1>2, <1>3, <1>4

\* A lost connection changes nothing but the phase.
LEMMA LoseConnectionKeeps == ASSUME IInv, LoseConnection PROVE IInv'
<1>1. /\ phase = "up" /\ phase' = "connecting"
      /\ UNCHANGED <<chain, point, pos, told, crumbs, port, history, job, file, marks>>
  BY DEF LoseConnection
<1>2. Typed' /\ CrumbPart' /\ PortPart' /\ StartPart'
  BY <1>1 DEF IInv, Typed, CrumbPart, PortPart, StartPart, Follows, End
<1>3. HistoryPart'
  BY <1>1 DEF IInv, HistoryPart, Gapless, Below, Here, End
<1>4. FilePart'
  <2>1. Base' = Base /\ Sent' = Sent
    BY <1>1 DEF Base, Sent, End
  <2> QED BY <1>1, <2>1 DEF IInv, FilePart
<1> QED BY <1>2, <1>3, <1>4 DEF IInv

\* A save puts the point it was of in place, or spoils the file.
LEMMA SaveEndsKeeps == ASSUME IInv, SaveEnds PROVE IInv'
<1>1. /\ job # <<>> /\ job' = <<>> /\ (file' = <<job[1].at>> \/ file' = <<>> \/ file' = file)
      /\ UNCHANGED <<chain, phase, point, pos, told, crumbs, port, history, marks>>
  BY DEF SaveEnds
<1>2. 1 \in DOMAIN job /\ job[1].at \in Sound
  BY <1>1, Elements DEF IInv, Typed
<1>3. Typed'
  <2>1. ASSUME NEW p \in Sound
        PROVE  <<p>> \in Seq(Sound) /\ Len(<<p>>) = 1
    OBVIOUS
  <2>2. <<>> \in Seq(Sound) /\ Len(<<>>) = 0
    OBVIOUS
  <2>3. file \in Seq(Sound) /\ Len(file) <= 1
    BY DEF IInv, Typed
  <2>4. file' \in Seq(Sound) /\ Len(file') <= 1
    <3>1. CASE file' = <<job[1].at>>
      BY <1>2, <2>1, <3>1
    <3>2. CASE file' = <<>>
      BY <2>2, <3>2
    <3>3. CASE file' = file
      BY <2>3, <3>3
    <3> QED BY <1>1, <3>1, <3>2, <3>3
  <2> QED BY <1>1, <2>4 DEF IInv, Typed
<1>4. CrumbPart' /\ PortPart' /\ StartPart'
  BY <1>1 DEF IInv, CrumbPart, PortPart, StartPart, Follows, End
<1>5. HistoryPart'
  BY <1>1 DEF IInv, HistoryPart, Gapless, Below, Here, End
<1>6. FilePart'
  <2>1. Base' = Base /\ Sent' = Sent
    BY <1>1 DEF Base, Sent, End
  <2>2. marks = {} => \A i \in DOMAIN file' : Deep(file'[i], chain)
    BY <1>1, <1>2 DEF IInv, FilePart
  <2> QED BY <1>1, <2>1, <2>2 DEF IInv, FilePart
<1> QED BY <1>3, <1>4, <1>5, <1>6 DEF IInv

-----------------------------------------------------------------------------
(* The source sends an event *)

\* Blocks before b, of a path that goes on to x or back to x, are before x
\* when they are not above it.
LEMMA PathBelow ==
  ASSUME NEW b \in Block, NEW x \in Block, IsPrefix(b, x) \/ IsPrefix(x, b),
         NEW t \in Block, IsPrefix(t, b), Len(t) <= Len(x)
  PROVE  IsPrefix(t, x)
BY PrefixOrder

\* Breadcrumbs after a block that extends End by one, or is before it.
LEMMA TrackIs ==
  ASSUME Typed, CrumbPart, NEW b \in Block,
         crumbs # <<>> => /\ IsPrefix(End, b) \/ IsPrefix(b, End)
                          /\ Len(b) <= Len(End) + 1
  PROVE  LET T == Track(PointOf(b))
         IN  /\ T \in Seq(Sound) /\ Len(T) <= MaxCrumbs /\ T # <<>> /\ T[1].hash = b
             /\ \A i \in DOMAIN T : /\ T[i].slot = Len(T[i].hash)
                                    /\ T[i].slot = T[1].slot - i + 1
                                    /\ IsPrefix(T[i].hash, b)
<1> DEFINE p == PointOf(b)
           old == {i \in DOMAIN crumbs : crumbs[i].slot < p.slot}
           older == IF old = {} THEN <<>> ELSE SubSeq(crumbs, Min(old), Len(crumbs))
           kept == Min({MaxCrumbs, Len(older) + 1})
           T == SubSeq(<<p>> \o older, 1, kept)
<1>1. p \in Sound /\ p.slot = Len(b) /\ p.hash = b /\ Len(b) \in Nat
  BY PointIs, LenBlock
<1>2. crumbs \in Seq(Sound) /\ Len(crumbs) \in Nat /\ DOMAIN crumbs = 1..Len(crumbs)
  BY DEF Typed
<1>3. /\ older \in Seq(Sound)
      /\ \A i \in 1..Len(older) : /\ older[i].slot = Len(older[i].hash)
                                  /\ older[i].slot = Len(b) - i
                                  /\ IsPrefix(older[i].hash, b)
  <2>1. CASE old = {}
    <3>1. older = <<>>
      BY <2>1
    <3>2. <<>> \in Seq(Sound) /\ Len(<<>>) = 0
      OBVIOUS
    <3> HIDE DEF older
    <3> QED BY <3>1, <3>2
  <2>2. CASE old # {}
    <3> DEFINE m == Min(old)
    <3>1. old \subseteq Nat
      BY <1>2
    <3>2. m \in old /\ \A y \in old : m <= y
      BY <2>2, <3>1, MinIndex
    <3>3. older = SubSeq(crumbs, m, Len(crumbs))
      BY <2>2
    <3>4. m \in 1..Len(crumbs) /\ crumbs[m].slot < Len(b)
          /\ \A y \in DOMAIN crumbs : crumbs[y].slot < Len(b) => m <= y
      BY <1>1, <1>2, <3>2
    <3> HIDE DEF older, m, old
    <3>5. /\ older \in Seq(Sound) /\ Len(older) = Len(crumbs) - m + 1
          /\ \A i \in 1..Len(older) : older[i] = crumbs[m + i - 1]
      <4>1. \A i \in m..Len(crumbs) : crumbs[i] \in Sound
        BY <1>2, <3>4
      <4>2. m \in Int /\ Len(crumbs) \in Int /\ m <= Len(crumbs)
        BY <1>2, <3>4
      <4>3. /\ older \in Seq(Sound) /\ Len(older) = Len(crumbs) - m + 1
            /\ \A i \in 1..(Len(crumbs) - m + 1) : older[i] = crumbs[m + i - 1]
        BY <3>3, <4>1, <4>2, SubSeqProperties, Z3
      <4> QED BY <4>3
    <3>6. crumbs # <<>> /\ End \in Block /\ crumbs[1].slot = Len(End) /\ Len(End) \in Nat
      BY <1>2, <3>4, SentBlocks, LenBlock DEF CrumbPart, End
    <3>7. \A y \in DOMAIN crumbs : /\ crumbs[y].slot = Len(End) - y + 1 /\ y \in Nat
                                   /\ crumbs[y].slot = Len(crumbs[y].hash)
                                   /\ IsPrefix(crumbs[y].hash, End) /\ crumbs[y].hash \in Block
      BY <1>2, <3>6, Elements, SoundIs DEF CrumbPart
    <3>8. crumbs[m].slot = Len(b) - 1
      <4>1. crumbs[m].slot = Len(End) - m + 1
        BY <1>2, <3>4, <3>7
      <4>2. CASE m = 1
        BY <1>1, <3>4, <3>6, <4>1, <4>2
      <4>3. CASE m > 1
        <5> DEFINE j == m - 1
        <5>1. j \in DOMAIN crumbs /\ ~(m <= j) /\ j = m - 1 /\ j \in Nat /\ m \in Nat
          BY <1>2, <3>4, <4>3
        <5> HIDE DEF j
        <5>2. ~(crumbs[j].slot < Len(b))
          BY <3>4, <5>1
        <5>3. crumbs[j].slot = Len(End) - j + 1
          BY <3>7, <5>1
        <5> QED BY <1>1, <3>4, <3>6, <4>1, <5>1, <5>2, <5>3
      <4> QED BY <1>2, <3>4, <4>2, <4>3
    <3>9. ASSUME NEW i \in 1..Len(older)
          PROVE  /\ older[i].slot = Len(older[i].hash)
                 /\ older[i].slot = Len(b) - i
                 /\ IsPrefix(older[i].hash, b)
      <4> DEFINE y == m + i - 1
      <4>1. y \in DOMAIN crumbs /\ older[i] = crumbs[y] /\ y = m + i - 1 /\ y \in Nat
            /\ m \in Nat /\ i \in Nat /\ i >= 1
        BY <1>2, <3>4, <3>5
      <4> HIDE DEF y
      <4>2. crumbs[m].slot = Len(End) - m + 1 /\ crumbs[y].slot = Len(End) - y + 1
        BY <1>2, <3>4, <3>7, <4>1
      <4>3. crumbs[y].slot = Len(b) - i
        BY <1>1, <3>6, <3>8, <4>1, <4>2
      <4>4. /\ crumbs[y].hash \in Block /\ IsPrefix(crumbs[y].hash, End)
            /\ crumbs[y].slot = Len(crumbs[y].hash)
        BY <3>7, <4>1
      <4>5. Len(crumbs[y].hash) <= Len(b)
        BY <1>1, <4>1, <4>3, <4>4
      <4>6. IsPrefix(crumbs[y].hash, b)
        BY <3>6, <4>4, <4>5, PathBelow
      <4> QED BY <4>1, <4>3, <4>4, <4>6
    <3> QED BY <3>5, <3>9
  <2> QED BY <2>1, <2>2
<1> HIDE DEF older, old
<1> DEFINE c == <<p>> \o older
<1>4. /\ c \in Seq(Sound) /\ Len(c) = Len(older) + 1 /\ Len(older) \in Nat
      /\ c[1] = p /\ \A i \in 2..Len(c) : c[i] = older[i - 1]
  <2>1. <<p>> \in Seq(Sound) /\ Len(<<p>>) = 1 /\ <<p>>[1] = p
    BY <1>1
  <2>2. /\ c \in Seq(Sound) /\ Len(c) = 1 + Len(older)
        /\ \A i \in 1..(1 + Len(older)) : c[i] = IF i <= 1 THEN <<p>>[i] ELSE older[i - 1]
    BY <1>3, <2>1, ConcatProperties, Z3
  <2>3. Len(older) \in Nat
    BY <1>3
  <2> HIDE DEF c
  <2> QED BY <2>1, <2>2, <2>3
<1> HIDE DEF c, p
<1>5. kept \in 1..Len(c) /\ kept <= MaxCrumbs
  <2>1. {MaxCrumbs, Len(older) + 1} \subseteq Nat /\ {MaxCrumbs, Len(older) + 1} # {}
    BY <1>4, Sizes
  <2>2. kept \in {MaxCrumbs, Len(older) + 1} /\ \A y \in {MaxCrumbs, Len(older) + 1} : kept <= y
    BY <2>1, MinIndex
  <2> QED BY <1>4, <2>2, Sizes
<1> HIDE DEF kept
<1>6. T = SubSeq(c, 1, kept)
  BY DEF c
<1> HIDE DEF T
<1>7. T \in Seq(Sound) /\ Len(T) = kept /\ \A i \in 1..kept : T[i] = c[i]
  <2>1. \A i \in 1..kept : c[i] \in Sound
    BY <1>4, <1>5
  <2>2. kept \in Int /\ 1 <= kept
    BY <1>4, <1>5
  <2>3. /\ T \in Seq(Sound) /\ Len(T) = kept - 1 + 1
        /\ \A i \in 1..(kept - 1 + 1) : T[i] = c[1 + i - 1]
    BY <1>6, <2>1, <2>2, SubSeqProperties, Z3
  <2> QED BY <2>2, <2>3
<1>8. ASSUME NEW i \in DOMAIN T
      PROVE  T[i].slot = Len(T[i].hash) /\ T[i].slot = Len(b) - i + 1 /\ IsPrefix(T[i].hash, b)
  <2>1. i \in 1..kept /\ T[i] = c[i] /\ i \in Nat
    BY <1>4, <1>5, <1>7
  <2>2. CASE i = 1
    BY <1>1, <1>4, <2>1, <2>2, PrefixOrder
  <2>3. CASE i > 1
    <3>1. i \in 2..Len(c) /\ c[i] = older[i - 1] /\ i - 1 \in 1..Len(older)
      BY <1>4, <1>5, <2>1, <2>3
    <3>2. older[i - 1].slot = Len(b) - (i - 1)
      BY <1>3, <3>1
    <3> QED BY <1>1, <1>3, <2>1, <3>1, <3>2
  <2> QED BY <2>1, <2>2, <2>3
<1>9. T # <<>> /\ 1 \in DOMAIN T /\ T[1] = p
  BY <1>4, <1>5, <1>7
<1>10. Track(p) = T
  BY DEF Track, T, kept, older, old, p
<1> QED BY <1>1, <1>5, <1>7, <1>8, <1>9, <1>10 DEF p

\* What a history has up to a block, when it ends there, is also below the
\* next block of the path.
LEMMA BelowFollows ==
  ASSUME NEW h \in Seq(Sound), Gapless(h), h # <<>>, NEW b \in Block, NEW except,
         h[Len(h)].slot = Len(b), Below(h, b, except),
         NEW ev \in Event, Follows(b, ev)
  PROVE  Below(h, ev.block, except)
<1>1. Len(h) \in Nat /\ DOMAIN h = 1..Len(h) /\ \A i \in DOMAIN h : h[i] \in Sound
  OBVIOUS
<1>2. ev.block \in Block /\ Len(b) \in Nat
  BY LenBlock DEF Event
<1>3. ASSUME NEW i \in DOMAIN h, i > 1 \/ "astray" \notin except, h[i].slot <= Len(ev.block)
      PROVE  IsPrefix(h[i].hash, ev.block)
  <2>1. h[i].slot \in Nat /\ h[i].hash \in Block /\ Len(h[i].hash) <= h[i].slot /\ h[1].slot \in Nat
    BY <1>1, <1>3, SoundIs
  <2>2. h[i].slot = h[1].slot + i - 1 /\ Len(b) = h[1].slot + Len(h) - 1 /\ i <= Len(h) /\ i \in Nat
    BY <1>1, <1>3 DEF Gapless
  <2>3. h[i].slot <= Len(b)
    BY <1>1, <1>2, <2>1, <2>2
  <2>4. IsPrefix(h[i].hash, b)
    BY <1>3, <2>3 DEF Below
  <2>5. Len(h[i].hash) <= Len(ev.block)
    <3>1. Len(ev.block) \in Nat /\ Len(h[i].hash) \in Nat
      BY <1>2, <2>1, LenBlock
    <3> QED BY <1>3, <2>1, <3>1
  <2>6. IsPrefix(b, ev.block) \/ IsPrefix(ev.block, b)
    BY DEF Follows
  <2> QED BY <1>2, <2>1, <2>4, <2>5, <2>6, PathBelow
<1> QED BY <1>3 DEF Below

\* The block sent is the end of the path: above pos, and before End if it is a
\* rollback.
LEMMA EmitKeeps ==
  ASSUME IInv, NEW kind \in {"Apply", "Reset"}, NEW b \in Block, Emit(kind, b),
         IsPrefix(pos, b), IsPrefix(b, chain),
         kind = "Apply" => told /\ Len(b) = Len(pos) + 1,
         kind = "Reset" => b = pos
  PROVE  IInv'
<1> DEFINE ev == [kind |-> kind, block |-> b]
<1>1. /\ phase = "up" /\ Len(port) < PortSize /\ port' = Append(port, ev)
      /\ pos' = b /\ told' = TRUE /\ crumbs' = Track(PointOf(b))
      /\ UNCHANGED <<chain, phase, point, history, job, file, marks>>
  BY DEF Emit
<1>2. ev \in Event /\ ev.block = b /\ ev.kind = kind
  BY DEF Event
<1> HIDE DEF ev
<1>3. /\ Len(b) \in Nat /\ Len(pos) \in Nat /\ pos \in Block /\ chain \in Block
      /\ crumbs # <<>> => End \in Block /\ Len(End) \in Nat
  BY LenBlock, SentBlocks DEF IInv, Typed
<1>4. /\ crumbs # <<>> => IsPrefix(pos, End)
      /\ kind = "Apply" => crumbs # <<>> /\ pos = End
  BY <1>1 DEF IInv, CrumbPart
\* The event follows End.
<1>5. /\ crumbs # <<>> => Follows(End, ev) /\ Len(b) <= Len(End) + 1
      /\ crumbs # <<>> => IsPrefix(End, b) \/ IsPrefix(b, End)
  <2>1. CASE kind = "Apply"
    BY <1>2, <1>3, <1>4, <2>1 DEF Follows
  <2>2. CASE kind = "Reset"
    <3>1. crumbs # <<>> => IsPrefix(b, End) /\ Len(b) <= Len(End)
      BY <1>3, <1>4, <2>2, PrefixOrder
    <3> QED BY <1>2, <1>3, <2>2, <3>1 DEF Follows
  <2> QED BY <2>1, <2>2
<1>6. /\ crumbs' \in Seq(Sound) /\ Len(crumbs') <= MaxCrumbs /\ crumbs' # <<>> /\ End' = b
      /\ \A i \in DOMAIN crumbs' : /\ crumbs'[i].slot = Len(crumbs'[i].hash)
                                   /\ crumbs'[i].slot = crumbs'[1].slot - i + 1
                                   /\ IsPrefix(crumbs'[i].hash, b)
  BY <1>1, <1>5, TrackIs DEF IInv, End
<1>7. /\ port \in Seq(Event) /\ Len(port) \in Nat /\ DOMAIN port = 1..Len(port)
      /\ port' \in Seq(Event) /\ Len(port') = Len(port) + 1 /\ port' # <<>>
      /\ port'[Len(port) + 1] = ev /\ \A j \in 1..Len(port) : port'[j] = port[j]
      /\ DOMAIN port' = 1..(Len(port) + 1)
  <2>1. port \in Seq(Event)
    BY DEF IInv, Typed
  <2>2. /\ port' \in Seq(Event) /\ Len(port') = Len(port) + 1 /\ port' # <<>>
        /\ port'[Len(port) + 1] = ev /\ \A j \in 1..Len(port) : port'[j] = port[j]
    BY <1>1, <1>2, <2>1, AppendProperties
  <2> QED BY <2>1, <2>2
<1>8. Typed'
  <2>1. Len(port') <= PortSize
    BY <1>1, <1>7, Sizes
  <2> QED BY <1>1, <1>3, <1>6, <1>7, <2>1 DEF IInv, Typed
<1>9. CrumbPart'
  <2>1. IsPrefix(b, b)
    BY PrefixOrder
  <2> QED BY <1>1, <1>6, <2>1 DEF CrumbPart
<1>10. PortPart'
  <2>1. ASSUME NEW j \in 1..Len(port)
        PROVE  Follows(port'[j].block, port'[j + 1])
    <3>1. CASE j < Len(port)
      <4>1. j \in 1..(Len(port) - 1) /\ port'[j] = port[j] /\ port'[j + 1] = port[j + 1]
        BY <1>7, <2>1, <3>1
      <4> QED BY <4>1 DEF IInv, PortPart
    <3>2. CASE j = Len(port)
      <4>1. port # <<>> /\ port'[j] = port[Len(port)] /\ port'[j + 1] = ev
        BY <1>7, <2>1, <3>2
      <4>2. crumbs # <<>> /\ port'[j].block = End
        BY <4>1 DEF IInv, PortPart
      <4>3. Follows(End, ev)
        BY <1>5, <4>2
      <4> QED BY <4>1, <4>2, <4>3, Zenon
    <3>3. j < Len(port) \/ j = Len(port)
      <4>1. Len(port) \in Nat /\ j \in 1..Len(port)
        BY <1>7, <2>1
      <4> QED BY <4>1
    <3> QED BY <3>1, <3>2, <3>3, Zenon
  <2>2. crumbs' # <<>> /\ port'[Len(port')].block = End'
    BY <1>2, <1>6, <1>7
  <2> QED BY <1>7, <2>1, <2>2 DEF PortPart
<1>11. StartPart'
  BY <1>6 DEF StartPart
<1>12. ASSUME port # <<>> PROVE HistoryPart'
  <2>1. 1 \in DOMAIN port /\ port'[1] = port[1] /\ crumbs # <<>>
    BY <1>7, <1>12 DEF IInv, PortPart
  <2>2. Here = port[1].block /\ Here' = port[1].block
    BY <1>7, <1>12, <2>1 DEF Here
  <2>3. /\ Gapless(history) /\ Below(history, Here, marks)
        /\ port[1].kind = "Apply" =>
             history # <<>> /\ history[Len(history)].slot = Len(port[1].block) - 1
        /\ port[1].kind = "Reset" /\ history # <<>> =>
             history[Len(history)].slot >= Len(port[1].block)
    BY <1>12, <2>1 DEF IInv, HistoryPart
  <2>4. Gapless(history') /\ Below(history', Here', marks') /\ history' = history
    BY <1>1, <2>2, <2>3
  <2> QED BY <1>7, <2>1, <2>3, <2>4 DEF HistoryPart
<1>13. ASSUME port = <<>> PROVE HistoryPart'
  <2>1. Len(port) = 0 /\ port'[1] = ev /\ Here' = b
    BY <1>2, <1>7, <1>13 DEF Here
  <2>2. CASE crumbs # <<>>
    <3>1. /\ history # <<>> /\ history[Len(history)].slot = Len(End)
          /\ Below(history, End, marks) /\ Gapless(history) /\ history \in Seq(Sound)
      BY <1>13, <2>2 DEF IInv, HistoryPart, Here, Typed
    <3>2. Below(history, b, marks)
      BY <1>2, <1>3, <1>5, <2>2, <3>1, BelowFollows
    <3>3. kind = "Apply" => history[Len(history)].slot = Len(b) - 1
      BY <1>3, <1>4, <2>2, <3>1
    <3>4. kind = "Reset" => history[Len(history)].slot >= Len(b)
      BY <1>3, <1>4, <2>2, <3>1, PrefixOrder
    <3>5. Gapless(history') /\ Below(history', Here', marks') /\ history' = history
      BY <1>1, <2>1, <3>1, <3>2
    <3> QED BY <1>2, <1>7, <2>1, <3>1, <3>3, <3>4, <3>5 DEF HistoryPart
  <2>3. CASE crumbs = <<>>
    <3>1. kind = "Reset" /\ b = pos /\ (history = <<>> \/ history = <<point>>)
          /\ IsPrefix(pos, point.hash)
      BY <1>1, <1>4, <2>3 DEF IInv, StartPart
    <3>2. point.slot \in Nat /\ point.hash \in Block /\ Len(point.hash) <= point.slot
          /\ Len(point.hash) \in Nat
      BY SoundIs, LenBlock DEF IInv, Typed
    <3>3. Len(pos) <= Len(point.hash) /\ (Len(point.hash) <= Len(pos) => point.hash = pos)
      BY <1>3, <3>1, <3>2, PrefixOrder
    <3>4. history # <<>> => history[Len(history)].slot >= Len(b)
      BY <1>3, <3>1, <3>2, <3>3
    <3>5. Below(history, b, marks)
      <4>1. ASSUME NEW i \in DOMAIN history, history[i].slot <= Len(b)
            PROVE  IsPrefix(history[i].hash, b)
        <5>1. history[i] = point
          BY <3>1, <4>1
        <5>2. point.hash = b
          BY <1>3, <3>1, <3>2, <3>3, <4>1, <5>1
        <5> QED BY <5>1, <5>2, PrefixOrder
      <4> QED BY <4>1 DEF Below
    <3>6. Gapless(history)
      BY DEF IInv, HistoryPart
    <3>7. Gapless(history') /\ Below(history', Here', marks') /\ history' = history
      BY <1>1, <2>1, <3>5, <3>6
    <3> QED BY <1>2, <1>7, <2>1, <3>1, <3>4, <3>7 DEF HistoryPart
  <2> QED BY <2>2, <2>3
<1>14. FilePart'
  <2> SUFFICES ASSUME marks = {} PROVE FilePart'
    BY <1>1 DEF FilePart
  <2>1. Base' = Base /\ Base \in Sound /\ Base.hash \in Block
    BY <1>1, Elements, SoundIs DEF Base, IInv, Typed
  <2>2. Sent' \subseteq Sent \cup {b} /\ Sent \subseteq Block
    <3>1. \A j \in DOMAIN port' : port'[j].block = b \/ port'[j].block \in Sent
      <4>1. ASSUME NEW j \in DOMAIN port' PROVE port'[j].block = b \/ port'[j].block \in Sent
        <5>1. CASE j \in 1..Len(port)
          BY <1>7, <5>1 DEF Sent
        <5>2. CASE j = Len(port) + 1
          BY <1>2, <1>7, <5>2
        <5> QED BY <1>7, <4>1, <5>1, <5>2
      <4> QED BY <4>1
    <3>2. End' = b /\ Sent \subseteq Block
      BY <1>6, SentBlocks DEF IInv
    <3>3. Sent' = {port'[j].block : j \in DOMAIN port'} \cup (IF crumbs' # <<>> THEN {End'} ELSE {})
      BY DEF Sent
    <3> QED BY <3>1, <3>2, <3>3
  <2>3. IsPrefix(Base.hash, b)
    <3>1. IsPrefix(Base.hash, pos)
      BY <1>1 DEF IInv, FilePart
    <3> QED BY <1>3, <2>1, <3>1, PrefixOrder
  <2>4. ASSUME NEW x \in Sent PROVE Holds(x, b)
    <3>1. Holds(x, pos)
      BY <1>1 DEF IInv, FilePart
    <3>2. ASSUME NEW t \in Block, IsPrefix(t, pos) PROVE IsPrefix(t, b)
      BY <1>3, <3>2, PrefixOrder
    <3> QED BY <3>1, <3>2 DEF Holds
  <2>5. Len(b) <= Len(chain) /\ Holds(b, chain) /\ Holds(b, b)
    <3>1. ASSUME NEW t \in Block, IsPrefix(t, b) PROVE IsPrefix(t, chain)
      BY <1>3, <3>1, PrefixOrder
    <3> QED BY <1>3, <3>1, PrefixOrder DEF Holds
  <2>6. \A x \in Sent' : /\ Len(x) <= Len(chain) /\ Holds(x, chain)
                         /\ IsPrefix(Base.hash, x) /\ Holds(x, b)
    BY <2>2, <2>3, <2>4, <2>5 DEF IInv, FilePart
  <2>7. ASSUME NEW i \in DOMAIN port', NEW j \in DOMAIN port', i < j
        PROVE  Holds(port'[i].block, port'[j].block)
    <3>1. i \in 1..Len(port) /\ port'[i] = port[i]
      BY <1>7, <2>7
    <3>2. CASE j = Len(port) + 1
      <4>1. port[i].block \in Sent /\ port'[j].block = b
        BY <1>2, <1>7, <3>1, <3>2 DEF Sent
      <4> QED BY <2>4, <3>1, <4>1
    <3>3. CASE j \in 1..Len(port)
      <4>1. port'[j] = port[j] /\ j \in DOMAIN port /\ i \in DOMAIN port
        BY <1>7, <3>1, <3>3
      <4> QED BY <2>7, <3>1, <4>1 DEF IInv, FilePart
    <3> QED BY <1>7, <3>2, <3>3
  <2>8. history = <<>> => port'[1].block = point.hash
    <3>1. CASE port # <<>>
      <4>1. port'[1] = port[1]
        BY <1>7, <3>1
      <4> QED BY <3>1, <4>1 DEF IInv, FilePart
    <3>2. CASE port = <<>>
      <4>1. history = <<>> => crumbs = <<>>
        BY <3>2 DEF IInv, HistoryPart
      <4>2. crumbs = <<>> => kind = "Reset" /\ b = point.hash
        BY <1>1, <1>4 DEF IInv, FilePart
      <4>3. port'[1] = ev
        BY <1>7, <3>2
      <4> QED BY <1>2, <4>1, <4>2, <4>3
    <3> QED BY <3>1, <3>2
  <2>9. /\ \A i \in DOMAIN file : Deep(file[i], chain)
        /\ \A i \in DOMAIN job : Deep(job[i].at, chain)
        /\ Deep(point, chain) /\ Deep(Base, chain)
    BY <1>1 DEF IInv, FilePart
  <2> QED BY <1>1, <1>6, <2>1, <2>3, <2>6, <2>7, <2>8, <2>9 DEF FilePart
<1> QED BY <1>8, <1>9, <1>10, <1>11, <1>12, <1>13, <1>14 DEF IInv

\* Both answers of chain-sync send such a block.
LEMMA SourceSends ==
  ASSUME IInv, RollBackward \/ RollForward
  PROVE  IInv'
<1>1. chain \in Block /\ pos \in Block /\ Len(chain) \in Nat /\ Len(pos) \in Nat
  BY LenBlock DEF IInv, Typed
<1>2. CASE RollBackward
  <2>1. ~told /\ Emit("Reset", pos) /\ phase = "up"
    BY <1>2 DEF RollBackward, Emit
  <2>2. IsPrefix(pos, pos) /\ IsPrefix(pos, chain)
    BY <1>1, <2>1, PrefixOrder DEF IInv, CrumbPart
  <2> QED BY <1>1, <2>1, <2>2, EmitKeeps
<1>3. CASE RollForward
  <2> DEFINE b == Prefix(Len(pos) + 1)
  <2>1. told /\ Len(pos) + 1 <= Len(chain) /\ Emit("Apply", b) /\ phase = "up"
    BY <1>1, <1>3 DEF RollForward, Emit
  <2>2. IsPrefix(pos, chain)
    BY <2>1 DEF IInv, CrumbPart
  <2>3. /\ b \in Block /\ IsPrefix(b, chain) /\ Len(b) = Len(pos) + 1 /\ IsPrefix(pos, b)
    BY <1>1, <2>1, <2>2, FirstOf DEF Prefix
  <2> HIDE DEF b
  <2> QED BY <2>1, <2>3, EmitKeeps
<1> QED BY <1>2, <1>3

-----------------------------------------------------------------------------
(* The sink takes an event *)

\* With an event in the port: where the sink goes, and what it leaves there.
LEMMA HereIs ==
  ASSUME IInv, port # <<>>
  PROVE  /\ port \in Seq(Event) /\ Len(port) \in Nat /\ Len(port) > 0 /\ DOMAIN port = 1..Len(port)
         /\ Head(port) = port[1] /\ port[1] \in Event /\ Here = Head(port).block
         /\ Here \in Block /\ Len(Here) \in Nat /\ Here \in Sent /\ crumbs # <<>> /\ phase # "down"
         /\ Tail(port) \in Seq(Event) /\ Len(Tail(port)) = Len(port) - 1
         /\ \A j \in 1..(Len(port) - 1) : Tail(port)[j] = port[j + 1]
<1>1. port \in Seq(Event)
  BY DEF IInv, Typed
<1>2. /\ Head(port) \in Event /\ Tail(port) \in Seq(Event) /\ Len(Tail(port)) = Len(port) - 1
      /\ \A j \in 1..Len(Tail(port)) : Tail(port)[j] = port[j + 1]
  BY <1>1, HeadTailProperties
<1>3. Len(port) \in Nat /\ Len(port) > 0 /\ DOMAIN port = 1..Len(port) /\ Head(port) = port[1]
  BY <1>1
<1>4. Here = Head(port).block /\ Here \in Sent
  BY <1>3 DEF Here, Sent
<1>5. Here \in Block /\ Len(Here) \in Nat
  BY <1>2, <1>4, LenBlock DEF Event
<1>6. crumbs # <<>> /\ phase # "down"
  BY DEF IInv, PortPart, Typed
<1> QED BY <1>1, <1>2, <1>3, <1>4, <1>5, <1>6

\* A history that ends at the event taken is one the next event connects to.
LEMMA SinkMoves ==
  ASSUME IInv, port # <<>>, port' = Tail(port),
         UNCHANGED <<chain, phase, point, pos, told, crumbs>>,
         marks \subseteq marks', marks' \subseteq {"deep", "empty", "astray"},
         history' \in Seq(Sound), history' # <<>>, Len(history') <= MaxHistory,
         Gapless(history'), history'[Len(history')].slot = Len(Here),
         Below(history', Here, marks'),
         file' \in Seq(Sound), Len(file') <= 1, job' \in Seq(Job), Len(job') <= 1,
         marks' = {} =>
           /\ \A i \in DOMAIN file' : Deep(file'[i], chain)
           /\ \A i \in DOMAIN job' : Deep(job'[i].at, chain)
           /\ Deep(history'[1], chain)
           /\ \A x \in Block : IsPrefix(Base.hash, x) /\ Holds(Here, x) =>
                                 IsPrefix(history'[1].hash, x)
  PROVE  IInv'
<1>1. /\ Len(port) \in Nat /\ Len(port) > 0 /\ DOMAIN port = 1..Len(port)
      /\ Here = port[1].block /\ Here \in Block /\ Here \in Sent /\ crumbs # <<>> /\ phase # "down"
      /\ port' \in Seq(Event) /\ Len(port') = Len(port) - 1 /\ DOMAIN port' = 1..(Len(port) - 1)
      /\ \A j \in 1..(Len(port) - 1) : port'[j] = port[j + 1]
  BY HereIs
<1>2. /\ port[Len(port)].block = End
      /\ \A j \in 1..(Len(port) - 1) : Follows(port[j].block, port[j + 1])
      /\ End' = End
  BY DEF IInv, PortPart, End
<1>3. Typed'
  <2>1. Len(port') <= PortSize
    BY <1>1, Sizes DEF IInv, Typed
  <2> QED BY <1>1, <2>1 DEF IInv, Typed
<1>4. CrumbPart'
  BY DEF IInv, CrumbPart, End
<1>5. port' # <<>> => Len(port) - 1 \in 1..(Len(port) - 1)
  BY <1>1
<1>6. PortPart'
  <2>1. ASSUME NEW j \in 1..(Len(port') - 1)
        PROVE  Follows(port'[j].block, port'[j + 1])
    <3>1. /\ j + 1 \in 1..(Len(port) - 1) /\ port'[j] = port[j + 1]
          /\ port'[j + 1] = port[(j + 1) + 1]
      BY <1>1, <2>1
    <3> QED BY <1>2, <3>1
  <2>2. port' # <<>> => port'[Len(port')].block = End'
    <3>1. port' # <<>> => port'[Len(port')] = port[Len(port)]
      BY <1>1, <1>5
    <3> QED BY <1>2, <3>1
  <2> QED BY <1>1, <2>1, <2>2 DEF PortPart
<1>7. StartPart'
  BY <1>1 DEF StartPart
<1>8. ASSUME port' # <<>>
      PROVE  /\ port'[1] = port[2] /\ port[2] \in Event /\ Follows(Here, port[2]) /\ 2 \in DOMAIN port
  <2>1. 1 \in 1..(Len(port) - 1)
    BY <1>1, <1>8
  <2>2. port'[1] = port[1 + 1] /\ Follows(port[1].block, port[1 + 1]) /\ 1 + 1 \in DOMAIN port
    BY <1>1, <1>2, <2>1
  <2> QED BY <1>1, <2>2, Elements DEF IInv
<1>9. ASSUME port' # <<>> PROVE HistoryPart'
  <2>1. Here' = port[2].block
    BY <1>8, <1>9 DEF Here
  <2>2. Below(history', Here', marks')
    BY <1>1, <1>8, <1>9, <2>1, BelowFollows
  <2>3. port[2].kind = "Apply" => history'[Len(history')].slot = Len(port[2].block) - 1
    <3>1. Len(Here) \in Nat
      BY <1>1, LenBlock
    <3> QED BY <1>8, <1>9, <3>1 DEF Follows
  <2>4. port[2].kind = "Reset" => history'[Len(history')].slot >= Len(port[2].block)
    <3>1. Len(Here) \in Nat /\ port[2].block \in Block /\ Len(port[2].block) \in Nat
      BY <1>1, <1>8, <1>9, LenBlock DEF Event
    <3> QED BY <1>1, <1>8, <1>9, <3>1, PrefixOrder DEF Follows
  <2> QED BY <1>8, <1>9, <2>2, <2>3, <2>4 DEF HistoryPart
<1>10. ASSUME port' = <<>> PROVE HistoryPart'
  <2>1. Len(port) = 1
    <3>1. Len(port') = 0
      <4>1. Len(<<>>) = 0
        OBVIOUS
      <4> QED BY <1>10, <4>1, Zenon
    <3>2. Len(port) - 1 = 0 /\ Len(port) \in Nat
      BY <1>1, <3>1
    <3> QED BY <3>2
  <2>2. Here = End /\ Here' = End
    BY <1>1, <1>2, <1>10, <2>1 DEF Here
  <2>3. Below(history', Here', marks') /\ history'[Len(history')].slot = Len(End')
    BY <1>2, <2>2
  <2> QED BY <1>10, <2>3 DEF HistoryPart
<1>11. FilePart'
  <2> SUFFICES ASSUME marks' = {} PROVE FilePart'
    BY DEF FilePart
  <2>1. marks = {} /\ Base' = history'[1]
    BY DEF Base
  <2>2. ASSUME NEW x \in Sent'
        PROVE  x \in Sent /\ Holds(Here, x)
    <3>1. CASE x = End
      BY <1>1, <2>1, <3>1, SentHoldsEnd DEF Sent
    <3>2. CASE \E j \in DOMAIN port' : x = port'[j].block
      <4>1. PICK j \in 1..(Len(port) - 1) : x = port'[j].block
        BY <1>1, <3>2
      <4>2. x = port[j + 1].block /\ j + 1 \in DOMAIN port /\ 1 \in DOMAIN port /\ 1 < j + 1
        BY <1>1, <4>1
      <4>3. x \in Sent
        BY <4>2 DEF Sent
      <4>4. Holds(port[1].block, port[j + 1].block)
        BY <2>1, <4>2 DEF IInv, FilePart
      <4> QED BY <1>1, <4>2, <4>3, <4>4
    <3> QED BY <1>1, <1>2, <3>1, <3>2 DEF Sent
  <2>3. ASSUME NEW x \in Sent'
        PROVE  /\ Len(x) <= Len(chain) /\ Holds(x, chain)
               /\ IsPrefix(history'[1].hash, x) /\ (phase = "up" => Holds(x, pos))
    <3>1. x \in Sent /\ Holds(Here, x) /\ x \in Block
      BY <2>2, SentBlocks DEF IInv
    <3> QED BY <2>1, <3>1 DEF IInv, FilePart
  <2>4. phase = "up" => IsPrefix(history'[1].hash, pos)
    <3>1. phase = "up" => IsPrefix(Base.hash, pos) /\ Holds(Here, pos)
      BY <1>1, <2>1 DEF IInv, FilePart
    <3> QED BY <3>1 DEF IInv, Typed
  <2>5. ASSUME NEW i \in DOMAIN port', NEW j \in DOMAIN port', i < j
        PROVE  Holds(port'[i].block, port'[j].block)
    <3>1. /\ port'[i] = port[i + 1] /\ port'[j] = port[j + 1]
          /\ i + 1 \in DOMAIN port /\ j + 1 \in DOMAIN port /\ i + 1 < j + 1
      BY <1>1, <2>5
    <3> QED BY <2>1, <3>1 DEF IInv, FilePart
  <2>6. Deep(point, chain)
    BY <1>1, <2>1 DEF IInv, FilePart
  <2> QED BY <1>1, <2>1, <2>3, <2>4, <2>5, <2>6 DEF FilePart
<1> QED BY <1>3, <1>4, <1>6, <1>7, <1>9, <1>10, <1>11 DEF IInv

\* What is Depth blocks back from a block of the path is deep.
LEMMA DeepBelow ==
  ASSUME IInv, marks = {}, NEW x \in Sent, NEW p \in Sound,
         p.slot = Len(p.hash), IsPrefix(p.hash, x), p.slot + Depth <= Len(x) + 1
  PROVE  Deep(p, chain)
<1>1. Len(x) <= Len(chain) /\ Holds(x, chain)
  BY DEF IInv, FilePart
<1>2. /\ p.hash \in Block /\ p.slot \in Nat /\ Len(x) \in Nat /\ Len(chain) \in Nat
      /\ Depth \in Nat
  BY SoundIs, SentBlocks, LenBlock, Sizes DEF IInv, Typed
<1> QED BY <1>1, <1>2 DEF Holds, Deep

\* Appending a block keeps a history gapless and below it; so does trimming.
LEMMA Applied ==
  ASSUME IInv, port # <<>>, Head(port).kind = "Apply"
  PROVE  LET h == Trim(Append(history, PointOf(Here)))
         IN  /\ h \in Seq(Sound) /\ h # <<>> /\ Len(h) \in 1..MaxHistory /\ Gapless(h)
             /\ h[Len(h)].slot = Len(Here) /\ Below(h, Here, marks)
             /\ \A i \in DOMAIN h : i > 1 => IsPrefix(h[i].hash, Here)
             /\ \/ history # <<>> /\ h[1] = history[1]
                \/ /\ Len(h) = MaxHistory /\ h[1].slot = Len(h[1].hash)
                   /\ IsPrefix(h[1].hash, Here)
<1> DEFINE y == Here
           a == Append(history, PointOf(y))
           h == Trim(a)
           n == Len(history)
<1>1. y \in Block /\ Len(y) \in Nat /\ PointOf(y) \in Sound
      /\ PointOf(y).slot = Len(y) /\ PointOf(y).hash = y
  BY HereIs, PointIs
<1>2. /\ history # <<>> /\ history[n].slot = Len(y) - 1
      /\ Gapless(history) /\ Below(history, y, marks)
      /\ history \in Seq(Sound) /\ n <= MaxHistory
  BY HereIs DEF IInv, HistoryPart, Typed
<1>3. n \in Nat /\ n > 0 /\ DOMAIN history = 1..n /\ 1 \in DOMAIN history /\ n \in DOMAIN history
      /\ history[1].slot \in Nat
  BY <1>2, SoundIs
<1>4. /\ a \in Seq(Sound) /\ Len(a) = n + 1 /\ DOMAIN a = 1..(n + 1) /\ a[n + 1] = PointOf(y)
      /\ \A i \in 1..n : a[i] = history[i]
  <2>1. /\ a \in Seq(Sound) /\ Len(a) = n + 1 /\ a[n + 1] = PointOf(y)
        /\ \A i \in 1..n : a[i] = history[i]
    BY <1>1, <1>2, AppendProperties
  <2> HIDE DEF a
  <2> QED BY <2>1
<1> HIDE DEF y, a, n
<1>5. history[1].slot + n = Len(y)
  BY <1>1, <1>2, <1>3 DEF Gapless
<1>6. ASSUME NEW i \in DOMAIN a
      PROVE  /\ a[i].slot = a[1].slot + i - 1
             /\ i > 1 => a[i].slot = Len(a[i].hash)
             /\ i > 1 \/ "astray" \notin marks => IsPrefix(a[i].hash, y)
  <2>0. a[1] = history[1]
    BY <1>3, <1>4
  <2>1. CASE i \in 1..n
    <3>1. a[i] = history[i] /\ i \in DOMAIN history /\ i \in Nat /\ i <= n
      BY <1>3, <1>4, <2>1
    <3>2. history[i].slot = history[1].slot + i - 1
          /\ (i > 1 => history[i].slot = Len(history[i].hash))
      BY <1>2, <3>1 DEF Gapless
    <3>3. history[i].slot <= Len(y)
      BY <1>3, <1>5, <3>1, <3>2
    <3> QED BY <1>2, <2>0, <3>1, <3>2, <3>3 DEF Below
  <2>2. CASE i = n + 1
    <3>1. a[i].slot = Len(y) /\ a[i].hash = y
      BY <1>1, <1>4, <2>2
    <3>2. IsPrefix(y, y)
      BY <1>1, PrefixOrder
    <3> QED BY <1>3, <1>5, <2>0, <2>2, <3>1, <3>2
  <2> QED BY <1>3, <1>4, <2>1, <2>2
<1>7. CASE ~(Len(a) > MaxHistory)
  <2>1. h = a
    BY <1>7 DEF Trim
  <2>2. Gapless(h) /\ Below(h, y, marks)
    BY <1>6, <2>1 DEF Gapless, Below
  <2>3. h # <<>> /\ Len(h) \in 1..MaxHistory /\ h[Len(h)].slot = Len(y)
    BY <1>1, <1>3, <1>4, <1>7, <2>1, Sizes
  <2>4. \A i \in DOMAIN h : i > 1 => IsPrefix(h[i].hash, y)
    BY <1>6, <2>1
  <2>5. history # <<>> /\ h[1] = history[1]
    BY <1>2, <1>3, <1>4, <2>1
  <2> HIDE DEF h
  <2> QED BY <1>4, <2>1, <2>2, <2>3, <2>4, <2>5 DEF h, a, y
<1>8. CASE Len(a) > MaxHistory
  <2>1. h = Tail(a) /\ n = MaxHistory
    <3>1. h = Tail(a)
      BY <1>8 DEF Trim
    <3>2. n <= MaxHistory /\ MaxHistory \in Nat /\ n \in Nat /\ n + 1 > MaxHistory
      BY <1>2, <1>3, <1>4, <1>8, Sizes
    <3>3. n = MaxHistory
      BY <3>2
    <3> QED BY <3>1, <3>3
  <2>2. /\ h \in Seq(Sound) /\ Len(h) = n /\ DOMAIN h = 1..n
        /\ \A i \in 1..n : h[i] = a[i + 1] /\ i + 1 \in DOMAIN a
    <3>1. a # <<>>
      BY <1>3, <1>4
    <3>2. /\ Tail(a) \in Seq(Sound) /\ Len(Tail(a)) = Len(a) - 1
          /\ \A i \in 1..Len(Tail(a)) : Tail(a)[i] = a[i + 1]
      BY <1>4, <3>1, HeadTailProperties
    <3>3. Len(Tail(a)) = n
      BY <1>3, <1>4, <3>2
    <3> HIDE DEF h
    <3> QED BY <1>3, <1>4, <2>1, <3>2, <3>3
  <2> HIDE DEF h
  <2>3. ASSUME NEW i \in DOMAIN h
        PROVE  /\ h[i].slot = h[1].slot + i - 1
               /\ h[i].slot = Len(h[i].hash)
               /\ IsPrefix(h[i].hash, y)
    <3>1. /\ h[i] = a[i + 1] /\ i + 1 \in DOMAIN a /\ i + 1 > 1 /\ i \in Nat
          /\ h[1] = a[1 + 1] /\ 1 + 1 \in DOMAIN a /\ 1 + 1 > 1
      BY <1>3, <2>2, <2>3
    <3>2. a[i + 1].slot = a[1].slot + (i + 1) - 1 /\ a[1 + 1].slot = a[1].slot + (1 + 1) - 1
      BY <1>6, <3>1
    <3>3. a[1].slot \in Nat
      BY <1>3, <1>4
    <3>4. h[i].slot = h[1].slot + i - 1
      BY <3>1, <3>2, <3>3
    <3>5. a[i + 1].slot = Len(a[i + 1].hash) /\ IsPrefix(a[i + 1].hash, y)
      BY <1>6, <3>1
    <3> QED BY <3>1, <3>4, <3>5
  <2>4. Gapless(h) /\ Below(h, y, marks)
    BY <2>3 DEF Gapless, Below
  <2>5. h # <<>> /\ Len(h) \in 1..MaxHistory /\ h[Len(h)].slot = Len(y)
    <3>1. h[n] = a[n + 1] /\ n \in 1..MaxHistory
      BY <1>3, <2>1, <2>2
    <3> QED BY <1>1, <1>3, <1>4, <2>2, <3>1
  <2>6. 1 \in DOMAIN h /\ Len(h) = MaxHistory
    BY <1>3, <2>1, <2>2
  <2> QED BY <2>2, <2>3, <2>4, <2>5, <2>6 DEF h, a, y
<1> QED BY <1>7, <1>8

\* An applied block ends the history; what is saved is Depth back from it.
LEMMA ApplyKeeps == ASSUME IInv, NEW due \in BOOLEAN, Apply(due) PROVE IInv'
<1> DEFINE h == Trim(Append(history, PointOf(Head(port).block)))
<1>1. /\ port # <<>> /\ Head(port).kind = "Apply" /\ port' = Tail(port) /\ history' = h
      /\ job' = IF due /\ job = <<>> THEN <<[at |-> Saved(h), mixed |-> FALSE]>> ELSE job
      /\ UNCHANGED <<chain, phase, point, pos, told, crumbs, file, marks>>
  BY DEF Apply, Recv
<1>2. Here = Head(port).block /\ Here \in Sent /\ Here \in Block /\ Len(Here) \in Nat
      /\ phase # "down"
  BY <1>1, HereIs
<1>3. /\ h \in Seq(Sound) /\ h # <<>> /\ Len(h) \in 1..MaxHistory /\ Gapless(h)
      /\ h[Len(h)].slot = Len(Here) /\ Below(h, Here, marks)
      /\ \A i \in DOMAIN h : i > 1 => IsPrefix(h[i].hash, Here)
      /\ \/ history # <<>> /\ h[1] = history[1]
         \/ /\ Len(h) = MaxHistory /\ h[1].slot = Len(h[1].hash)
            /\ IsPrefix(h[1].hash, Here)
  BY <1>1, <1>2, Applied
<1> HIDE DEF h
<1>4. /\ Len(h) \in Nat /\ DOMAIN h = 1..Len(h) /\ 1 \in DOMAIN h
      /\ \A i \in DOMAIN h : h[i] \in Sound /\ h[i].slot \in Nat
      /\ Depth \in Nat /\ Depth > 0 /\ MaxHistory \in Nat /\ Depth <= MaxHistory
  <2>1. \A i \in DOMAIN h : h[i] \in Sound
    BY <1>3
  <2> QED BY <1>3, <2>1, SoundIs, Sizes
\* A snapshot that is Depth back.
<1>5. ASSUME NEW i \in DOMAIN h, i + Depth <= Len(h) + 1
      PROVE  h[i].slot + Depth <= Len(Here) + 1
  <2>1. \A j \in DOMAIN h : h[j].slot = h[1].slot + j - 1
    BY <1>3 DEF Gapless
  <2>2. Len(h) \in DOMAIN h /\ Len(h) \in Nat /\ i \in Nat /\ h[1].slot \in Nat
    <3>1. Len(h) \in Nat /\ DOMAIN h = 1..Len(h) /\ 1 \in DOMAIN h
      BY <1>4
    <3>2. Len(h) \in DOMAIN h
      BY <3>1
    <3>3. i \in Nat
      BY <3>1
    <3>4. h[1].slot \in Nat
      BY <1>4
    <3> QED BY <3>1, <3>2, <3>3, <3>4
  <2>3. Len(Here) = h[1].slot + Len(h) - 1
    BY <1>3, <2>1, <2>2
  <2>4. h[i].slot = h[1].slot + i - 1
    BY <2>1
  <2>5. h[1].slot + i - 1 + Depth <= h[1].slot + Len(h) - 1 + 1
    BY <1>4, <1>5, <2>2
  <2> QED BY <2>3, <2>4, <2>5
<1>6. ASSUME marks = {}
      PROVE  /\ Deep(h[1], chain)
             /\ \A x \in Block : IsPrefix(Base.hash, x) /\ Holds(Here, x) => IsPrefix(h[1].hash, x)
  <2>1. CASE history # <<>> /\ h[1] = history[1]
    <3>1. Base = h[1] /\ Deep(Base, chain)
      BY <1>2, <1>6, <2>1 DEF Base, IInv, FilePart
    <3> QED BY <3>1
  <2>2. CASE Len(h) = MaxHistory /\ h[1].slot = Len(h[1].hash) /\ IsPrefix(h[1].hash, Here)
    <3>1. h[1].slot + Depth <= Len(Here) + 1
      BY <1>4, <1>5, <2>2
    <3>2. Deep(h[1], chain)
      BY <1>2, <1>4, <1>6, <2>2, <3>1, DeepBelow
    <3>3. h[1].hash \in Block
      BY <1>4, SoundIs
    <3> QED BY <2>2, <3>1, <3>2, <3>3 DEF Holds
  <2> QED BY <1>3, <2>1, <2>2
<1>7. Saved(h) \in Sound /\ (marks = {} => Deep(Saved(h), chain))
  <2>1. CASE Len(h) > Depth
    <3> DEFINE k == Len(h) - Depth + 1
    <3>1. k \in DOMAIN h /\ k > 1 /\ k + Depth <= Len(h) + 1 /\ Saved(h) = h[k]
      BY <1>4, <2>1 DEF Saved
    <3> HIDE DEF k
    <3>2. h[k].slot + Depth <= Len(Here) + 1 /\ h[k].slot = Len(h[k].hash)
          /\ IsPrefix(h[k].hash, Here)
      BY <1>3, <1>5, <3>1 DEF Gapless
    <3> QED BY <1>2, <1>4, <3>1, <3>2, DeepBelow
  <2>2. CASE ~(Len(h) > Depth)
    <3>1. Saved(h) = h[1]
      BY <2>2 DEF Saved
    <3> QED BY <1>4, <1>6, <3>1
  <2> QED BY <2>1, <2>2
<1>8. /\ job' \in Seq(Job) /\ Len(job') <= 1
      /\ marks = {} => \A i \in DOMAIN job' : Deep(job'[i].at, chain)
  <2>1. CASE due /\ job = <<>>
    <3> DEFINE j == [at |-> Saved(h), mixed |-> FALSE]
    <3>1. j \in Job /\ j.at = Saved(h) /\ job' = <<j>>
      BY <1>1, <1>7, <2>1 DEF Job
    <3> HIDE DEF j
    <3>2. <<j>> \in Seq(Job) /\ Len(<<j>>) = 1 /\ \A i \in DOMAIN <<j>> : <<j>>[i] = j
      BY <3>1
    <3> QED BY <1>7, <3>1, <3>2
  <2>2. CASE ~(due /\ job = <<>>)
    BY <1>1, <2>2 DEF IInv, Typed, FilePart
  <2> QED BY <2>1, <2>2
<1>9. /\ file \in Seq(Sound) /\ Len(file) <= 1
      /\ marks = {} => \A i \in DOMAIN file : Deep(file[i], chain)
      /\ marks \subseteq {"deep", "empty", "astray"}
  BY DEF IInv, Typed, FilePart
<1>10. /\ history' = h /\ marks' = marks /\ file' = file
       /\ Len(h) <= MaxHistory
  <2>1. history' = h /\ marks' = marks /\ file' = file
    BY <1>1
  <2>2. Len(h) <= MaxHistory
    BY <1>3, Sizes
  <2> QED BY <2>1, <2>2
<1> QED BY <1>1, <1>3, <1>6, <1>8, <1>9, <1>10, SinkMoves

\* A rollback within the history ends it at the block rolled back to: slots
\* have no gap, and the newest snapshot is not below that block.
LEMMA TruncateKeeps == ASSUME IInv, Truncate PROVE IInv'
<1> DEFINE y == Head(port).block
           old == {i \in DOMAIN history : history[i].slot <= Len(y)}
           k == Kept(Len(y))
<1>1. /\ port # <<>> /\ Head(port).kind = "Reset" /\ port' = Tail(port) /\ k > 0
      /\ history' = SubSeq(history, 1, k)
      /\ UNCHANGED <<chain, phase, point, pos, told, crumbs, job, file, marks>>
  BY DEF Truncate, Recv
<1>2. Here = y /\ y \in Block /\ Len(y) \in Nat /\ Head(port) = port[1] /\ phase # "down" /\ crumbs # <<>>
  BY <1>1, HereIs
<1>3. /\ history \in Seq(Sound) /\ Len(history) \in Nat /\ DOMAIN history = 1..Len(history)
      /\ Len(history) <= MaxHistory
      /\ \A i \in DOMAIN history : history[i] \in Sound /\ history[i].slot \in Nat
  BY Elements, SoundIs DEF IInv, Typed
<1>4. /\ Gapless(history) /\ Below(history, y, marks)
      /\ history # <<>> => history[Len(history)].slot >= Len(y)
  BY <1>1, <1>2 DEF IInv, HistoryPart
<1> HIDE DEF y
<1>5. /\ k \in 1..Len(history) /\ history # <<>> /\ history[k].slot <= Len(y)
      /\ \A i \in DOMAIN history : history[i].slot <= Len(y) => i <= k
  <2>1. k = IF old = {} THEN 0 ELSE Max(old)
    BY DEF Kept
  <2>2. old # {}
    BY <1>1, <2>1
  <2>3. old \subseteq 0..Len(history)
    BY <1>3
  <2>4. k \in old /\ \A i \in old : k >= i
    BY <1>3, <2>1, <2>2, <2>3, MaxIndex
  <2> HIDE DEF k
  <2>5. k \in DOMAIN history /\ history[k].slot <= Len(y)
    BY <2>4
  <2>6. ASSUME NEW i \in DOMAIN history, history[i].slot <= Len(y) PROVE i <= k
    <3>1. k >= i /\ k \in Nat /\ i \in Nat
      BY <1>3, <2>4, <2>5, <2>6
    <3> QED BY <3>1
  <2> QED BY <1>3, <2>5, <2>6
<1> HIDE DEF k, old
<1>6. history[k].slot = Len(y)
  <2>1. CASE k = Len(history)
    BY <1>2, <1>3, <1>4, <1>5, <2>1
  <2>2. CASE k < Len(history)
    <3> DEFINE j == k + 1
    <3>1. j \in DOMAIN history /\ ~(j <= k) /\ j = k + 1 /\ k \in Nat /\ k \in DOMAIN history
          /\ 1 \in DOMAIN history
      BY <1>3, <1>5, <2>2
    <3> HIDE DEF j
    <3>2. history[j].slot = history[1].slot + j - 1 /\ history[k].slot = history[1].slot + k - 1
      BY <1>4, <3>1 DEF Gapless
    <3>3. ~(history[j].slot <= Len(y)) /\ history[j].slot \in Nat /\ history[k].slot \in Nat
          /\ history[1].slot \in Nat
      BY <1>3, <1>5, <3>1
    <3> QED BY <1>2, <1>5, <3>1, <3>2, <3>3
  <2>3. k = Len(history) \/ k < Len(history)
    <3>1. Len(history) \in Nat /\ k \in 1..Len(history)
      BY <1>3, <1>5
    <3> QED BY <3>1
  <2> QED BY <2>1, <2>2, <2>3
<1>7. /\ history' \in Seq(Sound) /\ Len(history') = k /\ DOMAIN history' = 1..k
      /\ \A i \in 1..k : history'[i] = history[i] /\ i \in DOMAIN history
  <2>1. \A i \in 1..k : history[i] \in Sound /\ i \in DOMAIN history
    BY <1>3, <1>5
  <2>2. k \in Int /\ 1 <= k
    BY <1>3, <1>5
  <2>3. /\ history' \in Seq(Sound) /\ Len(history') = k - 1 + 1
        /\ \A i \in 1..(k - 1 + 1) : history'[i] = history[1 + i - 1]
    BY <1>1, <2>1, <2>2, SubSeqProperties, Z3
  <2>4. Len(history') = k /\ DOMAIN history' = 1..k
    BY <2>2, <2>3
  <2> QED BY <2>1, <2>2, <2>3, <2>4
<1>8. k \in Nat /\ k >= 1 /\ k <= MaxHistory
  BY <1>3, <1>5, Sizes
<1>9. history' # <<>> /\ Len(history') <= MaxHistory /\ history'[1] = history[1]
      /\ history'[Len(history')].slot = Len(y)
  BY <1>6, <1>7, <1>8
<1>10. Gapless(history') /\ Below(history', y, marks)
  BY <1>4, <1>7, <1>9 DEF Gapless, Below
<1>11. marks = {} => /\ \A i \in DOMAIN file : Deep(file[i], chain)
                     /\ \A i \in DOMAIN job : Deep(job[i].at, chain)
                     /\ Base = history'[1] /\ Deep(history'[1], chain)
  BY <1>2, <1>5, <1>9 DEF IInv, FilePart, Base
<1>12. file \in Seq(Sound) /\ Len(file) <= 1 /\ job \in Seq(Job) /\ Len(job) <= 1
       /\ marks \subseteq {"deep", "empty", "astray"}
  BY DEF IInv, Typed
<1>13. marks' = marks /\ file' = file /\ job' = job
  BY <1>1
<1> QED BY <1>1, <1>2, <1>7, <1>9, <1>10, <1>11, <1>12, <1>13, SinkMoves

\* What a rebuild takes for the hash is a block not above the slot.
LEMMA SlotInfoIs ==
  ASSUME Typed, NEW s \in Nat
  PROVE  SlotInfo(s) \in Block /\ Len(SlotInfo(s)) <= s
<1> DEFINE full == {n \in DOMAIN chain : n <= s /\ chain[n] \notin Empty}
<1>1. SlotInfo(s) = IF full = {} THEN <<>> ELSE Prefix(Max(full))
  BY DEF SlotInfo
<1>2. CASE full = {}
  <2>1. <<>> \in Block /\ Len(<<>>) = 0
    BY DEF Block
  <2> QED BY <1>1, <1>2, <2>1
<1>3. CASE full # {}
  <2>1. chain \in Block /\ Len(chain) \in Nat /\ DOMAIN chain = 1..Len(chain)
    BY DEF Typed, Block
  <2>2. full \subseteq 0..Len(chain)
    BY <2>1
  <2>3. Max(full) \in full
    BY <1>3, <2>1, <2>2, MaxIndex
  <2>4. PICK m \in 1..Len(chain) : m = Max(full) /\ m <= s
    BY <2>1, <2>3
  <2>5. SlotInfo(s) = Prefix(m)
    BY <1>1, <1>3, <2>4
  <2>6. m \in Int /\ m <= Len(chain) /\ ~(m < 0)
    BY <2>1, <2>4
  <2>7. Prefix(m) \in Block /\ Len(Prefix(m)) = m
    BY <2>1, <2>6, FirstOf DEF Prefix
  <2> QED BY <2>4, <2>5, <2>7
<1> QED BY <1>2, <1>3

\* Unmarked, the only rebuild is at the point a cold start began at: the first
\* snapshot of a history is before every block the sink reaches.
LEMMA RebuildKeeps == ASSUME IInv, Rebuild PROVE IInv'
<1> DEFINE y == Head(port).block
           new == [slot |-> Len(y), hash |-> SlotInfo(Len(y))]
<1>1. /\ port # <<>> /\ Head(port).kind = "Reset" /\ port' = Tail(port) /\ Kept(Len(y)) = 0
      /\ history' = <<new>>
      /\ file' \in IF job = <<>> THEN {<<new>>} ELSE {<<new>>, <<>>}
      /\ job' = IF job = <<>> THEN job ELSE <<[job[1] EXCEPT !.mixed = TRUE]>>
      /\ marks' = marks \cup (IF Len(y) # Len(new.hash) THEN {"empty"} ELSE {})
                        \cup (IF IsPrefix(new.hash, y) THEN {} ELSE {"astray"})
      /\ UNCHANGED <<chain, phase, point, pos, told, crumbs>>
  BY DEF Rebuild, Recv
<1>2. Here = y /\ y \in Block /\ Len(y) \in Nat /\ Here \in Sent /\ phase # "down"
      /\ y = port[1].block
  BY <1>1, HereIs
<1>3. /\ new \in Sound /\ new.slot = Len(y) /\ new.hash \in Block /\ new.hash = SlotInfo(Len(y))
  <2>1. SlotInfo(Len(y)) \in Block /\ Len(SlotInfo(Len(y))) <= Len(y)
    BY <1>2, SlotInfoIs DEF IInv
  <2> HIDE DEF y
  <2> QED BY <1>2, <2>1 DEF Sound, Point, Block
<1> HIDE DEF y, new
<1>4. marks' \subseteq {"deep", "empty", "astray"} /\ marks \subseteq marks'
  BY <1>1 DEF IInv, Typed
<1>5. /\ <<new>> \in Seq(Sound) /\ Len(<<new>>) = 1 /\ <<new>>[1] = new /\ <<new>> # <<>>
      /\ <<>> \in Seq(Sound) /\ Len(<<>>) = 0 /\ DOMAIN <<new>> = {1}
  BY <1>3
<1>6. Gapless(<<new>>)
  <2>1. new.slot = new.slot + 1 - 1
    BY <1>2, <1>3
  <2> QED BY <1>5, <2>1 DEF Gapless
<1>7. Below(<<new>>, y, marks')
  <2>1. "astray" \notin marks' => IsPrefix(new.hash, y)
    BY <1>1
  <2> QED BY <1>5, <2>1 DEF Below
<1>8. file' = <<new>> \/ file' = <<>>
  BY <1>1
<1>9. file' \in Seq(Sound) /\ Len(file') <= 1
  <2>1. CASE file' = <<new>>
    BY <1>5, <2>1
  <2>2. CASE file' = <<>>
    BY <1>5, <2>2
  <2> QED BY <1>8, <2>1, <2>2
<1>10. job' \in Seq(Job) /\ Len(job') <= 1 /\ \A i \in DOMAIN job' : job'[i].at = job[1].at /\ 1 \in DOMAIN job
  <2>1. CASE job = <<>>
    <3>1. <<>> \in Seq(Job) /\ Len(<<>>) = 0 /\ DOMAIN <<>> = {}
      OBVIOUS
    <3>2. job' = <<>>
      BY <1>1, <2>1
    <3> QED BY <3>1, <3>2
  <2>2. CASE job # <<>>
    <3> DEFINE j == [job[1] EXCEPT !.mixed = TRUE]
    <3>1. job[1] \in Job /\ 1 \in DOMAIN job
      BY <2>2, Elements DEF IInv, Typed
    <3>2. j \in Job /\ j.at = job[1].at /\ job' = <<j>>
      BY <1>1, <2>2, <3>1 DEF Job
    <3> HIDE DEF j
    <3>3. <<j>> \in Seq(Job) /\ Len(<<j>>) = 1 /\ \A i \in DOMAIN <<j>> : <<j>>[i] = j
      BY <3>2
    <3> QED BY <3>1, <3>2, <3>3
  <2> QED BY <2>1, <2>2
<1>11. ASSUME marks' = {}
       PROVE  /\ Deep(new, chain) /\ new.hash = Base.hash
              /\ \A i \in DOMAIN file' : Deep(file'[i], chain)
              /\ \A i \in DOMAIN job' : Deep(job'[i].at, chain)
  <2>1. marks = {} /\ Len(y) = Len(new.hash) /\ IsPrefix(new.hash, y)
    BY <1>1, <1>11
  <2>2. new.hash = y
    <3>1. \A s \in Block : IsPrefix(s, y) /\ Len(y) <= Len(s) => s = y
      BY <1>2, PrefixOrder
    <3>2. Len(y) <= Len(new.hash)
      BY <1>2, <2>1
    <3> QED BY <1>3, <2>1, <3>1, <3>2
  <2>3. history = <<>>
    <3> SUFFICES ASSUME history # <<>> PROVE FALSE
      OBVIOUS
    <3>1. 1 \in DOMAIN history /\ history[1] \in Sound /\ Base = history[1]
      BY Elements DEF IInv, Typed, Base
    <3>2. Deep(history[1], chain) /\ IsPrefix(history[1].hash, y)
      BY <1>2, <2>1, <3>1 DEF IInv, FilePart
    <3>3. history[1].slot <= Len(y)
      BY <1>2, <3>1, <3>2, SoundIs, PrefixOrder DEF Deep
    <3> DEFINE old == {i \in DOMAIN history : history[i].slot <= Len(y)}
    <3>4. 1 \in old /\ Kept(Len(y)) = Max(old)
      BY <3>1, <3>3 DEF Kept
    <3>5. Len(history) \in Nat /\ old \subseteq 0..Len(history)
      BY DEF IInv, Typed
    <3>6. Max(old) >= 1
      BY <3>4, <3>5, MaxIndex
    <3> QED BY <1>1, <3>4, <3>6
  <2>4. y = point.hash /\ Base = point /\ Deep(point, chain)
    BY <1>1, <1>2, <2>1, <2>3 DEF IInv, FilePart, Base
  <2>5. Deep(new, chain)
    BY <1>2, <1>3, <2>2, <2>4 DEF Deep
  <2>6. \A i \in DOMAIN file' : Deep(file'[i], chain)
    <3>1. CASE file' = <<new>>
      BY <1>5, <2>5, <3>1
    <3>2. CASE file' = <<>>
      BY <3>2
    <3> QED BY <1>8, <3>1, <3>2
  <2>7. \A i \in DOMAIN job' : Deep(job'[i].at, chain)
    BY <1>10, <2>1 DEF IInv, FilePart
  <2> QED BY <2>2, <2>4, <2>5, <2>6, <2>7
<1>12. /\ history' \in Seq(Sound) /\ history' # <<>> /\ Len(history') <= MaxHistory
       /\ Gapless(history') /\ history'[Len(history')].slot = Len(y)
       /\ Below(history', y, marks') /\ history'[1] = new
  <2>1. 1 <= MaxHistory
    BY Sizes
  <2>2. /\ <<new>> \in Seq(Sound) /\ <<new>> # <<>> /\ Len(<<new>>) <= MaxHistory
        /\ <<new>>[Len(<<new>>)].slot = Len(y) /\ <<new>>[1] = new
    BY <1>3, <1>5, <2>1
  <2> QED BY <1>1, <1>6, <1>7, <2>2
<1> QED BY <1>1, <1>2, <1>4, <1>9, <1>10, <1>11, <1>12, SinkMoves

-----------------------------------------------------------------------------
(* The theorems *)

\* Every step keeps the invariant.
LEMMA NextKeepsIInv == ASSUME IInv, [Next]_vars PROVE IInv'
<1>1. CASE Node
  BY <1>1, ExtendKeeps, SwitchForkKeeps DEF Node
<1>2. CASE Source
  BY <1>2, StartKeeps, ConnectKeeps, SourceSends DEF Source
<1>3. CASE Sink
  <2>1. CASE RebuildPanics
    BY <2>1, GoneKeeps DEF RebuildPanics
  <2> QED BY <1>3, <2>1, ApplyKeeps, TruncateKeeps, RebuildKeeps DEF Sink
<1>4. CASE SaveEnds
  BY <1>4, SaveEndsKeeps
<1>5. CASE LoseConnection
  BY <1>5, LoseConnectionKeeps
<1>6. CASE Crash
  BY <1>6, GoneKeeps DEF Crash
<1>7. CASE UNCHANGED vars
  <2>1. UNCHANGED <<chain, phase, point, pos, told, crumbs, port, history, job, file, marks>>
    BY <1>7 DEF vars, process
  <2>2. Base' = Base /\ Sent' = Sent /\ Here' = Here /\ End' = End
    BY <2>1 DEF Base, Sent, Here, End
  <2>3. Typed' /\ CrumbPart' /\ PortPart' /\ StartPart'
    BY <2>1 DEF IInv, Typed, CrumbPart, PortPart, StartPart, Follows, End
  <2>4. HistoryPart'
    BY <2>1, <2>2 DEF IInv, HistoryPart, Gapless, Below
  <2>5. FilePart'
    BY <2>1, <2>2 DEF IInv, FilePart
  <2> QED BY <2>3, <2>4, <2>5 DEF IInv
<1> QED BY <1>1, <1>2, <1>3, <1>4, <1>5, <1>6, <1>7 DEF Next

\* The invariant holds of every behaviour.
THEOREM Invariance == Spec => []IInv
<1>1. Init => IInv
  BY InitIInv
<1>2. IInv /\ [Next]_vars => IInv'
  BY NextKeepsIInv
<1> QED BY <1>1, <1>2, PTL DEF Spec

\* Across forks, lost connections and restarts, a sink with nothing left to
\* take has a history without a gap, of blocks of the chain the node sent.
THEOREM HistorySettles == Spec => []SettledHistoryIsTheChain
<1>1. IInv => SettledHistoryIsTheChain
  BY PartsAreProperties
<1> QED BY <1>1, Invariance, PTL

\* The breadcrumbs a reconnection resumes at are the path the source took.
THEOREM CrumbsStayOnPath == Spec => []CrumbsAreOnPath
<1>1. IInv => CrumbsAreOnPath
  BY PartsAreProperties
<1> QED BY <1>1, Invariance, PTL

\* While no fork abandons Depth blocks and every rebuild is at a block with
\* transactions, the snapshot on disk stays on chain.
THEOREM SavedPointStaysOnChain == Spec => []SavedPointIsOnChain
<1>1. IInv => SavedPointIsOnChain
  BY PartsAreProperties
<1> QED BY <1>1, Invariance, PTL
=============================================================================
