--------------------------- MODULE BattleCalcProofs ---------------------------
(***************************************************************************)
(* What the battle promises, for every table of cards, every pair of hands *)
(* of up to five cards and every seed.                                     *)
(*                                                                         *)
(* The two sorts pick the card of a rank, so the first lemmas are about    *)
(* ranks: in a strict total order of n elements every number below n is    *)
(* the rank of exactly one.  The sum of the actions is a recursive         *)
(* function over the turns; IsRun gives its steps a name, InductionOverNat *)
(* carries facts along them, and Effect says what one turn does to one     *)
(* card, which is what the rest needs of an action.                        *)
(***************************************************************************)
EXTENDS BattleCalc, FiniteSetTheorems, SequenceTheorems, TLAPS

\* Induction over the naturals, for the set of those that are as they should be.
LEMMA InductionOverNat ==
  ASSUME NEW S, 0 \in S, \A n \in Nat : n \in S => n + 1 \in S
  PROVE  \A n \in Nat : n \in S
<1> DEFINE Bad == {n \in Nat : n \notin S}
<1>1. SUFFICES ASSUME Bad # {} PROVE FALSE
  OBVIOUS
<1>2. PICK n \in Bad : \A m \in Bad : ~(<<m, n>> \in OpToRel(<, Nat))
  <2>1. Bad \subseteq Nat
    OBVIOUS
  <2> HIDE DEF Bad
  <2> QED BY <1>1, <2>1, NatLessThanWellFounded, WFMin
<1>3. n # 0 /\ n - 1 \in Nat /\ n = (n - 1) + 1
  OBVIOUS
<1>4. n - 1 \in Bad
  BY <1>3
<1>5. <<n - 1, n>> \in OpToRel(<, Nat)
  BY <1>3 DEF OpToRel
<1> QED BY <1>2, <1>4, <1>5

\* A function of the slots, written out as a sequence, is that function.
LEMMA RowIs ==
  ASSUME NEW X, NEW f \in [Slots -> X]
  PROVE  Row(f) = f
<1>1. HandSize \in Nat
  BY BattleAssumption
<1>2. f \in Seq(X)
  BY <1>1, SeqDef DEF Slots
<1>3. Len(f) = HandSize
  BY <1>1, <1>2, LenProperties DEF Slots
<1> QED BY <1>2, <1>3, SubSeqFull DEF Row

(***************************************************************************)
(* Ranks.  The rank of an element in a strict total order is the number of *)
(* elements before it; every number below the cardinality is the rank of   *)
(* exactly one element.                                                    *)
(***************************************************************************)
IsOrder(R, S) ==
  /\ \A x, y \in S : <<x, y>> \in R => <<y, x>> \notin R
  /\ \A x, y, z \in S : <<x, y>> \in R /\ <<y, z>> \in R => <<x, z>> \in R
  /\ \A x, y \in S : x = y \/ <<x, y>> \in R \/ <<y, x>> \in R

Before(R, S, x) == {y \in S : <<y, x>> \in R}
Rank(R, S, x) == Cardinality(Before(R, S, x))

LEMMA RankIsNat ==
  ASSUME NEW R, NEW S, IsFiniteSet(S), NEW x \in S
  PROVE  IsFiniteSet(Before(R, S, x)) /\ Rank(R, S, x) \in Nat
<1>1. Before(R, S, x) \in SUBSET S
  BY DEF Before
<1> QED BY <1>1, FS_Subset, FS_CardinalityType DEF Rank

LEMMA RankIncreases ==
  ASSUME NEW R, NEW S, IsFiniteSet(S), IsOrder(R, S), NEW x \in S, NEW y \in S,
         <<x, y>> \in R
  PROVE  Rank(R, S, x) < Rank(R, S, y)
<1>1. Before(R, S, x) \in SUBSET Before(R, S, y)
  BY DEF Before, IsOrder
<1>2. x \in Before(R, S, y) /\ x \notin Before(R, S, x)
  BY DEF Before, IsOrder
<1>3. /\ Cardinality(Before(R, S, x)) <= Cardinality(Before(R, S, y))
      /\ Cardinality(Before(R, S, x)) # Cardinality(Before(R, S, y))
  BY <1>1, <1>2, RankIsNat, FS_Subset
<1> QED BY <1>3, RankIsNat DEF Rank

LEMMA RankBelow ==
  ASSUME NEW R, NEW S, IsFiniteSet(S), IsOrder(R, S), NEW x \in S
  PROVE  Rank(R, S, x) \in 0..(Cardinality(S) - 1)
<1>1. Before(R, S, x) \in SUBSET S /\ x \notin Before(R, S, x)
  BY DEF Before, IsOrder
<1>2. Cardinality(Before(R, S, x)) <= Cardinality(S) /\ Cardinality(Before(R, S, x)) # Cardinality(S)
  BY <1>1, FS_Subset
<1>3. Cardinality(S) \in Nat
  BY FS_CardinalityType
<1> QED BY <1>2, <1>3, RankIsNat DEF Rank

LEMMA RankIsOwn ==
  ASSUME NEW R, NEW S, IsFiniteSet(S), IsOrder(R, S), NEW x \in S, NEW y \in S,
         Rank(R, S, x) = Rank(R, S, y)
  PROVE  x = y
<1>1. ~(<<x, y>> \in R) /\ ~(<<y, x>> \in R)
  BY RankIncreases, RankIsNat
<1> QED BY <1>1 DEF IsOrder

LEMMA RankIsTaken ==
  ASSUME NEW R, NEW S, IsFiniteSet(S), IsOrder(R, S), NEW k \in 0..(Cardinality(S) - 1)
  PROVE  \E x \in S : Rank(R, S, x) = k
<1> DEFINE T == 0..(Cardinality(S) - 1)
           r == [x \in S |-> Rank(R, S, x)]
<1>1. Cardinality(S) \in Nat
  BY FS_CardinalityType
<1>2. IsFiniteSet(T) /\ Cardinality(T) = Cardinality(S)
  BY <1>1, FS_Interval, 0 \in Int, Cardinality(S) - 1 \in Int
<1>3. r \in [S -> T]
  BY RankBelow
<1>4. \A x, y \in S : r[x] = r[y] => x = y
  BY RankIsOwn
<1>5. r \in Injection(S, T)
  <2> HIDE DEF r, T
  <2> QED BY <1>3, <1>4 DEF Injection, IsInjective
<1>6. r \in Surjection(S, T)
  <2> HIDE DEF r, T
  <2> QED BY <1>2, <1>5, FS_Injection
<1>7. PICK x \in S : r[x] = k
  <2>1. k \in T
    OBVIOUS
  <2> HIDE DEF r, T
  <2> QED BY <1>6, <2>1 DEF Surjection
<1> QED BY <1>7

(***************************************************************************)
(* What the fields are made of.                                            *)
(***************************************************************************)
Deeds == ActionTypes \cup {"none"}
Card ==
  [faction : Factions, bp : Int, hp : Int, ini : Nat, action : Deeds,
   legendary : BOOLEAN, passive : PassiveAbilities \cup {"none"},
   bpMod : Int, barrier : BOOLEAN, shadow : BOOLEAN]
Field == [Slots -> Card]

LEMMA SlotsAreFinite == IsFiniteSet(Slots) /\ Cardinality(Slots) = HandSize
<1>1. HandSize \in Int /\ 1 \in Int /\ ~(1 > HandSize) /\ HandSize - 1 + 1 = HandSize
  BY BattleAssumption
<1>2. IsFiniteSet(1..HandSize) /\ Cardinality(1..HandSize) = HandSize - 1 + 1
  BY <1>1, FS_Interval
<1> QED BY <1>1, <1>2 DEF Slots

LEMMA SlotsHaveSize ==
  ASSUME NEW T \in SUBSET Slots
  PROVE  IsFiniteSet(T) /\ Cardinality(T) \in Nat
BY SlotsAreFinite, FS_Subset, FS_CardinalityType

LEMMA OppIs == \A s \in Seats : Opp(s) \in Seats /\ Opp(s) # s /\ Opp(Opp(s)) = s
BY DEF Seats, Opp

LEMMA PairIs ==
  ASSUME NEW X, NEW x \in X, NEW y \in X
  PROVE  <<x, y>> \in [Seats -> X] /\ <<x, y>>[1] = x /\ <<x, y>>[2] = y
BY DEF Seats

LEMMA FreshIsCard ==
  ASSUME NEW id \in DOMAIN Table
  PROVE  Fresh(id) \in Card
<1>1. Table[id] \in CardData
  BY BattleAssumption
<1>2. 0..255 \subseteq Nat /\ 0..255 \subseteq Int
  OBVIOUS
<1>3. Table[id].bp \in Int /\ Table[id].hp \in Int /\ Table[id].ini \in Nat
  BY <1>1, <1>2 DEF CardData
<1>4. Table[id].action \in Deeds
  BY <1>1 DEF CardData, Deeds
<1> QED BY <1>1, <1>3, <1>4 DEF Fresh, Card, CardData

LEMMA FieldsAre ==
  ASSUME NEW h \in [Seats -> [Slots -> DOMAIN Table]]
  PROVE  /\ Fields(h) \in [Seats -> Field]
         /\ \A s \in Seats, i \in Slots : Fields(h)[s][i] = Fresh(h[s][i])
<1> DEFINE field(s) == [i \in Slots |-> Fresh(h[s][i])]
<1>1. \A s \in Seats : field(s) \in Field
  BY FreshIsCard DEF Field
<1>2. \A s \in Seats : Row(field(s)) = field(s)
  <2> HIDE DEF field
  <2> QED BY <1>1, RowIs DEF Field
<1>3. Fields(h) = <<Row(field(1)), Row(field(2))>>
  BY DEF Fields
<1>4. Fields(h) = <<field(1), field(2)>>
  <2> HIDE DEF field
  <2> QED BY <1>2, <1>3 DEF Seats
<1>5. Fields(h) \in [Seats -> Field] /\ \A s \in Seats : Fields(h)[s] = field(s)
  <2> HIDE DEF field
  <2> QED BY <1>1, <1>4 DEF Seats
<1> QED BY <1>5

\* What the passive abilities make of a card.
Touched(F, s, i) ==
  [F[s][i] EXCEPT
     !.bpMod = KnightAura(F[s], i) + GoldAura(F[s]) + Overclock(F[s], i),
     !.hp = @ - (IF Intimidated(F, s, i) THEN 3 ELSE 0),
     !.barrier = With(F[s], "monk_soul_harvest") # {}]

Marked(c, m, d, b) == [c EXCEPT !.bpMod = m, !.hp = @ - d, !.barrier = b]

LEMMA MarkedIsCard ==
  ASSUME NEW c \in Card, NEW m \in Int, NEW d \in Int, NEW b \in BOOLEAN
  PROVE  /\ Marked(c, m, d, b) \in Card
         /\ Marked(c, m, d, b).ini = c.ini
         /\ Marked(c, m, d, b).action = c.action
<1> DEFINE x == [c EXCEPT !.bpMod = m]
           y == [x EXCEPT !.hp = c.hp - d]
           z == [y EXCEPT !.barrier = b]
<1>1. x \in Card /\ x.ini = c.ini /\ x.action = c.action
  BY DEF Card
<1>2. y \in Card /\ y.ini = x.ini /\ y.action = x.action
  <2> HIDE DEF x
  <2> QED BY <1>1 DEF Card
<1>3. z \in Card /\ z.ini = y.ini /\ z.action = y.action
  <2> HIDE DEF y
  <2> QED BY <1>2 DEF Card
<1>4. z = Marked(c, m, d, b)
  BY DEF Marked
<1> QED BY <1>1, <1>2, <1>3, <1>4

LEMMA TouchedIsCard ==
  ASSUME NEW F \in [Seats -> Field], NEW s \in Seats, NEW i \in Slots
  PROVE  /\ Touched(F, s, i) \in Card
         /\ Touched(F, s, i).ini = F[s][i].ini
         /\ Touched(F, s, i).action = F[s][i].action
<1>1. F[s][i] \in Card
  BY DEF Field
<1>2. KnightAura(F[s], i) \in Nat
  <2>1. With(F[s], "knight_aura") \ {i} \in SUBSET Slots
    BY DEF With
  <2> QED BY <2>1, SlotsHaveSize DEF KnightAura
<1>3. GoldAura(F[s]) \in Nat
  <2>1. With(F[s], "merchant_gold_aura") \in SUBSET Slots
    BY DEF With
  <2> QED BY <2>1, SlotsHaveSize DEF GoldAura
<1>4. Overclock(F[s], i) \in Nat
  <2>1. With(F[s], "engineer_overclock") \in SUBSET Slots
    BY DEF With
  <2> QED BY <2>1, SlotsHaveSize DEF Overclock
<1> DEFINE m == KnightAura(F[s], i) + GoldAura(F[s]) + Overclock(F[s], i)
           d == IF Intimidated(F, s, i) THEN 3 ELSE 0
           b == With(F[s], "monk_soul_harvest") # {}
<1>5. m \in Int /\ d \in Int /\ b \in BOOLEAN
  BY <1>2, <1>3, <1>4
<1>6. Touched(F, s, i) = Marked(F[s][i], m, d, b)
  BY DEF Touched, Marked
<1> HIDE DEF m, d, b
<1> QED BY <1>1, <1>5, <1>6, MarkedIsCard

LEMMA PassivesAre ==
  ASSUME NEW F \in [Seats -> Field]
  PROVE  /\ Passives(F) \in [Seats -> Field]
         /\ \A s \in Seats, i \in Slots : Passives(F)[s][i] = Touched(F, s, i)
<1> DEFINE field(s) == [i \in Slots |-> Touched(F, s, i)]
<1>1. \A s \in Seats : field(s) \in Field
  BY TouchedIsCard DEF Field
<1>2. \A s \in Seats : Row(field(s)) = field(s)
  <2> HIDE DEF field
  <2> QED BY <1>1, RowIs DEF Field
<1>3. Passives(F) = <<Row(field(1)), Row(field(2))>>
  BY DEF Passives, Touched
<1>4. Passives(F) = <<field(1), field(2)>>
  <2> HIDE DEF field
  <2> QED BY <1>2, <1>3 DEF Seats
<1>5. Passives(F) \in [Seats -> Field] /\ \A s \in Seats : Passives(F)[s] = field(s)
  <2> HIDE DEF field
  <2> QED BY <1>1, <1>4 DEF Seats
<1> QED BY <1>5

(***************************************************************************)
(* Lining up.                                                              *)
(***************************************************************************)
Bytes == [0..31 -> 0..255]
Offsets == {0, 8}

LEMMA BytesAreNat == \A sd \in Bytes : \A k \in 0..31 : sd[k] \in Nat
<1>1. 0..255 \subseteq Nat
  OBVIOUS
<1>2. \A sd \in Bytes : \A k \in 0..31 : sd[k] \in 0..255
  BY ZenonT(20) DEF Bytes
<1> QED BY <1>1, <1>2

\* The order in which a side lines up.
LineOrder(f, sd, offset) ==
  {p \in Slots \X Slots : Earlier(f[p[1]].ini, sd[offset + p[1] - 1], p[1],
                                  f[p[2]].ini, sd[offset + p[2] - 1], p[2])}

LEMMA LineIsOrder ==
  ASSUME NEW f \in Field, NEW sd \in Bytes, NEW offset \in Offsets
  PROVE  IsOrder(LineOrder(f, sd, offset), Slots)
<1> DEFINE key(i) == sd[offset + i - 1]
           R == LineOrder(f, sd, offset)
<1>1. \A i \in Slots : i \in Nat /\ f[i].ini \in Nat /\ key(i) \in Nat
  <2>1. \A i \in Slots : i \in Nat /\ f[i] \in Card /\ offset + i - 1 \in 0..31
    BY BattleAssumption DEF Slots, Field, Offsets
  <2>2. \A i \in Slots : f[i].ini \in Nat
    BY <2>1 DEF Card
  <2>3. \A k \in 0..31 : sd[k] \in Nat
    BY BytesAreNat
  <2> QED BY <2>1, <2>2, <2>3
<1>2. \A i, j \in Slots : <<i, j>> \in R <=> Earlier(f[i].ini, key(i), i, f[j].ini, key(j), j)
  BY DEF LineOrder
<1> HIDE DEF key, R
<1>3. \A i, j \in Slots : <<i, j>> \in R => <<j, i>> \notin R
  BY <1>1, <1>2 DEF Earlier
<1>4. \A i, j, k \in Slots : <<i, j>> \in R /\ <<j, k>> \in R => <<i, k>> \in R
  BY <1>1, <1>2 DEF Earlier
<1>5. \A i, j \in Slots : i = j \/ <<i, j>> \in R \/ <<j, i>> \in R
  <2>1. ASSUME NEW i \in Slots, NEW j \in Slots, i # j
        PROVE  <<i, j>> \in R \/ <<j, i>> \in R
    <3>1. i < j \/ j < i
      BY <1>1, <2>1
    <3>2. key(i) < key(j) \/ key(j) < key(i) \/ key(i) = key(j)
      BY <1>1
    <3>3. f[i].ini > f[j].ini \/ f[j].ini > f[i].ini \/ f[i].ini = f[j].ini
      BY <1>1
    <3> QED BY <1>2, <3>1, <3>2, <3>3 DEF Earlier
  <2> QED BY <2>1
<1> QED BY <1>3, <1>4, <1>5 DEF IsOrder, R

\* Place p is taken by the card of rank p - 1.
LEMMA LinedIs ==
  ASSUME NEW f \in Field, NEW sd \in Bytes, NEW offset \in Offsets
  PROVE  /\ Lined(f, sd, offset) \in Field
         /\ \A p \in Slots : \E i \in Slots :
              /\ Rank(LineOrder(f, sd, offset), Slots, i) = p - 1
              /\ Lined(f, sd, offset)[p] = f[i]
<1> DEFINE R == LineOrder(f, sd, offset)
           ahead(i) == {j \in Slots : Earlier(f[j].ini, sd[offset + j - 1], j,
                                              f[i].ini, sd[offset + i - 1], i)}
           at(p) == CHOOSE i \in Slots : Cardinality(ahead(i)) = p - 1
           line == [p \in Slots |-> f[at(p)]]
<1>1. \A i \in Slots : Cardinality(ahead(i)) = Rank(R, Slots, i)
  <2>1. \A i \in Slots : ahead(i) = Before(R, Slots, i)
    BY DEF Before, LineOrder
  <2> HIDE DEF ahead, R
  <2> QED BY <2>1 DEF Rank
<1>2. \A p \in Slots : at(p) \in Slots /\ Rank(R, Slots, at(p)) = p - 1
  <2>1. ASSUME NEW p \in Slots PROVE \E i \in Slots : Rank(R, Slots, i) = p - 1
    <3>1. p - 1 \in 0..(Cardinality(Slots) - 1)
      BY SlotsAreFinite, BattleAssumption DEF Slots
    <3> QED BY <3>1, SlotsAreFinite, LineIsOrder, RankIsTaken
  <2> HIDE DEF ahead, R
  <2> QED BY <1>1, <2>1
<1>3. line \in Field
  <2> HIDE DEF at
  <2> QED BY <1>2 DEF Field
<1>4. Lined(f, sd, offset) = line
  <2>1. Lined(f, sd, offset) = Row(line)
    BY DEF Lined
  <2> HIDE DEF line
  <2> QED BY <1>3, <2>1, RowIs DEF Field
<1>5. \A p \in Slots : line[p] = f[at(p)]
  OBVIOUS
<1> HIDE DEF at, line, R
<1>6. \A p \in Slots : Rank(R, Slots, at(p)) = p - 1 /\ Lined(f, sd, offset)[p] = f[at(p)]
  BY <1>2, <1>4, <1>5
<1> QED BY <1>2, <1>3, <1>4, <1>6 DEF R

(***************************************************************************)
(* The order of the actions.                                               *)
(***************************************************************************)
All == Seats \X Slots
Turns == 1..(2 * HandSize)

TurnOrder(F, sd) == {p \in All \X All : ActsBefore(F, sd, p[1], p[2])}

LEMMA AllAreFinite == IsFiniteSet(All) /\ Cardinality(All) = 2 * HandSize
<1>1. IsFiniteSet(1..2) /\ Cardinality(1..2) = 2
  <2>1. 1 \in Int /\ 2 \in Int /\ ~(1 > 2) /\ 2 - 1 + 1 = 2
    OBVIOUS
  <2>2. IsFiniteSet(1..2) /\ Cardinality(1..2) = 2 - 1 + 1
    BY <2>1, FS_Interval
  <2> QED BY <2>1, <2>2
<1> QED BY <1>1, SlotsAreFinite, FS_Product DEF All, Seats

\* Every card has a position of its own.
LEMMA PositionIsOwn ==
  /\ \A x \in All : Position(x) \in 0..9
  /\ \A x, y \in All : Position(x) = Position(y) => x = y
<1>1. HandSize \in 1..5
  BY BattleAssumption
<1>2. \A x \in All : /\ x = <<x[1], x[2]>>
                     /\ x[1] = 1 \/ x[1] = 2
                     /\ x[2] \in 1..HandSize
  BY DEF All, Seats, Slots
<1>3. \A x \in All : /\ x[1] = 1 => Position(x) = x[2] - 1
                     /\ x[1] = 2 => Position(x) = HandSize + x[2] - 1
  <2>1. ASSUME NEW x \in All
        PROVE  /\ x[1] = 1 => Position(x) = x[2] - 1
               /\ x[1] = 2 => Position(x) = HandSize + x[2] - 1
    BY <1>1, <1>2 DEF Position
  <2> QED BY <2>1
<1>4. \A x \in All : Position(x) \in 0..9
  BY <1>1, <1>2, <1>3
<1>5. ASSUME NEW x \in All, NEW y \in All, Position(x) = Position(y)
      PROVE  x = y
  <2>1. x[1] = y[1] /\ x[2] = y[2]
    BY <1>1, <1>2, <1>3, <1>5
  <2> QED BY <1>2, <2>1
<1> QED BY <1>4, <1>5

LEMMA TurnIsOrder ==
  ASSUME NEW F \in [Seats -> Field], NEW sd \in Bytes
  PROVE  IsOrder(TurnOrder(F, sd), All)
<1> DEFINE key(x) == sd[16 + Position(x)]
           pos(x) == Position(x)
           ini(x) == F[x[1]][x[2]].ini
           R == TurnOrder(F, sd)
<1>1. \A x \in All : ini(x) \in Nat /\ key(x) \in Nat /\ pos(x) \in Nat
  <2>1. \A x \in All : F[x[1]][x[2]] \in Card
    BY DEF All, Field
  <2>2. \A x \in All : 16 + Position(x) \in 0..31 /\ Position(x) \in Nat
    BY PositionIsOwn
  <2>3. \A x \in All : F[x[1]][x[2]].ini \in Nat
    BY <2>1 DEF Card
  <2> QED BY <2>2, <2>3, BytesAreNat
<1>2. \A x, y \in All : <<x, y>> \in R <=> Earlier(ini(x), key(x), pos(x), ini(y), key(y), pos(y))
  BY DEF TurnOrder, ActsBefore
<1>3. \A x, y \in All : pos(x) = pos(y) => x = y
  BY PositionIsOwn
<1> HIDE DEF key, R, pos, ini
<1>4. \A x, y \in All : <<x, y>> \in R => <<y, x>> \notin R
  BY <1>1, <1>2 DEF Earlier
<1>5. \A x, y, z \in All : <<x, y>> \in R /\ <<y, z>> \in R => <<x, z>> \in R
  BY <1>1, <1>2 DEF Earlier
<1>6. ASSUME NEW x \in All, NEW y \in All, x # y
      PROVE  <<x, y>> \in R \/ <<y, x>> \in R
  <2>1. pos(x) < pos(y) \/ pos(y) < pos(x)
    BY <1>1, <1>3, <1>6
  <2>2. key(x) < key(y) \/ key(y) < key(x) \/ key(x) = key(y)
    BY <1>1
  <2>3. ini(x) > ini(y) \/ ini(y) > ini(x) \/ ini(x) = ini(y)
    BY <1>1
  <2> QED BY <1>2, <2>1, <2>2, <2>3 DEF Earlier
<1> QED BY <1>4, <1>5, <1>6 DEF IsOrder, R

\* Turn n is that of the card of rank n - 1; every card has a turn.
LEMMA ActionOrderIs ==
  ASSUME NEW F \in [Seats -> Field], NEW sd \in Bytes
  PROVE  /\ ActionOrder(F, sd) \in [Turns -> All]
         /\ \A n \in Turns : Rank(TurnOrder(F, sd), All, ActionOrder(F, sd)[n]) = n - 1
         /\ \A x \in All : \E n \in Turns : ActionOrder(F, sd)[n] = x
         /\ \A m, n \in Turns : m < n =>
              ActsBefore(F, sd, ActionOrder(F, sd)[m], ActionOrder(F, sd)[n])
<1> DEFINE R == TurnOrder(F, sd)
           ahead(x) == {y \in All : ActsBefore(F, sd, y, x)}
           at(n) == CHOOSE x \in All : Cardinality(ahead(x)) = n - 1
           order == [n \in Turns |-> at(n)]
<1>1. \A x \in All : Cardinality(ahead(x)) = Rank(R, All, x)
  <2>1. \A x \in All : ahead(x) = Before(R, All, x)
    BY DEF Before, TurnOrder
  <2> HIDE DEF ahead, R
  <2> QED BY <2>1 DEF Rank
<1>2. \A n \in Turns : n - 1 \in 0..(Cardinality(All) - 1)
  BY AllAreFinite, BattleAssumption DEF Turns
<1>3. \A n \in Turns : at(n) \in All /\ Rank(R, All, at(n)) = n - 1
  <2>1. \A n \in Turns : \E x \in All : Rank(R, All, x) = n - 1
    BY <1>2, AllAreFinite, TurnIsOrder, RankIsTaken
  <2> HIDE DEF ahead, R
  <2> QED BY <1>1, <2>1
<1>4. ActionOrder(F, sd) = order
  BY DEF ActionOrder, All, Turns
<1>5. \A n \in Turns : order[n] = at(n)
  OBVIOUS
<1>6. order \in [Turns -> All]
  <2> HIDE DEF at
  <2> QED BY <1>3
<1> HIDE DEF at, order, R
<1>7. \A n \in Turns : order[n] \in All /\ Rank(R, All, order[n]) = n - 1
  BY <1>3, <1>5
<1>8. ASSUME NEW x \in All PROVE \E n \in Turns : order[n] = x
  <2>1. Rank(R, All, x) \in 0..(2 * HandSize - 1)
    BY AllAreFinite, TurnIsOrder, RankBelow DEF R
  <2> DEFINE k == Rank(R, All, x)
             n == k + 1
  <2>2. k \in 0..(2 * HandSize - 1)
    BY <2>1
  <2>3. n \in Turns /\ n - 1 = Rank(R, All, x)
    <3> HIDE DEF k
    <3>1. n \in Turns /\ n - 1 = k
      BY <2>2, BattleAssumption DEF Turns
    <3> QED BY <3>1 DEF k
  <2> HIDE DEF n
  <2>4. order[n] \in All /\ Rank(R, All, order[n]) = Rank(R, All, x)
    BY <1>7, <2>3
  <2>5. order[n] = x
    BY <2>4, AllAreFinite, TurnIsOrder, RankIsOwn DEF R
  <2> QED BY <2>3, <2>5
<1>9. ASSUME NEW m \in Turns, NEW n \in Turns, m < n
      PROVE  ActsBefore(F, sd, order[m], order[n])
  <2>1. m \in Nat /\ n \in Nat
    BY BattleAssumption DEF Turns
  <2>2. order[m] # order[n]
    BY <1>7, <1>9, <2>1
  <2>3. <<order[n], order[m]>> \notin R
    <3>1. CASE <<order[n], order[m]>> \in R
      <4>1. Rank(R, All, order[n]) < Rank(R, All, order[m])
        BY <1>7, <3>1, AllAreFinite, TurnIsOrder, RankIncreases DEF R
      <4> QED BY <1>7, <1>9, <2>1, <4>1
    <3> QED BY <3>1
  <2>4. <<order[m], order[n]>> \in R
    BY <1>7, <2>2, <2>3, TurnIsOrder DEF IsOrder, R
  <2> QED BY <2>4 DEF R, TurnOrder
<1> QED BY <1>4, <1>6, <1>7, <1>8, <1>9 DEF R

(***************************************************************************)
(* What an action does to each card.                                       *)
(***************************************************************************)
Both == [Seats -> Field]

\* The action a card carries out, "none" if it is blocked.
Deed(F, s, i) == IF Blocked(F, s, i) THEN "none" ELSE F[s][i].action

\* What a deed makes of a card, which may be the one that acts, one of the other
\* side, or the one of the other side in the same slot.
Effect(c, deed, own, other, facing) ==
  IF deed = "crystal" /\ own THEN [c EXCEPT !.bpMod = @ + 5]
  ELSE IF deed = "barrier" /\ own THEN [c EXCEPT !.barrier = TRUE]
  ELSE IF deed = "flame" /\ facing THEN [c EXCEPT !.hp = @ - 5]
  ELSE IF deed = "storm" /\ other THEN [c EXCEPT !.bpMod = @ - 2, !.barrier = FALSE]
  ELSE IF deed = "shadow" /\ own THEN [c EXCEPT !.shadow = TRUE]
  ELSE c

LEMMA EffectIs ==
  ASSUME NEW c \in Card, NEW deed,
         NEW own \in BOOLEAN, NEW other \in BOOLEAN, NEW facing \in BOOLEAN
  PROVE  /\ Effect(c, deed, own, other, facing) \in Card
         /\ Effect(c, deed, own, other, facing).ini = c.ini
         /\ Effect(c, deed, own, other, facing).action = c.action
         /\ Effect(c, deed, own, other, facing).barrier <=>
              (deed = "barrier" /\ own) \/ (c.barrier /\ ~(deed = "storm" /\ other))
<1> DEFINE e == Effect(c, deed, own, other, facing)
           Good(x) == /\ x \in Card
                      /\ x.ini = c.ini /\ x.action = c.action
<1>1. ASSUME NEW m \in Int
      PROVE  Good([c EXCEPT !.bpMod = m]) /\ [c EXCEPT !.bpMod = m].barrier = c.barrier
  BY DEF Card
<1>2. ASSUME NEW m \in Int PROVE Good([c EXCEPT !.hp = m]) /\ [c EXCEPT !.hp = m].barrier = c.barrier
  BY DEF Card
<1>3. ASSUME NEW b \in BOOLEAN
      PROVE  Good([c EXCEPT !.barrier = b]) /\ [c EXCEPT !.barrier = b].barrier = b
  BY DEF Card
<1>4. Good([c EXCEPT !.shadow = TRUE]) /\ [c EXCEPT !.shadow = TRUE].barrier = c.barrier
  BY DEF Card
<1>5. ASSUME NEW m \in Int
      PROVE  /\ Good([c EXCEPT !.bpMod = m, !.barrier = FALSE])
             /\ [c EXCEPT !.bpMod = m, !.barrier = FALSE].barrier = FALSE
  BY DEF Card
<1>6. c.bpMod + 5 \in Int /\ c.bpMod - 2 \in Int /\ c.hp - 5 \in Int /\ Good(c)
  BY DEF Card
<1> HIDE DEF Good
<1>7. Good(e) /\ (e.barrier <=> \/ deed = "barrier" /\ own
                                \/ c.barrier /\ ~(deed = "storm" /\ other))
  <2>1. CASE deed = "crystal" /\ own
    BY <1>1, <1>6, <2>1 DEF Effect
  <2>2. CASE deed = "barrier" /\ own
    BY <1>3, <2>2 DEF Effect
  <2>3. CASE deed = "flame" /\ facing
    BY <1>2, <1>6, <2>3 DEF Effect
  <2>4. CASE deed = "storm" /\ other
    BY <1>5, <1>6, <2>4 DEF Effect
  <2>5. CASE deed = "shadow" /\ own
    BY <1>4, <2>5 DEF Effect
  <2>6. CASE ~(\/ deed \in {"crystal", "barrier", "shadow"} /\ own
               \/ deed = "flame" /\ facing
               \/ deed = "storm" /\ other)
    BY <1>6, <2>6 DEF Effect
  <2> QED BY <2>1, <2>2, <2>3, <2>4, <2>5, <2>6
<1> QED BY <1>7 DEF Good

\* An effect leaves the action of the card alone and does not look at it.
LEMMA EffectSeesNoAction ==
  ASSUME NEW c \in Card, NEW a \in Deeds, NEW deed,
         NEW own \in BOOLEAN, NEW other \in BOOLEAN, NEW facing \in BOOLEAN
  PROVE  Effect([c EXCEPT !.action = a], deed, own, other, facing) =
           [Effect(c, deed, own, other, facing) EXCEPT !.action = a]
<1> DEFINE d == [c EXCEPT !.action = a]
<1>1. /\ d.bpMod = c.bpMod /\ d.hp = c.hp
      /\ d \in Card
  BY DEF Card
<1>2. CASE deed = "crystal" /\ own
  BY <1>1, <1>2 DEF Effect, Card
<1>3. CASE deed = "barrier" /\ own
  BY <1>3 DEF Effect, Card
<1>4. CASE deed = "flame" /\ facing
  BY <1>1, <1>4 DEF Effect, Card
<1>5. CASE deed = "storm" /\ other
  BY <1>1, <1>5 DEF Effect, Card
<1>6. CASE deed = "shadow" /\ own
  BY <1>6 DEF Effect, Card
<1>7. CASE ~(\/ deed \in {"crystal", "barrier", "shadow"} /\ own
             \/ deed = "flame" /\ facing
             \/ deed = "storm" /\ other)
  BY <1>7 DEF Effect, Card
<1> QED BY <1>2, <1>3, <1>4, <1>5, <1>6, <1>7

LEMMA StormIs ==
  ASSUME NEW f \in Field
  PROVE  /\ Storm(f) \in Field
         /\ \A j \in Slots : Storm(f)[j] = [f[j] EXCEPT !.bpMod = @ - 2, !.barrier = FALSE]
<1> DEFINE torn == [j \in Slots |-> [f[j] EXCEPT !.bpMod = @ - 2, !.barrier = FALSE]]
<1>1. ASSUME NEW c \in Card
      PROVE  [c EXCEPT !.bpMod = @ - 2, !.barrier = FALSE] \in Card
  <2>1. c.bpMod - 2 \in Int
    BY DEF Card
  <2>2. ASSUME NEW m \in Int
        PROVE  [c EXCEPT !.bpMod = m, !.barrier = FALSE] \in Card
    BY DEF Card
  <2> QED BY <2>1, <2>2
<1>2. torn \in Field
  BY <1>1 DEF Field
<1>3. Storm(f) = Row(torn)
  BY DEF Storm
<1>4. Storm(f) = torn
  <2> HIDE DEF torn
  <2> QED BY <1>2, <1>3, RowIs DEF Field
<1> QED BY <1>2, <1>4

\* One card of one side is replaced.
Put(F, s, i, c) == [F EXCEPT ![s][i] = c]

LEMMA PutIs ==
  ASSUME NEW F \in Both, NEW s \in Seats, NEW i \in Slots, NEW c \in Card
  PROVE  /\ Put(F, s, i, c) \in Both
         /\ \A t \in Seats, j \in Slots :
              Put(F, s, i, c)[t][j] = IF t = s /\ j = i THEN c ELSE F[t][j]
BY DEF Put, Both, Field

\* The action of the card in slot i of side s, card by card.
LEMMA ActIs ==
  ASSUME NEW F \in Both, NEW s \in Seats, NEW i \in Slots
  PROVE  /\ Act(F, s, i) \in Both
         /\ \A t \in Seats, j \in Slots :
              Act(F, s, i)[t][j] =
                Effect(F[t][j], Deed(F, s, i), t = s /\ j = i, t # s, t # s /\ j = i)
<1> DEFINE a == F[s][i].action
           G == Act(F, s, i)
           Right(t, j) == Effect(F[t][j], Deed(F, s, i), t = s /\ j = i, t # s, t # s /\ j = i)
<1>1. \A t \in Seats, j \in Slots : F[t][j] \in Card
  BY DEF Both, Field
<1>2. \A t \in Seats, j \in Slots : Right(t, j) \in Card
  BY <1>1, EffectIs
<1>3. Opp(s) \in Seats /\ \A t \in Seats : t # s <=> t = Opp(s)
  BY DEF Seats, Opp
<1>4. G \in Both /\ \A t \in Seats, j \in Slots : G[t][j] = Right(t, j)
  <2>1. CASE Blocked(F, s, i) \/ a \notin {"crystal", "barrier", "flame", "storm", "shadow"}
    <3>1. G = F /\ Deed(F, s, i) \notin {"crystal", "barrier", "flame", "storm", "shadow"}
      BY <2>1 DEF Act, Deed
    <3>2. \A t \in Seats, j \in Slots : Right(t, j) = F[t][j]
      BY <3>1 DEF Effect
    <3> QED BY <3>1, <3>2
  <2>2. CASE ~Blocked(F, s, i) /\ a = "crystal"
    <3> DEFINE c == [F[s][i] EXCEPT !.bpMod = @ + 5]
    <3>1. G = Put(F, s, i, c) /\ Deed(F, s, i) = "crystal"
      BY <2>2 DEF Act, Deed, Put
    <3>2. \A t \in Seats, j \in Slots :
            Right(t, j) = IF t = s /\ j = i THEN c ELSE F[t][j]
      BY <3>1 DEF Effect
    <3>3. c \in Card
      BY <1>2, <3>2
    <3> HIDE DEF G, Right, c
    <3> QED BY <3>1, <3>2, <3>3, PutIs
  <2>3. CASE ~Blocked(F, s, i) /\ a = "barrier"
    <3> DEFINE c == [F[s][i] EXCEPT !.barrier = TRUE]
    <3>1. G = Put(F, s, i, c) /\ Deed(F, s, i) = "barrier"
      BY <2>3 DEF Act, Deed, Put
    <3>2. \A t \in Seats, j \in Slots :
            Right(t, j) = IF t = s /\ j = i THEN c ELSE F[t][j]
      BY <3>1 DEF Effect
    <3>3. c \in Card
      BY <1>2, <3>2
    <3> HIDE DEF G, Right, c
    <3> QED BY <3>1, <3>2, <3>3, PutIs
  <2>4. CASE ~Blocked(F, s, i) /\ a = "flame"
    <3> DEFINE c == [F[Opp(s)][i] EXCEPT !.hp = @ - 5]
    <3>1. G = Put(F, Opp(s), i, c) /\ Deed(F, s, i) = "flame"
      BY <2>4 DEF Act, Deed, Put
    <3>2. \A t \in Seats, j \in Slots :
            Right(t, j) = IF t = Opp(s) /\ j = i THEN c ELSE F[t][j]
      BY <1>3, <3>1 DEF Effect
    <3>3. c \in Card
      BY <1>2, <1>3, <3>2
    <3> HIDE DEF G, Right, c
    <3> QED BY <1>3, <3>1, <3>2, <3>3, PutIs
  <2>5. CASE ~Blocked(F, s, i) /\ a = "storm"
    <3>1. G = [F EXCEPT ![Opp(s)] = Storm(F[Opp(s)])] /\ Deed(F, s, i) = "storm"
      BY <2>5 DEF Act, Deed
    <3>2. F \in [Seats -> Field] /\ F[Opp(s)] \in Field
      BY <1>3 DEF Both
    <3>3. G \in Both /\ \A t \in Seats : G[t] = IF t = Opp(s) THEN Storm(F[Opp(s)]) ELSE F[t]
      BY <1>3, <3>1, <3>2, StormIs DEF Both
    <3>4. \A t \in Seats, j \in Slots :
            Right(t, j) = IF t = Opp(s) THEN [F[t][j] EXCEPT !.bpMod = @ - 2, !.barrier = FALSE]
                          ELSE F[t][j]
      BY <1>3, <3>1 DEF Effect
    <3>5. \A j \in Slots :
            Storm(F[Opp(s)])[j] = [F[Opp(s)][j] EXCEPT !.bpMod = @ - 2, !.barrier = FALSE]
      BY <3>2, StormIs
    <3>6. ASSUME NEW t \in Seats, NEW j \in Slots PROVE G[t][j] = Right(t, j)
      <4> HIDE DEF G, Right
      <4>1. CASE t = Opp(s)
        BY <3>3, <3>4, <3>5, <4>1
      <4>2. CASE t # Opp(s)
        BY <3>3, <3>4, <4>2
      <4> QED BY <4>1, <4>2
    <3> QED BY <3>3, <3>6
  <2>6. CASE ~Blocked(F, s, i) /\ a = "shadow"
    <3> DEFINE c == [F[s][i] EXCEPT !.shadow = TRUE]
    <3>1. G = Put(F, s, i, c) /\ Deed(F, s, i) = "shadow"
      BY <2>6 DEF Act, Deed, Put
    <3>2. \A t \in Seats, j \in Slots :
            Right(t, j) = IF t = s /\ j = i THEN c ELSE F[t][j]
      BY <3>1 DEF Effect
    <3>3. c \in Card
      BY <1>2, <3>2
    <3> HIDE DEF G, Right, c
    <3> QED BY <3>1, <3>2, <3>3, PutIs
  <2> QED BY <2>1, <2>2, <2>3, <2>4, <2>5, <2>6
<1> QED BY <1>4

(***************************************************************************)
(* The actions, one turn after the other.                                  *)
(***************************************************************************)
Acted(F, order, n) == Act(F, order[n][1], order[n][2])

\* g[n] is what the cards are like after n turns.
IsRun(F, sd, g) ==
  /\ g \in [0..(2 * HandSize) -> Both]
  /\ g[0] = F
  /\ \A n \in Turns : g[n] = Acted(g[n - 1], ActionOrder(F, sd), n)

LEMMA ActedIs ==
  ASSUME NEW F \in Both, NEW sd \in Bytes, NEW G \in Both, NEW n \in Turns
  PROVE  Acted(G, ActionOrder(F, sd), n) \in Both
<1>1. ActionOrder(F, sd)[n] \in All
  BY ActionOrderIs DEF Both
<1>2. ActionOrder(F, sd)[n][1] \in Seats /\ ActionOrder(F, sd)[n][2] \in Slots
  BY <1>1 DEF All
<1> QED BY <1>2, ActIs DEF Acted

LEMMA ActionsAre ==
  ASSUME NEW F \in Both, NEW sd \in Bytes
  PROVE  \E g : IsRun(F, sd, g) /\ Actions(F, sd) = g[2 * HandSize]
<1> DEFINE N == 2 * HandSize
           order == ActionOrder(F, sd)
           Next_(h, n) == IF n = 0 THEN F ELSE Acted(h[n - 1], order, n)
           Upto(m, h) == h \in [0..m -> Both] /\ \A n \in 0..m : h[n] = Next_(h, n)
           Good == {m \in Nat : m <= N => \E h : Upto(m, h)}
           Rec(h) == h = [n \in 0..N |-> Next_(h, n)]
<1>1. N \in Nat /\ Turns = 1..N
  BY BattleAssumption DEF Turns
<1>2. \A G \in Both, n \in 1..N : Acted(G, order, n) \in Both
  BY <1>1, ActedIs
<1> HIDE DEF N, order
<1>3. 0 \in Good
  <2>1. Upto(0, [n \in 0..0 |-> F])
    OBVIOUS
  <2> QED BY <2>1
<1>4. ASSUME NEW m \in Nat, m \in Good PROVE m + 1 \in Good
  <2>1. SUFFICES ASSUME m + 1 <= N PROVE \E h : Upto(m + 1, h)
    OBVIOUS
  <2>2. PICK h : Upto(m, h)
    BY <1>1, <1>4, <2>1
  <2> DEFINE last == Acted(h[m], order, m + 1)
             k == [n \in 0..(m + 1) |-> IF n = m + 1 THEN last ELSE h[n]]
  <2>3. last \in Both
    BY <1>1, <1>2, <2>1, <2>2
  <2>4. k \in [0..(m + 1) -> Both]
    <3> HIDE DEF last
    <3> QED BY <2>2, <2>3
  <2>5. ASSUME NEW n \in 0..(m + 1) PROVE k[n] = Next_(k, n)
    <3>1. CASE n = m + 1
      <4>1. n # 0 /\ n - 1 = m /\ m \in 0..(m + 1) /\ m # m + 1
        BY <3>1
      <4>2. k[n - 1] = h[m] /\ k[n] = last
        <5> HIDE DEF last
        <5> QED BY <3>1, <4>1
      <4> HIDE DEF k
      <4> QED BY <3>1, <4>1, <4>2
    <3>2. CASE n # m + 1
      <4>1. n \in 0..m /\ (n # 0 => n - 1 \in 0..m /\ n - 1 # m + 1 /\ n - 1 \in 0..(m + 1))
        BY <3>2
      <4>2. k[n] = h[n] /\ (n # 0 => k[n - 1] = h[n - 1])
        <5> HIDE DEF last
        <5> QED BY <3>2, <4>1
      <4> HIDE DEF k
      <4> QED BY <2>2, <4>1, <4>2
    <3> QED BY <3>1, <3>2
  <2> HIDE DEF k, Next_
  <2> QED BY <2>4, <2>5
<1>5. N \in Good
  <2> HIDE DEF Good
  <2> QED BY <1>1, <1>3, <1>4, InductionOverNat
<1>6. PICK h0 : Upto(N, h0)
  BY <1>1, <1>5
<1>7. Rec(h0)
  <2> HIDE DEF Next_
  <2> QED BY <1>6
<1>8. Actions(F, sd) = (CHOOSE h : Rec(h))[N]
  BY DEF Actions, Acted, N, order
<1>9. PICK g : g = (CHOOSE h : Rec(h)) /\ Rec(g)
  <2> HIDE DEF Rec
  <2> QED BY <1>7
<1>10. \A n \in 0..N : g[n] = Next_(g, n)
  <2> HIDE DEF Next_
  <2> QED BY <1>9
<1> DEFINE Typed == {n \in Nat : n <= N => g[n] \in Both}
<1>11. \A n \in Nat : n \in Typed
  <2>1. 0 \in Typed
    BY <1>1, <1>10
  <2>2. ASSUME NEW n \in Nat, n \in Typed PROVE n + 1 \in Typed
    <3>1. SUFFICES ASSUME n + 1 <= N PROVE g[n + 1] \in Both
      OBVIOUS
    <3>2. n + 1 \in 1..N /\ n + 1 \in 0..N /\ n + 1 # 0 /\ n + 1 - 1 = n /\ n <= N
      BY <1>1, <3>1
    <3>3. g[n + 1] = Acted(g[n], order, n + 1)
      BY <1>10, <3>2
    <3> QED BY <1>2, <2>2, <3>2, <3>3
  <2> HIDE DEF Typed
  <2> QED BY <2>1, <2>2, InductionOverNat
<1>12. g \in [0..N -> Both]
  <2>1. g = [n \in 0..N |-> g[n]]
    BY <1>9, <1>10
  <2>2. \A n \in 0..N : g[n] \in Both
    BY <1>1, <1>11
  <2> QED BY <2>1, <2>2
<1>13. g[0] = F /\ \A n \in 1..N : g[n] = Acted(g[n - 1], order, n)
  <2>1. 0 \in 0..N /\ \A n \in 1..N : n \in 0..N /\ n # 0
    BY <1>1
  <2> QED BY <1>10, <2>1
<1>14. IsRun(F, sd, g)
  BY <1>1, <1>12, <1>13 DEF IsRun, N, order
<1> QED BY <1>8, <1>9, <1>14 DEF N

LEMMA TurnsAre ==
  /\ 2 * HandSize \in Nat /\ Turns = 1..(2 * HandSize)
  /\ \A n \in Nat : n + 1 <= 2 * HandSize => n + 1 \in Turns /\ n \in 0..(2 * HandSize) /\ n <= 2 * HandSize
BY BattleAssumption DEF Turns

\* The card whose turn it is.
LEMMA ActorIs ==
  ASSUME NEW F \in Both, NEW sd \in Bytes, NEW n \in Turns
  PROVE  /\ ActionOrder(F, sd)[n] \in All
         /\ ActionOrder(F, sd)[n][1] \in Seats /\ ActionOrder(F, sd)[n][2] \in Slots
         /\ ActionOrder(F, sd)[n] = <<ActionOrder(F, sd)[n][1], ActionOrder(F, sd)[n][2]>>
<1>1. ActionOrder(F, sd)[n] \in All
  BY ActionOrderIs DEF Both
<1> QED BY <1>1 DEF All

\* No action changes what a card is to do, so each does what it set out to do.
LEMMA DeedIs ==
  ASSUME NEW F \in Both, NEW G \in Both,
         \A t \in Seats, j \in Slots : G[t][j].action = F[t][j].action
  PROVE  \A s \in Seats, i \in Slots : Deed(G, s, i) = Deed(F, s, i)
BY OppIs DEF Deed, Blocked

LEMMA RunKeeps ==
  ASSUME NEW F \in Both, NEW sd \in Bytes, NEW g, IsRun(F, sd, g)
  PROVE  \A n \in 0..(2 * HandSize) : \A t \in Seats, j \in Slots :
           g[n][t][j].action = F[t][j].action /\ g[n][t][j].ini = F[t][j].ini
<1> DEFINE N == 2 * HandSize
           order == ActionOrder(F, sd)
           Same(n) == \A t \in Seats, j \in Slots :
                        g[n][t][j].action = F[t][j].action /\ g[n][t][j].ini = F[t][j].ini
           Kept == {n \in Nat : n <= N => Same(n)}
<1>1. 0 \in Kept
  BY DEF IsRun
<1>2. ASSUME NEW n \in Nat, n \in Kept PROVE n + 1 \in Kept
  <2>1. SUFFICES ASSUME n + 1 <= N PROVE Same(n + 1)
    OBVIOUS
  <2>2. n + 1 \in Turns /\ n \in 0..N /\ n <= N /\ n + 1 - 1 = n
    BY <2>1, TurnsAre
  <2>3. g[n + 1] = Acted(g[n], order, n + 1) /\ g[n] \in Both
    BY <2>2 DEF IsRun
  <2>4. order[n + 1][1] \in Seats /\ order[n + 1][2] \in Slots
    BY <2>2, ActorIs
  <2>5. Same(n)
    BY <1>2, <2>2
  <2> HIDE DEF order
  <2>6. ASSUME NEW t \in Seats, NEW j \in Slots
        PROVE  g[n + 1][t][j].action = g[n][t][j].action /\ g[n + 1][t][j].ini = g[n][t][j].ini
    <3>1. g[n][t][j] \in Card
      BY <2>3 DEF Both, Field
    <3> DEFINE s == order[n + 1][1]
               i == order[n + 1][2]
    <3>2. g[n + 1][t][j] = Effect(g[n][t][j], Deed(g[n], s, i), t = s /\ j = i, t # s, t # s /\ j = i)
      BY <2>3, <2>4, ActIs DEF Acted
    <3> HIDE DEF s, i
    <3> DEFINE c == g[n][t][j]
               deed == Deed(g[n], s, i)
               own == t = s /\ j = i
               other == t # s
               facing == t # s /\ j = i
    <3>3. own \in BOOLEAN /\ other \in BOOLEAN /\ facing \in BOOLEAN
      OBVIOUS
    <3>4. c \in Card => /\ Effect(c, deed, own, other, facing).action = c.action
                        /\ Effect(c, deed, own, other, facing).ini = c.ini
      <4> HIDE DEF c, deed, own, other, facing
      <4> QED BY <3>3, EffectIs
    <3> QED BY <3>1, <3>2, <3>4
  <2> QED BY <2>5, <2>6
<1>3. \A n \in Nat : n \in Kept
  <2> HIDE DEF Kept
  <2> QED BY <1>1, <1>2, InductionOverNat
<1> QED BY <1>3, TurnsAre

\* Turn n, card by card.
LEMMA TurnIs ==
  ASSUME NEW F \in Both, NEW sd \in Bytes, NEW g, IsRun(F, sd, g), NEW n \in Nat, n + 1 \in Turns,
         NEW s \in Seats, NEW i \in Slots, ActionOrder(F, sd)[n + 1] = <<s, i>>
  PROVE  \A t \in Seats, j \in Slots :
           g[n + 1][t][j] =
             Effect(g[n][t][j], Deed(F, s, i), t = s /\ j = i, t # s, t # s /\ j = i)
<1>1. n + 1 - 1 = n /\ n \in 0..(2 * HandSize)
  BY TurnsAre
<1>2. g[n] \in Both /\ g[n + 1] = Act(g[n], s, i)
  BY <1>1 DEF IsRun, Acted
<1>3. Deed(g[n], s, i) = Deed(F, s, i)
  BY <1>1, <1>2, RunKeeps, DeedIs
<1> QED BY <1>2, <1>3, ActIs

(***************************************************************************)
(* Barriers.                                                               *)
(***************************************************************************)
Acts(F, s, i, action) == F[s][i].action = action /\ ~Blocked(F, s, i)
Storms(F, s) == {<<Opp(s), j>> : j \in {k \in Slots : Acts(F, Opp(s), k, "storm")}}

\* The card has had its turn.
Done(order, n, x) == \E m \in 1..n : order[m] = x

LEMMA DoneIs ==
  ASSUME NEW F \in Both, NEW sd \in Bytes, NEW n \in Nat, n + 1 \in Turns,
         NEW y, y = ActionOrder(F, sd)[n + 1]
  PROVE  /\ \A x : Done(ActionOrder(F, sd), n + 1, x) <=> Done(ActionOrder(F, sd), n, x) \/ x = y
         /\ ~Done(ActionOrder(F, sd), n, y)
         /\ \A x \in All : Done(ActionOrder(F, sd), n, x) =>
              ActsBefore(F, sd, x, y) /\ ~ActsBefore(F, sd, y, x)
<1> DEFINE order == ActionOrder(F, sd)
<1>1. \A m \in 1..(n + 1) : m \in 1..n \/ m = n + 1
  OBVIOUS
<1>2. n + 1 \in 1..(n + 1) /\ \A m \in 1..n : m \in 1..(n + 1) /\ m < n + 1
  OBVIOUS
<1>3. \A x : Done(order, n + 1, x) <=> Done(order, n, x) \/ x = y
  <2>1. y = order[n + 1]
    OBVIOUS
  <2> HIDE DEF order
  <2> QED BY <1>1, <1>2, <2>1 DEF Done
<1>4. \A m \in 1..n : m \in Turns
  BY TurnsAre
<1>5. y \in All
  BY ActorIs
<1>6. \A x, z \in All : ActsBefore(F, sd, x, z) => ~ActsBefore(F, sd, z, x)
  <2>1. \A x, z \in All : <<x, z>> \in TurnOrder(F, sd) <=> ActsBefore(F, sd, x, z)
    BY DEF TurnOrder
  <2> QED BY <2>1, TurnIsOrder DEF IsOrder, Both
<1>7. \A m \in 1..n : ActsBefore(F, sd, order[m], y)
  BY <1>2, <1>4, ActionOrderIs DEF Both
<1>8. ~Done(order, n, y)
  <2> HIDE DEF order
  <2> QED BY <1>5, <1>6, <1>7 DEF Done
<1>9. \A x \in All : Done(order, n, x) => ActsBefore(F, sd, x, y) /\ ~ActsBefore(F, sd, y, x)
  <2> HIDE DEF order
  <2> QED BY <1>5, <1>6, <1>7 DEF Done
<1> QED BY <1>3, <1>8, <1>9

\* A barrier stands after n turns if it was raised in them and every storm in
\* them came before, or stood at the outset and no storm came.
Standing(F, sd, n, s, i) ==
  \/ /\ Acts(F, s, i, "barrier")
     /\ Done(ActionOrder(F, sd), n, <<s, i>>)
     /\ \A x \in Storms(F, s) :
          Done(ActionOrder(F, sd), n, x) => ActsBefore(F, sd, x, <<s, i>>)
  \/ /\ F[s][i].barrier
     /\ \A x \in Storms(F, s) : ~Done(ActionOrder(F, sd), n, x)

LEMMA BarrierInTurn ==
  ASSUME NEW F \in Both, NEW sd \in Bytes, NEW g, IsRun(F, sd, g), NEW n \in Nat, n + 1 \in Turns,
         NEW s \in Seats, NEW i \in Slots,
         g[n][s][i].barrier <=> Standing(F, sd, n, s, i)
  PROVE  g[n + 1][s][i].barrier <=> Standing(F, sd, n + 1, s, i)
<1> DEFINE order == ActionOrder(F, sd)
<1>1. PICK t \in Seats, j \in Slots : order[n + 1] = <<t, j>>
  BY ActorIs
<1> DEFINE deed == Deed(F, t, j)
           own == s = t /\ i = j
           other == s # t
           facing == s # t /\ i = j
<1>2. /\ \A x : Done(order, n + 1, x) <=> Done(order, n, x) \/ x = <<t, j>>
      /\ ~Done(order, n, <<t, j>>)
      /\ \A x \in All : Done(order, n, x) =>
           ActsBefore(F, sd, x, <<t, j>>) /\ ~ActsBefore(F, sd, <<t, j>>, x)
  BY <1>1, DoneIs
<1>3. g[n + 1][s][i] = Effect(g[n][s][i], deed, own, other, facing)
  BY <1>1, TurnIs
<1>4. g[n][s][i] \in Card
  BY TurnsAre DEF IsRun, Both, Field
<1>5. g[n + 1][s][i].barrier <=>
        (deed = "barrier" /\ own) \/ (g[n][s][i].barrier /\ ~(deed = "storm" /\ other))
  <2>1. own \in BOOLEAN /\ other \in BOOLEAN /\ facing \in BOOLEAN
    OBVIOUS
  <2> HIDE DEF deed, own, other, facing
  <2> QED BY <1>3, <1>4, <2>1, EffectIs
<1>6. /\ deed = "barrier" <=> Acts(F, t, j, "barrier")
      /\ deed = "storm" <=> Acts(F, t, j, "storm")
  BY DEF Deed, Acts
<1>7. \A x \in Storms(F, s) : x \in All /\ x # <<s, i>> /\ x[1] # s
  BY OppIs DEF Storms, All
<1>8. <<t, j>> \in Storms(F, s) <=> deed = "storm" /\ other
  BY <1>6, OppIs DEF Storms, Seats
<1>9. <<s, i>> \in All /\ (own <=> <<s, i>> = <<t, j>>)
  BY DEF All
<1> HIDE DEF deed, own, other, facing, order
<1>10. CASE deed = "storm" /\ other
  BY <1>2, <1>5, <1>7, <1>8, <1>9, <1>10 DEF Standing, order
<1>11. CASE deed = "barrier" /\ own
  BY <1>2, <1>5, <1>6, <1>7, <1>8, <1>9, <1>11 DEF Standing, order, own
<1>12. CASE ~(deed = "storm" /\ other) /\ ~(deed = "barrier" /\ own)
  BY <1>2, <1>5, <1>6, <1>7, <1>8, <1>9, <1>12 DEF Standing, order, own
<1> QED BY <1>10, <1>11, <1>12

LEMMA BarriersAre ==
  ASSUME NEW F \in Both, NEW sd \in Bytes, NEW s \in Seats, NEW i \in Slots
  PROVE  Actions(F, sd)[s][i].barrier <=>
           \/ Acts(F, s, i, "barrier") /\ \A x \in Storms(F, s) : ActsBefore(F, sd, x, <<s, i>>)
           \/ F[s][i].barrier /\ Storms(F, s) = {}
<1> DEFINE N == 2 * HandSize
<1>1. PICK g : IsRun(F, sd, g) /\ Actions(F, sd) = g[N]
  BY ActionsAre
<1> DEFINE Stands(n) == g[n][s][i].barrier <=> Standing(F, sd, n, s, i)
           Good == {n \in Nat : n <= N => Stands(n)}
<1>2. 0 \in Good
  <2>1. \A x : ~Done(ActionOrder(F, sd), 0, x)
    BY DEF Done
  <2>2. g[0] = F
    BY <1>1 DEF IsRun
  <2> QED BY <2>1, <2>2 DEF Standing
<1>3. ASSUME NEW n \in Nat, n \in Good PROVE n + 1 \in Good
  <2>1. SUFFICES ASSUME n + 1 <= N PROVE Stands(n + 1)
    OBVIOUS
  <2>2. n + 1 \in Turns /\ n <= N
    BY <2>1, TurnsAre
  <2>3. Stands(n)
    BY <1>3, <2>2
  <2> QED BY <1>1, <2>2, <2>3, BarrierInTurn
<1>4. Stands(N)
  <2>1. \A n \in Nat : n \in Good
    <3> HIDE DEF Good
    <3> QED BY <1>2, <1>3, InductionOverNat
  <2> QED BY <2>1, TurnsAre
<1>5. \A x \in All : Done(ActionOrder(F, sd), N, x)
  BY ActionOrderIs, TurnsAre DEF Done, Both
<1>6. <<s, i>> \in All /\ \A x \in Storms(F, s) : x \in All
  BY OppIs DEF Storms, All
<1> QED BY <1>1, <1>4, <1>5, <1>6 DEF Standing

LEMMA ReadyIs ==
  ASSUME NEW h \in [Seats -> [Slots -> DOMAIN Table]], NEW sd \in Bytes
  PROVE  Ready(h, sd) \in Both
<1>1. Passives(Fields(h)) \in [Seats -> Field]
  BY FieldsAre, PassivesAre
<1>2. Passives(Fields(h))[1] \in Field /\ Passives(Fields(h))[2] \in Field
  BY <1>1 DEF Seats
<1>3. Lined(Passives(Fields(h))[1], sd, 0) \in Field /\ Lined(Passives(Fields(h))[2], sd, 8) \in Field
  BY <1>2, LinedIs DEF Offsets
<1> QED BY <1>3, PairIs DEF Ready, Both

(***************************************************************************)
(* The duel: the hands and the seed stay, and the totals are the outcome.  *)
(***************************************************************************)
BattleInv ==
  /\ hands \in [Seats -> [Slots -> DOMAIN Table]]
  /\ seed \in Bytes
  /\ totals = None \/ totals = Resolved(hands, seed)

\* The hands and the seed a round was revealed with stay, and the totals, once
\* there, are the outcome of these.
THEOREM BattleInvariance == Spec => []BattleInv
<1>1. Init => BattleInv
  <2>1. Hands \subseteq [Slots -> DOMAIN Table] /\ Seeds \subseteq Bytes
    BY BattleAssumption DEF Slots, Bytes
  <2> QED BY <2>1 DEF Init, BattleInv
<1>2. BattleInv /\ [RevealHand]_vars => BattleInv'
  <2>1. SUFFICES ASSUME BattleInv, [RevealHand]_vars PROVE BattleInv'
    OBVIOUS
  <2>2. hands' = hands /\ seed' = seed
    BY <2>1 DEF RevealHand, vars
  <2>3. totals' = totals \/ totals' = Resolved(hands, seed)
    BY <2>1 DEF RevealHand, vars
  <2>4. hands' \in [Seats -> [Slots -> DOMAIN Table]] /\ seed' \in Bytes
    BY <2>1, <2>2 DEF BattleInv
  <2>5. totals' = None \/ totals' = Resolved(hands', seed')
    BY <2>1, <2>2, <2>3 DEF BattleInv
  <2> QED BY <2>4, <2>5 DEF BattleInv
<1> QED BY <1>1, <1>2, PTL DEF Spec

LEMMA InvKeepsBarrierRule == BattleInv => BarrierRule
<1>1. SUFFICES ASSUME BattleInv PROVE BarrierRule
  OBVIOUS
<1> DEFINE F == Ready(hands, seed)
           acts(s, i, action) == F[s][i].action = action /\ ~Blocked(F, s, i)
           storms(s) == {<<Opp(s), j>> : j \in {k \in Slots : acts(Opp(s), k, "storm")}}
           G == Actions(F, seed)
<1>2. F \in Both /\ seed \in Bytes
  BY <1>1, ReadyIs DEF BattleInv
<1>3. \A s \in Seats : storms(s) = Storms(F, s)
  BY DEF Storms, Acts
<1>4. \A s \in Seats, i \in Slots : acts(s, i, "barrier") <=> Acts(F, s, i, "barrier")
  BY DEF Acts
<1>5. \A s \in Seats, i \in Slots :
        G[s][i].barrier <=>
          \/ acts(s, i, "barrier") /\ \A x \in storms(s) : ActsBefore(F, seed, x, <<s, i>>)
          \/ F[s][i].barrier /\ storms(s) = {}
  <2> HIDE DEF F, acts, storms
  <2> QED BY <1>2, <1>3, <1>4, BarriersAre
<1> QED BY <1>5 DEF BarrierRule

(***************************************************************************)
(* Combat.                                                                 *)
(***************************************************************************)
LEMMA RowOfAny ==
  ASSUME NEW f, f = [i \in Slots |-> f[i]]
  PROVE  Row(f) = f
<1>1. f \in [Slots -> {f[i] : i \in Slots}]
  OBVIOUS
<1> QED BY <1>1, RowIs

LEMMA ReverseIs == ASSUME NEW x, NEW y PROVE Reverse(<<x, y>>) = <<y, x>>
<1>1. Len(<<x, y>>) = 2 /\ <<x, y>>[1] = x /\ <<x, y>>[2] = y
  OBVIOUS
<1>2. Reverse(<<x, y>>) = [i \in 1..2 |-> <<x, y>>[2 - i + 1]]
  BY <1>1 DEF Reverse
<1>3. DOMAIN <<y, x>> = 1..2 /\ <<y, x>> = [i \in 1..2 |-> <<y, x>>[i]]
  OBVIOUS
<1>4. \A i \in 1..2 : <<x, y>>[2 - i + 1] = <<y, x>>[i]
  <2>1. \A i \in 1..2 : (i = 1 /\ 2 - i + 1 = 2) \/ (i = 2 /\ 2 - i + 1 = 1)
    OBVIOUS
  <2> QED BY <2>1
<1> QED BY <1>2, <1>3, <1>4

\* The first card of a pair strikes first.
Leads(a, b, byte) == a.ini > b.ini \/ (a.ini = b.ini /\ byte < 128)

\* What is left of a card that meets another, and leads or does not.
Struck(a, b, leads) ==
  IF a.shadow \/ b.shadow THEN a
  ELSE IF leads /\ ~(Hit(b, a).hp > 0) THEN a
  ELSE Hit(a, b)

LEMMA PairFights ==
  ASSUME NEW a, NEW b, NEW byte
  PROVE  Pair(a, b, byte) = <<Struck(a, b, Leads(a, b, byte)), Struck(b, a, ~Leads(a, b, byte))>>
<1>1. CASE a.shadow \/ b.shadow
  BY <1>1 DEF Pair, Struck
<1>2. CASE ~(a.shadow \/ b.shadow) /\ Leads(a, b, byte)
  BY <1>2 DEF Pair, Struck, Leads, Clash
<1>3. CASE ~(a.shadow \/ b.shadow) /\ ~Leads(a, b, byte)
  <2>1. Pair(a, b, byte) = Reverse(Clash(b, a))
    BY <1>3 DEF Pair, Leads
  <2>2. Clash(b, a) = <<Struck(b, a, TRUE), Struck(a, b, FALSE)>>
    BY <1>3 DEF Clash, Struck
  <2>3. /\ Struck(a, b, Leads(a, b, byte)) = Struck(a, b, FALSE)
        /\ Struck(b, a, ~Leads(a, b, byte)) = Struck(b, a, TRUE)
    BY <1>3 DEF Struck
  <2>4. Reverse(Clash(b, a)) = <<Struck(a, b, FALSE), Struck(b, a, TRUE)>>
    BY <2>2, ReverseIs
  <2> QED BY <2>1, <2>3, <2>4
<1> QED BY <1>1, <1>2, <1>3

LEMMA CombatIs ==
  ASSUME NEW F, NEW sd
  PROVE  Combat(F, sd) =
           <<[i \in Slots |-> Struck(F[1][i], F[2][i], Leads(F[1][i], F[2][i], sd[24 + i - 1]))],
             [i \in Slots |-> Struck(F[2][i], F[1][i], ~Leads(F[1][i], F[2][i], sd[24 + i - 1]))]>>
<1> DEFINE pair(i) == Pair(F[1][i], F[2][i], sd[24 + i - 1])
           pairs == [i \in Slots |-> pair(i)]
           left == [i \in Slots |-> pairs[i][1]]
           right == [i \in Slots |-> pairs[i][2]]
<1>1. Row(pairs) = pairs
  <2>1. pairs = [i \in Slots |-> pairs[i]]
    <3> HIDE DEF pair
    <3> QED OBVIOUS
  <2> HIDE DEF pairs
  <2> QED BY <2>1, RowOfAny
<1>2. Row(left) = left /\ Row(right) = right
  <2>1. left = [i \in Slots |-> left[i]] /\ right = [i \in Slots |-> right[i]]
    <3> HIDE DEF pairs
    <3> QED OBVIOUS
  <2> HIDE DEF left, right
  <2> QED BY <2>1, RowOfAny
<1>3. Combat(F, sd) = <<left, right>>
  <2>1. Combat(F, sd) = <<Row([i \in Slots |-> Row(pairs)[i][1]]), Row([i \in Slots |-> Row(pairs)[i][2]])>>
    BY DEF Combat
  <2> HIDE DEF pairs
  <2> QED BY <1>1, <1>2, <2>1
<1>4. \A i \in Slots :
        /\ pairs[i][1] = Struck(F[1][i], F[2][i], Leads(F[1][i], F[2][i], sd[24 + i - 1]))
        /\ pairs[i][2] = Struck(F[2][i], F[1][i], ~Leads(F[1][i], F[2][i], sd[24 + i - 1]))
  BY PairFights
<1>5. left = [i \in Slots |-> Struck(F[1][i], F[2][i], Leads(F[1][i], F[2][i], sd[24 + i - 1]))]
  <2> HIDE DEF pairs
  <2> QED BY <1>4
<1>6. right = [i \in Slots |-> Struck(F[2][i], F[1][i], ~Leads(F[1][i], F[2][i], sd[24 + i - 1]))]
  <2> HIDE DEF pairs
  <2> QED BY <1>4
<1> QED BY <1>3, <1>5, <1>6

\* The total looks at the power and the health of the cards and at nothing else.
LEMMA TotalSees ==
  ASSUME NEW f, NEW e,
         \A i \in Slots : Power(f[i]) = Power(e[i]) /\ f[i].hp = e[i].hp
  PROVE  Total(f) = Total(e)
<1>1. [i \in Slots |-> Power(f[i])] = [i \in Slots |-> Power(e[i])]
  OBVIOUS
<1>2. {i \in Slots : f[i].hp > 0} = {i \in Slots : e[i].hp > 0}
  OBVIOUS
<1> QED BY <1>1, <1>2 DEF Total

(***************************************************************************)
(* Blocked cards.                                                          *)
(***************************************************************************)
\* The same card, but for its action.
As(c, a) == [c EXCEPT !.action = a]

LEMMA AsIs ==
  ASSUME NEW c \in Card, NEW a \in Deeds
  PROVE  /\ As(c, a) \in Card /\ As(c, a).action = a
         /\ As(c, a).ini = c.ini /\ As(c, a).hp = c.hp /\ As(c, a).bp = c.bp
         /\ As(c, a).bpMod = c.bpMod /\ As(c, a).barrier = c.barrier
         /\ As(c, a).shadow = c.shadow /\ As(c, c.action) = c
BY DEF As, Card

\* The field on which blocked cards have no action.
IsIdle(F, I) ==
  /\ I \in Both
  /\ \A s \in Seats, i \in Slots : I[s][i] = As(F[s][i], Deed(F, s, i))

LEMMA DeedIsDeed ==
  ASSUME NEW F \in Both, NEW s \in Seats, NEW i \in Slots
  PROVE  F[s][i] \in Card /\ Deed(F, s, i) \in Deeds
<1>1. F[s][i] \in Card
  BY DEF Both, Field
<1>2. F[s][i].action \in Deeds
  BY <1>1 DEF Card
<1>3. "none" \in Deeds
  BY DEF Deeds
<1> QED BY <1>1, <1>2, <1>3 DEF Deed

LEMMA IdleDeeds ==
  ASSUME NEW F \in Both, NEW I, IsIdle(F, I), NEW s \in Seats, NEW i \in Slots
  PROVE  Deed(I, s, i) = Deed(F, s, i) /\ I[s][i].ini = F[s][i].ini
<1>1. ASSUME NEW t \in Seats, NEW j \in Slots
      PROVE  I[t][j].action = Deed(F, t, j) /\ I[t][j].ini = F[t][j].ini
  <2> DEFINE c == F[t][j]
             a == Deed(F, t, j)
  <2>1. c \in Card /\ a \in Deeds /\ I[t][j] = As(c, a)
    BY DeedIsDeed DEF IsIdle
  <2>2. As(c, a).action = a /\ As(c, a).ini = c.ini
    <3> HIDE DEF c, a
    <3> QED BY <2>1, AsIs
  <2> QED BY <2>1, <2>2
<1>2. Opp(s) \in Seats
  BY OppIs
<1> QED BY <1>1, <1>2 DEF Deed, Blocked

\* Only initiative, seed and place decide when a card has its turn.
LEMMA TurnsDependOnIni ==
  ASSUME NEW F \in Both, NEW G \in Both, NEW sd \in Bytes,
         \A t \in Seats, j \in Slots : G[t][j].ini = F[t][j].ini
  PROVE  \A n \in Turns : ActionOrder(G, sd)[n] = ActionOrder(F, sd)[n]
<1>1. \A x \in All : G[x[1]][x[2]].ini = F[x[1]][x[2]].ini
  BY DEF All
<1>2. TurnOrder(G, sd) = TurnOrder(F, sd)
  BY <1>1 DEF TurnOrder, ActsBefore
<1> TAKE n \in Turns
<1>3. /\ ActionOrder(G, sd)[n] \in All /\ ActionOrder(F, sd)[n] \in All
      /\ Rank(TurnOrder(F, sd), All, ActionOrder(F, sd)[n]) = n - 1
      /\ Rank(TurnOrder(G, sd), All, ActionOrder(G, sd)[n]) = n - 1
  BY ActionOrderIs, ActorIs DEF Both
<1>4. IsFiniteSet(All) /\ IsOrder(TurnOrder(F, sd), All)
  BY AllAreFinite, TurnIsOrder DEF Both
<1> QED BY <1>2, <1>3, <1>4, RankIsOwn

LEMMA IdleRun ==
  ASSUME NEW F \in Both, NEW I, IsIdle(F, I), NEW sd \in Bytes
  PROVE  \A s \in Seats, i \in Slots :
           /\ Actions(F, sd)[s][i] \in Card
           /\ Actions(I, sd)[s][i] = As(Actions(F, sd)[s][i], Deed(F, s, i))
<1> DEFINE N == 2 * HandSize
<1>1. I \in Both
  BY DEF IsIdle
<1>2. PICK g : IsRun(F, sd, g) /\ Actions(F, sd) = g[N]
  BY ActionsAre
<1>3. PICK k : IsRun(I, sd, k) /\ Actions(I, sd) = k[N]
  BY <1>1, ActionsAre
<1> DEFINE Alike(n) == \A s \in Seats, i \in Slots : k[n][s][i] = As(g[n][s][i], Deed(F, s, i))
           Good == {n \in Nat : n <= N => Alike(n)}
<1>4. 0 \in Good
  BY <1>2, <1>3 DEF IsRun, IsIdle
<1>5. ASSUME NEW n \in Nat, n \in Good PROVE n + 1 \in Good
  <2>1. SUFFICES ASSUME n + 1 <= N PROVE Alike(n + 1)
    OBVIOUS
  <2>2. n + 1 \in Turns /\ n \in 0..N /\ n <= N
    BY <2>1, TurnsAre
  <2>3. PICK s \in Seats, i \in Slots : ActionOrder(F, sd)[n + 1] = <<s, i>>
    BY <2>2, ActorIs
  <2>4. ActionOrder(I, sd)[n + 1] = <<s, i>>
    BY <1>1, <2>2, <2>3, IdleDeeds, TurnsDependOnIni
  <2>5. Deed(I, s, i) = Deed(F, s, i)
    BY IdleDeeds
  <2>6. ASSUME NEW t \in Seats, NEW j \in Slots
        PROVE  k[n + 1][t][j] = As(g[n + 1][t][j], Deed(F, t, j))
    <3> DEFINE deed == Deed(F, s, i)
               own == t = s /\ j = i
               other == t # s
               facing == t # s /\ j = i
               c == g[n][t][j]
    <3>1. g[n + 1][t][j] = Effect(c, deed, own, other, facing)
      BY <1>2, <2>2, <2>3, TurnIs
    <3>2. k[n + 1][t][j] = Effect(k[n][t][j], deed, own, other, facing)
      BY <1>1, <1>3, <2>2, <2>4, <2>5, TurnIs
    <3>3. k[n][t][j] = As(c, Deed(F, t, j)) /\ Deed(F, t, j) \in Deeds
      BY <1>5, <2>2, DeedIsDeed
    <3>4. c \in Card
      BY <1>2, <2>2 DEF IsRun, Both, Field
    <3>5. own \in BOOLEAN /\ other \in BOOLEAN /\ facing \in BOOLEAN
      OBVIOUS
    <3> HIDE DEF deed, own, other, facing, c
    <3> QED BY <3>1, <3>2, <3>3, <3>4, <3>5, EffectSeesNoAction DEF As
  <2> QED BY <2>6
<1>6. Alike(N)
  <2>1. \A n \in Nat : n \in Good
    <3> HIDE DEF Good
    <3> QED BY <1>4, <1>5, InductionOverNat
  <2> QED BY <2>1, TurnsAre
<1>7. g[N] \in Both
  BY <1>2, TurnsAre DEF IsRun
<1>8. \A s \in Seats, i \in Slots : g[N][s][i] \in Card
  BY <1>7 DEF Both, Field
<1> QED BY <1>2, <1>3, <1>6, <1>8

\* Striking and being struck do not depend on actions.
LEMMA StruckSeesNoAction ==
  ASSUME NEW a \in Card, NEW b \in Card, NEW x \in Deeds, NEW y \in Deeds, NEW leads \in BOOLEAN
  PROVE  /\ Struck(As(a, x), As(b, y), leads).hp = Struck(a, b, leads).hp
         /\ Power(Struck(As(a, x), As(b, y), leads)) = Power(Struck(a, b, leads))
<1>1. \A c, d \in Card :
        /\ Hit(c, d).hp = IF c.barrier THEN c.hp ELSE c.hp - Power(d)
        /\ Hit(c, d).bp = c.bp /\ Hit(c, d).bpMod = c.bpMod
  BY DEF Hit, Card
<1>2. \A c \in Card, z \in Deeds : As(c, z) \in Card /\ Power(As(c, z)) = Power(c)
  BY AsIs DEF Power
<1>3. ASSUME NEW c \in Card, NEW d \in Card, NEW z \in Deeds, NEW w \in Deeds
      PROVE  /\ Hit(As(c, z), As(d, w)).hp = Hit(c, d).hp
             /\ Power(Hit(As(c, z), As(d, w))) = Power(Hit(c, d))
  <2>1. /\ As(c, z) \in Card /\ As(d, w) \in Card
        /\ As(c, z).hp = c.hp /\ As(c, z).bp = c.bp /\ As(c, z).bpMod = c.bpMod
        /\ As(c, z).barrier = c.barrier
    BY AsIs
  <2>2. Power(As(d, w)) = Power(d)
    BY <1>2
  <2>3. /\ Hit(As(c, z), As(d, w)).hp = Hit(c, d).hp
        /\ Hit(As(c, z), As(d, w)).bp = Hit(c, d).bp
        /\ Hit(As(c, z), As(d, w)).bpMod = Hit(c, d).bpMod
    BY <1>1, <2>1, <2>2
  <2> QED BY <2>3 DEF Power
<1>4. /\ As(a, x).shadow = a.shadow /\ As(b, y).shadow = b.shadow
      /\ As(a, x).hp = a.hp /\ Power(As(a, x)) = Power(a)
  BY <1>2, AsIs
<1>5. /\ Hit(As(a, x), As(b, y)).hp = Hit(a, b).hp
      /\ Power(Hit(As(a, x), As(b, y))) = Power(Hit(a, b))
      /\ Hit(As(b, y), As(a, x)).hp = Hit(b, a).hp
  BY <1>3
<1> QED BY <1>4, <1>5 DEF Struck

LEMMA IdleTotals ==
  ASSUME NEW F \in Both, NEW I, IsIdle(F, I), NEW sd \in Bytes
  PROVE  \A s \in Seats :
           Total(Combat(Actions(I, sd), sd)[s]) = Total(Combat(Actions(F, sd), sd)[s])
<1> DEFINE A == Actions(F, sd)
           B == Actions(I, sd)
           lead(i) == Leads(A[1][i], A[2][i], sd[24 + i - 1])
<1>1. \A s \in Seats, i \in Slots :
        A[s][i] \in Card /\ Deed(F, s, i) \in Deeds /\ B[s][i] = As(A[s][i], Deed(F, s, i))
  BY IdleRun, DeedIsDeed
<1>2. 1 \in Seats /\ 2 \in Seats /\ \A s \in Seats : s = 1 \/ s = 2
  BY DEF Seats
<1> HIDE DEF A, B
<1>3. \A i \in Slots : Leads(B[1][i], B[2][i], sd[24 + i - 1]) <=> lead(i)
  <2>1. ASSUME NEW s \in Seats, NEW i \in Slots PROVE B[s][i].ini = A[s][i].ini
    <3> DEFINE c == A[s][i]
               a == Deed(F, s, i)
    <3>1. c \in Card /\ a \in Deeds /\ B[s][i] = As(c, a)
      BY <1>1
    <3>2. As(c, a).ini = c.ini
      <4> HIDE DEF c, a
      <4> QED BY <3>1, AsIs
    <3> QED BY <3>1, <3>2
  <2> QED BY <1>2, <2>1 DEF Leads
<1>4. \A i \in Slots : lead(i) \in BOOLEAN /\ (~lead(i)) \in BOOLEAN
  BY DEF Leads
<1> DEFINE one(i, l) == Struck(A[1][i], A[2][i], l)
           two(i, l) == Struck(A[2][i], A[1][i], l)
           oneB(i, l) == Struck(B[1][i], B[2][i], l)
           twoB(i, l) == Struck(B[2][i], B[1][i], l)
<1>5. \A i \in Slots, l \in BOOLEAN :
        /\ oneB(i, l).hp = one(i, l).hp /\ Power(oneB(i, l)) = Power(one(i, l))
        /\ twoB(i, l).hp = two(i, l).hp /\ Power(twoB(i, l)) = Power(two(i, l))
  BY <1>1, <1>2, StruckSeesNoAction
<1>6. /\ Combat(A, sd) = <<[i \in Slots |-> one(i, lead(i))], [i \in Slots |-> two(i, ~lead(i))]>>
      /\ Combat(B, sd) = <<[i \in Slots |-> oneB(i, Leads(B[1][i], B[2][i], sd[24 + i - 1]))],
                           [i \in Slots |-> twoB(i, ~Leads(B[1][i], B[2][i], sd[24 + i - 1]))]>>
  BY CombatIs
<1>7. \A i \in Slots :
        /\ Leads(B[1][i], B[2][i], sd[24 + i - 1]) = lead(i)
        /\ ~Leads(B[1][i], B[2][i], sd[24 + i - 1]) = ~lead(i)
  BY <1>3 DEF Leads
<1>8. Combat(B, sd) = <<[i \in Slots |-> oneB(i, lead(i))], [i \in Slots |-> twoB(i, ~lead(i))]>>
  <2> HIDE DEF oneB, twoB, lead
  <2> QED BY <1>6, <1>7
<1>9. Total([i \in Slots |-> oneB(i, lead(i))]) = Total([i \in Slots |-> one(i, lead(i))])
  <2> HIDE DEF oneB, one, lead
  <2> QED BY <1>4, <1>5, TotalSees
<1>10. Total([i \in Slots |-> twoB(i, ~lead(i))]) = Total([i \in Slots |-> two(i, ~lead(i))])
  <2> HIDE DEF twoB, two, lead
  <2> QED BY <1>4, <1>5, TotalSees
<1> HIDE DEF one, two, oneB, twoB, lead
<1>11. \A s \in Seats : Total(Combat(B, sd)[s]) = Total(Combat(A, sd)[s])
  BY <1>2, <1>6, <1>8, <1>9, <1>10
<1> QED BY <1>11 DEF A, B

LEMMA IdleIs ==
  ASSUME NEW F \in Both
  PROVE  IsIdle(F, <<Row([i \in Slots |-> IF Blocked(F, 1, i) THEN As(F[1][i], "none") ELSE F[1][i]]),
                     Row([i \in Slots |-> IF Blocked(F, 2, i) THEN As(F[2][i], "none") ELSE F[2][i]])>>)
<1> DEFINE idle(s) == [i \in Slots |-> IF Blocked(F, s, i) THEN As(F[s][i], "none") ELSE F[s][i]]
<1>1. ASSUME NEW s \in Seats, NEW i \in Slots
      PROVE  idle(s)[i] = As(F[s][i], Deed(F, s, i)) /\ idle(s)[i] \in Card
  <2> DEFINE c == F[s][i]
  <2>1. c \in Card /\ Deed(F, s, i) \in Deeds
    BY DeedIsDeed
  <2>2. As(c, c.action) = c /\ As(c, Deed(F, s, i)) \in Card
    <3>1. c.action \in Deeds
      BY <2>1 DEF Card
    <3> HIDE DEF c
    <3> QED BY <2>1, <3>1, AsIs
  <2> QED BY <2>1, <2>2 DEF Deed
<1>2. \A s \in Seats : idle(s) \in Field
  BY <1>1 DEF Field
<1> HIDE DEF idle
<1>3. \A s \in Seats : Row(idle(s)) = idle(s)
  BY <1>2, RowIs DEF Field
<1>4. 1 \in Seats /\ 2 \in Seats /\ \A s \in Seats : s = 1 \/ s = 2
  BY DEF Seats
<1>5. <<idle(1), idle(2)>> \in Both /\ \A s \in Seats : <<idle(1), idle(2)>>[s] = idle(s)
  BY <1>2, <1>4, PairIs DEF Both
<1>6. IsIdle(F, <<idle(1), idle(2)>>)
  BY <1>1, <1>5 DEF IsIdle
<1> QED BY <1>3, <1>4, <1>6 DEF idle

LEMMA InvKeepsBlocked == BattleInv => BlockedDoesNothing
<1>1. SUFFICES ASSUME BattleInv, totals # None PROVE BlockedDoesNothing
  BY DEF BlockedDoesNothing
<1> DEFINE F == Ready(hands, seed)
           idle(s) == Row([i \in Slots |->
                        IF Blocked(F, s, i) THEN [F[s][i] EXCEPT !.action = "none"] ELSE F[s][i]])
           I == <<idle(1), idle(2)>>
           G == Combat(Actions(I, seed), seed)
           H == Combat(Actions(F, seed), seed)
<1>2. F \in Both /\ seed \in Bytes
  BY <1>1, ReadyIs DEF BattleInv
<1>3. IsIdle(F, I)
  <2>1. IsIdle(F, <<Row([i \in Slots |-> IF Blocked(F, 1, i) THEN As(F[1][i], "none") ELSE F[1][i]]),
                     Row([i \in Slots |-> IF Blocked(F, 2, i) THEN As(F[2][i], "none") ELSE F[2][i]])>>)
    <3> HIDE DEF F
    <3> QED BY <1>2, IdleIs
  <2> QED BY <2>1 DEF As
<1>4. totals = <<Total(H[1]), Total(H[2])>>
  BY <1>1 DEF BattleInv, Resolved
<1>5. Total(G[1]) = Total(H[1]) /\ Total(G[2]) = Total(H[2])
  <2>1. 1 \in Seats /\ 2 \in Seats
    BY DEF Seats
  <2> HIDE DEF F, I
  <2> QED BY <1>2, <1>3, <2>1, IdleTotals
<1>6. <<Total(G[1]), Total(G[2])>> = totals
  <2> HIDE DEF G, H
  <2> QED BY <1>4, <1>5
<1> QED BY <1>6 DEF BlockedDoesNothing

\* A barrier stands exactly if nothing tore it down, and a card that is blocked
\* might as well have no action: the totals of the round are the same.
THEOREM BattleActionsKeepRules == Spec => []ActionsKeepRules
<1>1. BattleInv => ActionsKeepRules
  BY InvKeepsBarrierRule, InvKeepsBlocked DEF ActionsKeepRules
<1> QED BY <1>1, BattleInvariance, PTL

(***************************************************************************)
(* Cards that change places.                                               *)
(***************************************************************************)
IsShuffle(r, S) ==
  /\ r \in [S -> S]
  /\ \A x, y \in S : r[x] = r[y] => x = y
  /\ \A y \in S : \E x \in S : r[x] = y
KeepsOrder(r, S, Q, R) == \A x, y \in S : <<x, y>> \in Q <=> <<r[x], r[y]>> \in R

Mirrors(r, S, A, B) == \A x \in S : x \in A <=> r[x] \in B

LEMMA MirrorsCount ==
  ASSUME NEW S, IsFiniteSet(S), NEW r, IsShuffle(r, S),
         NEW A \in SUBSET S, NEW B \in SUBSET S, Mirrors(r, S, A, B)
  PROVE  Cardinality(A) = Cardinality(B)
<1> DEFINE f == [x \in A |-> r[x]]
<1>1. \A x \in A : r[x] \in B
  BY DEF Mirrors
<1>2. \A y \in B : \E x \in A : r[x] = y
  BY DEF Mirrors, IsShuffle
<1>3. f \in [A -> B]
  BY <1>1
<1>4. \A x, y \in A : f[x] = f[y] => x = y
  BY DEF IsShuffle
<1>5. \A y \in B : \E x \in A : f[x] = y
  BY <1>2
<1> HIDE DEF f
<1>6. f \in Bijection(A, B)
  BY <1>3, <1>4, <1>5 DEF Bijection, Injection, Surjection, IsInjective
<1>7. ExistsBijection(A, B)
  BY <1>6 DEF ExistsBijection
<1>8. IsFiniteSet(A)
  BY FS_Subset
<1> QED BY <1>7, <1>8, FS_Bijection

\* A shuffle that keeps the order keeps the ranks.
LEMMA RankMoves ==
  ASSUME NEW S, IsFiniteSet(S), NEW R, NEW Q, NEW r, IsShuffle(r, S), KeepsOrder(r, S, Q, R),
         NEW z \in S
  PROVE  Rank(Q, S, z) = Rank(R, S, r[z])
<1> DEFINE A == Before(Q, S, z)
           B == Before(R, S, r[z])
<1>1. A \in SUBSET S /\ B \in SUBSET S
  BY DEF Before
<1>2. Mirrors(r, S, A, B)
  BY DEF Before, Mirrors, IsShuffle, KeepsOrder
<1> HIDE DEF A, B
<1>3. Cardinality(A) = Cardinality(B)
  BY <1>1, <1>2, MirrorsCount
<1> QED BY <1>3 DEF A, B, Rank

\* Place i of e is taken by the card of place r[i] of f.
Arranged(f, e, r) == \A i \in Slots : e[i] = f[r[i]]

\* Cards that come in the same order line up the same, whatever slots they come
\* from and whatever bytes break their ties.
LEMMA LinedSame ==
  ASSUME NEW f \in Field, NEW e \in Field, NEW r, IsShuffle(r, Slots), Arranged(f, e, r),
         NEW sd \in Bytes, NEW o \in Offsets, NEW u \in Offsets,
         KeepsOrder(r, Slots, LineOrder(e, sd, u), LineOrder(f, sd, o))
  PROVE  Lined(e, sd, u) = Lined(f, sd, o)
<1> DEFINE R == LineOrder(f, sd, o)
           Q == LineOrder(e, sd, u)
<1>1. \A p \in Slots : \E i \in Slots : Rank(R, Slots, i) = p - 1 /\ Lined(f, sd, o)[p] = f[i]
  BY LinedIs
<1>2. \A p \in Slots : \E i \in Slots : Rank(Q, Slots, i) = p - 1 /\ Lined(e, sd, u)[p] = e[i]
  BY LinedIs
<1>3. IsOrder(R, Slots)
  BY LineIsOrder
<1>4. KeepsOrder(r, Slots, Q, R)
  OBVIOUS
<1> HIDE DEF R, Q
<1>5. \A i \in Slots : Rank(Q, Slots, i) = Rank(R, Slots, r[i])
  BY <1>4, SlotsAreFinite, RankMoves
<1>6. ASSUME NEW p \in Slots PROVE Lined(e, sd, u)[p] = Lined(f, sd, o)[p]
  <2>1. PICK i \in Slots : Rank(R, Slots, i) = p - 1 /\ Lined(f, sd, o)[p] = f[i]
    BY <1>1
  <2>2. PICK j \in Slots : Rank(Q, Slots, j) = p - 1 /\ Lined(e, sd, u)[p] = e[j]
    BY <1>2
  <2>3. Rank(R, Slots, r[j]) = Rank(R, Slots, i) /\ r[j] \in Slots
    BY <1>5, <2>1, <2>2 DEF IsShuffle
  <2>4. r[j] = i
    BY <1>3, <2>3, SlotsAreFinite, RankIsOwn
  <2> QED BY <2>1, <2>2, <2>4 DEF Arranged
<1>7. Lined(e, sd, u) \in Field /\ Lined(f, sd, o) \in Field
  BY LinedIs
<1> QED BY <1>6, <1>7 DEF Field

(***************************************************************************)
(* The seats changed.                                                      *)
(***************************************************************************)
Swapped(F, G) == \A s \in Seats : G[s] = F[Opp(s)]

LEMMA SeatsAre ==
  1 \in Seats /\ 2 \in Seats /\ Opp(1) = 2 /\ Opp(2) = 1 /\ \A s \in Seats : s = 1 \/ s = 2
BY DEF Seats, Opp

LEMMA ReversedHands ==
  ASSUME NEW X, NEW h \in [Seats -> X]
  PROVE  Reverse(h) \in [Seats -> X] /\ Swapped(h, Reverse(h))
<1>1. h \in Seq(X)
  BY SeqDef DEF Seats
<1>2. Len(h) = 2
  BY <1>1, LenProperties DEF Seats
<1>3. Reverse(h) = [s \in Seats |-> h[2 - s + 1]]
  BY <1>2 DEF Reverse, Seats
<1>4. \A s \in Seats : 2 - s + 1 = Opp(s) /\ Opp(s) \in Seats
  BY DEF Seats, Opp
<1> QED BY <1>3, <1>4 DEF Swapped

LEMMA SwappedIsReverse ==
  ASSUME NEW F \in Both, NEW G \in Both, Swapped(F, G)
  PROVE  G = Reverse(F)
<1>1. Reverse(F) \in Both /\ Swapped(F, Reverse(F))
  BY ReversedHands DEF Both
<1> QED BY <1>1 DEF Both, Swapped

LEMMA PassivesSwapped ==
  ASSUME NEW F \in Both, NEW G \in Both, Swapped(F, G)
  PROVE  Swapped(Passives(F), Passives(G))
<1>1. ASSUME NEW s \in Seats, NEW i \in Slots
      PROVE  Touched(G, s, i) = Touched(F, Opp(s), i)
  <2>1. G[s] = F[Opp(s)] /\ G[Opp(s)] = F[Opp(Opp(s))]
    BY OppIs DEF Swapped
  <2>2. Intimidated(G, s, i) <=> Intimidated(F, Opp(s), i)
    BY <2>1 DEF Intimidated
  <2> QED BY <2>1, <2>2 DEF Touched
<1>2. /\ Passives(F) \in [Seats -> Field] /\ Passives(G) \in [Seats -> Field]
      /\ \A s \in Seats, i \in Slots : Passives(F)[s][i] = Touched(F, s, i)
      /\ \A s \in Seats, i \in Slots : Passives(G)[s][i] = Touched(G, s, i)
  BY PassivesAre DEF Both
<1>3. ASSUME NEW s \in Seats PROVE Passives(G)[s] = Passives(F)[Opp(s)]
  <2>1. Opp(s) \in Seats
    BY OppIs
  <2>2. \A i \in Slots : Passives(G)[s][i] = Passives(F)[Opp(s)][i]
    BY <1>1, <1>2, <2>1
  <2> QED BY <1>2, <2>1, <2>2 DEF Field
<1> QED BY <1>3 DEF Swapped

\* The initiatives on the field are those of the table.
LEMMA InisOfTable ==
  ASSUME NEW h \in [Seats -> [Slots -> DOMAIN Table]], NEW s \in Seats, NEW i \in Slots
  PROVE  Passives(Fields(h))[s][i].ini = Ini(h, s, i)
<1>1. Fields(h) \in [Seats -> Field] /\ Fields(h)[s][i] = Fresh(h[s][i])
  BY FieldsAre
<1>2. Passives(Fields(h))[s][i] = Touched(Fields(h), s, i)
  BY <1>1, PassivesAre
<1>3. Touched(Fields(h), s, i).ini = Fields(h)[s][i].ini
  BY <1>1, TouchedIsCard
<1> QED BY <1>1, <1>2, <1>3 DEF Fresh, Ini

\* A side lines up the same at the bytes of either line.
LEMMA EitherLine ==
  ASSUME NEW h \in [Seats -> [Slots -> DOMAIN Table]], NEW sd \in Bytes, LinesAlike(h, sd),
         NEW s \in Seats
  PROVE  Lined(Passives(Fields(h))[s], sd, 8) = Lined(Passives(Fields(h))[s], sd, 0)
<1> DEFINE f == Passives(Fields(h))[s]
           r == [i \in Slots |-> i]
<1>1. f \in Field
  BY FieldsAre, PassivesAre
<1>2. \A i \in Slots : f[i].ini = Ini(h, s, i)
  BY InisOfTable
<1> HIDE DEF f
<1>3. IsShuffle(r, Slots) /\ Arranged(f, f, r)
  BY DEF IsShuffle, Arranged
<1>4. ASSUME NEW i \in Slots, NEW j \in Slots
      PROVE  <<i, j>> \in LineOrder(f, sd, 8) <=> <<i, j>> \in LineOrder(f, sd, 0)
  <2>1. Earlier(f[i].ini, sd[i - 1], i, f[j].ini, sd[j - 1], j) <=>
          Earlier(f[i].ini, sd[8 + i - 1], i, f[j].ini, sd[8 + j - 1], j)
    BY <1>2 DEF LinesAlike
  <2>2. 0 + i - 1 = i - 1 /\ 0 + j - 1 = j - 1
    BY BattleAssumption DEF Slots
  <2> QED BY <2>1, <2>2 DEF LineOrder
<1>5. KeepsOrder(r, Slots, LineOrder(f, sd, 8), LineOrder(f, sd, 0))
  BY <1>4 DEF KeepsOrder
<1>6. 0 \in Offsets /\ 8 \in Offsets
  BY DEF Offsets
<1> HIDE DEF r
<1>7. Lined(f, sd, 8) = Lined(f, sd, 0)
  BY <1>1, <1>3, <1>5, <1>6, LinedSame
<1> QED BY <1>7 DEF f

LEMMA ReadySwapped ==
  ASSUME NEW h \in [Seats -> [Slots -> DOMAIN Table]], NEW sd \in Bytes, LinesAlike(h, sd)
  PROVE  Swapped(Ready(h, sd), Ready(Reverse(h), sd))
<1> DEFINE e == Reverse(h)
           P == Passives(Fields(h))
           Q == Passives(Fields(e))
<1>1. e \in [Seats -> [Slots -> DOMAIN Table]] /\ Swapped(h, e)
  BY ReversedHands
<1> HIDE DEF e
<1>2. /\ Fields(h) \in Both /\ \A s \in Seats, i \in Slots : Fields(h)[s][i] = Fresh(h[s][i])
      /\ Fields(e) \in Both /\ \A s \in Seats, i \in Slots : Fields(e)[s][i] = Fresh(e[s][i])
  BY <1>1, FieldsAre DEF Both
<1>3. Swapped(Fields(h), Fields(e))
  <2>1. ASSUME NEW s \in Seats PROVE Fields(e)[s] = Fields(h)[Opp(s)]
    <3>1. Opp(s) \in Seats /\ e[s] = h[Opp(s)]
      BY <1>1, OppIs DEF Swapped
    <3>2. \A i \in Slots : Fields(e)[s][i] = Fields(h)[Opp(s)][i]
      BY <1>2, <3>1
    <3> QED BY <1>2, <3>1, <3>2 DEF Both, Field
  <2> QED BY <2>1 DEF Swapped
<1>4. Swapped(P, Q)
  BY <1>2, <1>3, PassivesSwapped
<1>5. Ready(h, sd) = <<Lined(P[1], sd, 0), Lined(P[2], sd, 8)>>
  BY DEF Ready
<1>6. Ready(e, sd) = <<Lined(Q[1], sd, 0), Lined(Q[2], sd, 8)>>
  BY DEF Ready
<1>7. Lined(P[2], sd, 8) = Lined(P[2], sd, 0) /\ Lined(P[1], sd, 8) = Lined(P[1], sd, 0)
  BY EitherLine, SeatsAre
<1> HIDE DEF P, Q
<1>8. Q[1] = P[2] /\ Q[2] = P[1]
  BY <1>4, SeatsAre DEF Swapped
<1>9. Swapped(Ready(h, sd), Ready(e, sd))
  BY <1>5, <1>6, <1>7, <1>8, SeatsAre DEF Swapped
<1> QED BY <1>9 DEF e

\* The card in the same slot of the other seat.
Over == [x \in All |-> Across(x)]

LEMMA OverIs ==
  /\ IsShuffle(Over, All)
  /\ \A x \in All : Over[x] \in All /\ Over[Over[x]] = x
  /\ \A s \in Seats, i \in Slots : <<s, i>> \in All /\ Over[<<s, i>>] = <<Opp(s), i>>
<1>1. \A x \in All : x = <<x[1], x[2]>> /\ x[1] \in Seats /\ x[2] \in Slots
  BY DEF All
<1>2. \A s \in Seats, i \in Slots : <<s, i>> \in All /\ Over[<<s, i>>] = <<Opp(s), i>>
  BY DEF All, Over, Across
<1>3. \A x \in All : Over[x] = <<Opp(x[1]), x[2]>> /\ Over[x] \in All
  BY <1>1, OppIs DEF Over, Across, All
<1>4. \A x \in All : Over[Over[x]] = x
  BY <1>1, <1>2, <1>3, OppIs
<1>5. Over \in [All -> All]
  BY <1>3 DEF Over
<1>6. \A x, y \in All : Over[x] = Over[y] => x = y
  BY <1>4
<1> QED BY <1>2, <1>3, <1>4, <1>5, <1>6 DEF IsShuffle

\* With the seats changed the cards act in the same order.
LEMMA TurnsSwapped ==
  ASSUME NEW F \in Both, NEW G \in Both, Swapped(F, G), NEW sd \in Bytes, TurnsAlike(F, sd),
         NEW n \in Turns
  PROVE  Over[ActionOrder(G, sd)[n]] = ActionOrder(F, sd)[n]
<1> DEFINE R == TurnOrder(F, sd)
           Q == TurnOrder(G, sd)
<1>1. KeepsOrder(Over, All, R, Q)
  <2>1. ASSUME NEW x \in All, NEW y \in All
        PROVE  <<x, y>> \in R <=> <<Over[x], Over[y]>> \in Q
    <3>1. G = Reverse(F)
      BY SwappedIsReverse
    <3>2. ActsBefore(F, sd, x, y) <=> ActsBefore(G, sd, Across(x), Across(y))
      BY <3>1 DEF TurnsAlike, All
    <3>3. Over[x] = Across(x) /\ Over[y] = Across(y) /\ Over[x] \in All /\ Over[y] \in All
      BY OverIs DEF Over
    <3> QED BY <3>2, <3>3 DEF TurnOrder
  <2> HIDE DEF Q, R
  <2> QED BY <2>1 DEF KeepsOrder
<1> DEFINE x == ActionOrder(F, sd)[n]
           y == ActionOrder(G, sd)[n]
<1>2. x \in All /\ Rank(R, All, x) = n - 1 /\ y \in All /\ Rank(Q, All, y) = n - 1
  BY ActionOrderIs, ActorIs DEF Both
<1>3. IsOrder(Q, All)
  BY TurnIsOrder DEF Both
<1> HIDE DEF Q, R, x, y
<1>4. Rank(R, All, x) = Rank(Q, All, Over[x])
  BY <1>1, <1>2, OverIs, AllAreFinite, RankMoves
<1>5. Over[x] \in All
  BY <1>2, OverIs
<1>6. Over[x] = y
  BY <1>2, <1>3, <1>4, <1>5, AllAreFinite, RankIsOwn
<1>7. Over[y] = x
  BY <1>2, <1>6, OverIs
<1> QED BY <1>7 DEF x, y

LEMMA DeedSwapped ==
  ASSUME NEW F \in Both, NEW G \in Both, Swapped(F, G), NEW s \in Seats, NEW i \in Slots
  PROVE  Deed(G, s, i) = Deed(F, Opp(s), i)
<1>1. G[s] = F[Opp(s)] /\ G[Opp(s)] = F[Opp(Opp(s))]
  BY OppIs DEF Swapped
<1> QED BY <1>1 DEF Deed, Blocked

LEMMA ActionsSwapped ==
  ASSUME NEW F \in Both, NEW G \in Both, Swapped(F, G), NEW sd \in Bytes, TurnsAlike(F, sd)
  PROVE  \A s \in Seats, i \in Slots :
           /\ Actions(G, sd)[s][i] = Actions(F, sd)[Opp(s)][i]
           /\ Actions(F, sd)[s][i].ini = F[s][i].ini
           /\ Actions(F, sd)[s][i] \in Card
<1> DEFINE N == 2 * HandSize
<1>1. PICK g : IsRun(F, sd, g) /\ Actions(F, sd) = g[N]
  BY ActionsAre
<1>2. PICK k : IsRun(G, sd, k) /\ Actions(G, sd) = k[N]
  BY ActionsAre
<1> DEFINE Alike(n) == \A s \in Seats, i \in Slots : k[n][s][i] = g[n][Opp(s)][i]
           Good == {n \in Nat : n <= N => Alike(n)}
<1>3. 0 \in Good
  BY <1>1, <1>2 DEF IsRun, Swapped
<1>4. ASSUME NEW n \in Nat, n \in Good PROVE n + 1 \in Good
  <2>1. SUFFICES ASSUME n + 1 <= N PROVE Alike(n + 1)
    OBVIOUS
  <2>2. n + 1 \in Turns /\ n \in 0..N /\ n <= N
    BY <2>1, TurnsAre
  <2>3. PICK s \in Seats, i \in Slots : ActionOrder(G, sd)[n + 1] = <<s, i>>
    BY <2>2, ActorIs
  <2>4. ActionOrder(F, sd)[n + 1] = <<Opp(s), i>>
    <3>1. Over[ActionOrder(G, sd)[n + 1]] = ActionOrder(F, sd)[n + 1]
      BY <2>2, TurnsSwapped
    <3> QED BY <2>3, <3>1, OverIs
  <2>5. Deed(G, s, i) = Deed(F, Opp(s), i) /\ Opp(s) \in Seats
    BY DeedSwapped, OppIs
  <2>6. ASSUME NEW t \in Seats, NEW j \in Slots
        PROVE  k[n + 1][t][j] = g[n + 1][Opp(t)][j]
    <3> DEFINE deed == Deed(G, s, i)
    <3>1. k[n + 1][t][j] = Effect(k[n][t][j], deed, t = s /\ j = i, t # s, t # s /\ j = i)
      BY <1>2, <2>2, <2>3, TurnIs
    <3>2. Opp(t) \in Seats /\ (t = s <=> Opp(t) = Opp(s))
      BY OppIs
    <3>3. g[n + 1][Opp(t)][j] =
            Effect(g[n][Opp(t)][j], Deed(F, Opp(s), i), Opp(t) = Opp(s) /\ j = i,
                   Opp(t) # Opp(s), Opp(t) # Opp(s) /\ j = i)
      BY <1>1, <2>2, <2>4, <2>5, <3>2, TurnIs
    <3>4. k[n][t][j] = g[n][Opp(t)][j]
      BY <1>4, <2>2
    <3>5. /\ (t = s /\ j = i) = (Opp(t) = Opp(s) /\ j = i)
          /\ (t # s) = (Opp(t) # Opp(s))
          /\ (t # s /\ j = i) = (Opp(t) # Opp(s) /\ j = i)
      BY <3>2
    <3> HIDE DEF deed
    <3> QED BY <2>5, <3>1, <3>3, <3>4, <3>5 DEF deed
  <2> QED BY <2>6
<1>5. Alike(N)
  <2>1. \A n \in Nat : n \in Good
    <3> HIDE DEF Good
    <3> QED BY <1>3, <1>4, InductionOverNat
  <2> QED BY <2>1, TurnsAre
<1>6. g[N] \in Both /\ N \in 0..N
  BY <1>1, TurnsAre DEF IsRun
<1>7. \A s \in Seats, i \in Slots : g[N][s][i] \in Card /\ g[N][s][i].ini = F[s][i].ini
  <2>1. \A s \in Seats, i \in Slots : g[N][s][i].ini = F[s][i].ini
    BY <1>1, <1>6, RunKeeps
  <2>2. \A s \in Seats, i \in Slots : g[N][s][i] \in Card
    BY <1>6 DEF Both, Field
  <2> QED BY <2>1, <2>2
<1> QED BY <1>1, <1>2, <1>5, <1>7

LEMMA LeadsSwapped ==
  ASSUME NEW a \in Card, NEW b \in Card, a.ini # b.ini, NEW byte
  PROVE  Leads(b, a, byte) <=> ~Leads(a, b, byte)
<1>1. a.ini \in Nat /\ b.ini \in Nat
  BY DEF Card
<1> QED BY <1>1 DEF Leads

\* The outcome of the same fight seen from the other seat.
LEMMA ResolvedSwapped ==
  ASSUME NEW h \in [Seats -> [Slots -> DOMAIN Table]], NEW sd \in Bytes, SeenAlike(h, sd)
  PROVE  Resolved(Reverse(h), sd) = Reverse(Resolved(h, sd))
<1> DEFINE e == Reverse(h)
           F == Ready(h, sd)
           G == Ready(e, sd)
           A == Actions(F, sd)
           B == Actions(G, sd)
<1>1. e \in [Seats -> [Slots -> DOMAIN Table]]
  BY ReversedHands
<1>2. /\ F \in Both /\ G \in Both /\ Swapped(F, G)
      /\ TurnsAlike(F, sd) /\ FacesApart(F)
  BY <1>1, ReadyIs, ReadySwapped DEF SeenAlike
<1>3. Resolved(h, sd) = <<Total(Combat(A, sd)[1]), Total(Combat(A, sd)[2])>>
  BY DEF Resolved
<1>4. Resolved(e, sd) = <<Total(Combat(B, sd)[1]), Total(Combat(B, sd)[2])>>
  BY DEF Resolved
<1> HIDE DEF e, F, G
<1>5. \A s \in Seats, i \in Slots :
        B[s][i] = A[Opp(s)][i] /\ A[s][i].ini = F[s][i].ini /\ A[s][i] \in Card
  BY <1>2, ActionsSwapped
<1> HIDE DEF A, B
<1>6. \A i \in Slots : B[1][i] = A[2][i] /\ B[2][i] = A[1][i]
  BY <1>5, SeatsAre
<1>7. \A i \in Slots : A[1][i].ini # A[2][i].ini /\ A[1][i] \in Card /\ A[2][i] \in Card
  BY <1>2, <1>5, SeatsAre DEF FacesApart
<1> DEFINE one(i) == Struck(A[1][i], A[2][i], Leads(A[1][i], A[2][i], sd[24 + i - 1]))
           two(i) == Struck(A[2][i], A[1][i], ~Leads(A[1][i], A[2][i], sd[24 + i - 1]))
           oneB(i) == Struck(B[1][i], B[2][i], Leads(B[1][i], B[2][i], sd[24 + i - 1]))
           twoB(i) == Struck(B[2][i], B[1][i], ~Leads(B[1][i], B[2][i], sd[24 + i - 1]))
<1>8. ASSUME NEW i \in Slots PROVE oneB(i) = two(i) /\ twoB(i) = one(i)
  <2> DEFINE a == A[1][i]
             b == A[2][i]
             byte == sd[24 + i - 1]
  <2>1. a \in Card /\ b \in Card /\ a.ini # b.ini
    BY <1>7
  <2>2. oneB(i) = Struck(b, a, Leads(b, a, byte)) /\ twoB(i) = Struck(a, b, ~Leads(b, a, byte))
    BY <1>6
  <2> HIDE DEF a, b, byte
  <2>3. Leads(b, a, byte) <=> ~Leads(a, b, byte)
    BY <2>1, LeadsSwapped
  <2>4. Struck(b, a, Leads(b, a, byte)) = Struck(b, a, ~Leads(a, b, byte))
    BY <2>3 DEF Struck
  <2>5. Struck(a, b, ~Leads(b, a, byte)) = Struck(a, b, Leads(a, b, byte))
    BY <2>3 DEF Struck
  <2> QED BY <2>2, <2>4, <2>5 DEF a, b, byte
<1>9. /\ Combat(A, sd) = <<[i \in Slots |-> one(i)], [i \in Slots |-> two(i)]>>
      /\ Combat(B, sd) = <<[i \in Slots |-> oneB(i)], [i \in Slots |-> twoB(i)]>>
  BY CombatIs
<1> HIDE DEF one, two, oneB, twoB
<1>10. Combat(B, sd)[1] = Combat(A, sd)[2] /\ Combat(B, sd)[2] = Combat(A, sd)[1]
  BY <1>8, <1>9
<1>11. Resolved(e, sd) = <<Total(Combat(A, sd)[2]), Total(Combat(A, sd)[1])>>
  BY <1>4, <1>10
<1> QED BY <1>3, <1>11, ReverseIs DEF e

\* The browser of the second player, which puts its own hand first, sees the fight
\* the program resolved, whenever the seed breaks the ties alike from both seats
\* and no cards that face each other tie.
THEOREM BattleGuestSeesTheFight == Spec => []GuestSeesTheFight
<1>1. ASSUME BattleInv, totals # None, SeenAlike(hands, seed)
      PROVE  Replayed(hands, seed) = totals
  <2>1. hands \in [Seats -> [Slots -> DOMAIN Table]] /\ seed \in Bytes /\ totals = Resolved(hands, seed)
    BY <1>1 DEF BattleInv
  <2>2. Replayed(hands, seed) = Reverse(Reverse(Resolved(hands, seed)))
    BY <1>1, <2>1, ResolvedSwapped DEF Replayed
  <2>3. PICK x, y : Resolved(hands, seed) = <<x, y>>
    BY DEF Resolved
  <2> QED BY <2>1, <2>2, <2>3, ReverseIs
<1>2. BattleInv => GuestSeesTheFight
  BY <1>1 DEF GuestSeesTheFight
<1> QED BY <1>2, BattleInvariance, PTL

(***************************************************************************)
(* The cards of one side in another order.                                 *)
(***************************************************************************)
LEMMA BijectionsShuffle ==
  ASSUME NEW r \in Bijection(Slots, Slots)
  PROVE  IsShuffle(r, Slots)
BY DEF Bijection, Injection, Surjection, IsInjective, IsShuffle

LEMMA RearrangedIs ==
  ASSUME NEW r, IsShuffle(r, Slots), NEW X, NEW f \in [Slots -> X]
  PROVE  Rearranged(f, r) \in [Slots -> X] /\ Arranged(f, Rearranged(f, r), r)
<1> DEFINE g == [i \in Slots |-> f[r[i]]]
<1>1. g \in [Slots -> X]
  BY DEF IsShuffle
<1>2. Rearranged(f, r) = g
  BY <1>1, RowIs DEF Rearranged
<1> QED BY <1>1, <1>2 DEF Arranged

\* Every card of a side has an initiative of its own.
OwnInis(f) == \A i, j \in Slots : f[i].ini = f[j].ini => i = j

LEMMA LineOfOwnInis ==
  ASSUME NEW f \in Field, OwnInis(f), NEW sd \in Bytes, NEW o \in Offsets,
         NEW i \in Slots, NEW j \in Slots
  PROVE  <<i, j>> \in LineOrder(f, sd, o) <=> f[i].ini > f[j].ini
<1>1. /\ i \in Nat /\ j \in Nat /\ o + i - 1 \in 0..31 /\ o + j - 1 \in 0..31
      /\ f[i] \in Card /\ f[j] \in Card
  BY BattleAssumption DEF Slots, Field, Offsets
<1>2. f[i].ini \in Nat /\ f[j].ini \in Nat
  BY <1>1 DEF Card
<1>3. sd[o + i - 1] \in Nat /\ sd[o + j - 1] \in Nat
  BY <1>1, BytesAreNat
<1>4. f[i].ini = f[j].ini => i = j
  BY DEF OwnInis
<1> QED BY <1>1, <1>2, <1>3, <1>4 DEF LineOrder, Earlier

\* Such a side lines up the same, whatever slots its cards come from.
LEMMA LinedArranged ==
  ASSUME NEW f \in Field, NEW e \in Field, NEW r, IsShuffle(r, Slots), Arranged(f, e, r),
         OwnInis(f), NEW sd \in Bytes, NEW o \in Offsets
  PROVE  Lined(e, sd, o) = Lined(f, sd, o)
<1>1. \A i \in Slots : r[i] \in Slots /\ e[i] = f[r[i]]
  BY DEF IsShuffle, Arranged
<1>2. OwnInis(e)
  BY <1>1 DEF OwnInis, IsShuffle
<1>3. ASSUME NEW i \in Slots, NEW j \in Slots
      PROVE  <<i, j>> \in LineOrder(e, sd, o) <=> <<r[i], r[j]>> \in LineOrder(f, sd, o)
  <2>1. <<i, j>> \in LineOrder(e, sd, o) <=> e[i].ini > e[j].ini
    BY <1>2, LineOfOwnInis
  <2>2. <<r[i], r[j]>> \in LineOrder(f, sd, o) <=> f[r[i]].ini > f[r[j]].ini
    BY <1>1, LineOfOwnInis
  <2> QED BY <1>1, <2>1, <2>2
<1>4. KeepsOrder(r, Slots, LineOrder(e, sd, o), LineOrder(f, sd, o))
  BY <1>3 DEF KeepsOrder
<1> QED BY <1>4, LinedSame

\* The auras look at a side as a set of cards.
LEMMA AurasArranged ==
  ASSUME NEW f \in Field, NEW e \in Field, NEW r, IsShuffle(r, Slots), Arranged(f, e, r),
         NEW i \in Slots
  PROVE  /\ KnightAura(e, i) = KnightAura(f, r[i])
         /\ GoldAura(e) = GoldAura(f)
         /\ Overclock(e, i) = Overclock(f, r[i])
         /\ \A p : With(e, p) # {} <=> With(f, p) # {}
<1>1. \A j \in Slots : r[j] \in Slots /\ e[j] = f[r[j]]
  BY DEF IsShuffle, Arranged
<1>2. /\ \A j, k \in Slots : r[j] = r[k] => j = k
      /\ \A k \in Slots : \E j \in Slots : r[j] = k
  BY DEF IsShuffle
<1>3. \A p : Cardinality(With(e, p)) = Cardinality(With(f, p))
  <2> TAKE p
  <2>1. Mirrors(r, Slots, With(e, p), With(f, p))
    BY <1>1 DEF Mirrors, With
  <2>2. With(e, p) \in SUBSET Slots /\ With(f, p) \in SUBSET Slots
    BY DEF With
  <2> QED BY <2>1, <2>2, SlotsAreFinite, MirrorsCount
<1>4. \A q : Cardinality(Of(e, q)) = Cardinality(Of(f, q))
  <2> TAKE q
  <2>1. Mirrors(r, Slots, Of(e, q), Of(f, q))
    BY <1>1 DEF Mirrors, Of
  <2>2. Of(e, q) \in SUBSET Slots /\ Of(f, q) \in SUBSET Slots
    BY DEF Of
  <2> QED BY <2>1, <2>2, SlotsAreFinite, MirrorsCount
<1>5. Cardinality(With(e, "knight_aura") \ {i}) = Cardinality(With(f, "knight_aura") \ {r[i]})
  <2> DEFINE A == With(e, "knight_aura") \ {i}
             B == With(f, "knight_aura") \ {r[i]}
  <2>1. Mirrors(r, Slots, A, B)
    BY <1>1, <1>2 DEF Mirrors, With
  <2>2. A \in SUBSET Slots /\ B \in SUBSET Slots
    BY DEF With
  <2> HIDE DEF A, B
  <2>3. Cardinality(A) = Cardinality(B)
    BY <2>1, <2>2, SlotsAreFinite, MirrorsCount
  <2> QED BY <2>3 DEF A, B
<1>6. KnightAura(e, i) = KnightAura(f, r[i])
  BY <1>1, <1>5 DEF KnightAura
<1>7. GoldAura(e) = GoldAura(f)
  <2>1. (\E j \in Slots : e[j].legendary) <=> (\E j \in Slots : f[j].legendary)
    BY <1>1, <1>2
  <2> QED BY <1>3, <2>1 DEF GoldAura
<1>8. Overclock(e, i) = Overclock(f, r[i])
  BY <1>1, <1>3, <1>4 DEF Overclock
<1>9. \A p : With(e, p) # {} <=> With(f, p) # {}
  BY <1>1, <1>2 DEF With
<1> QED BY <1>6, <1>7, <1>8, <1>9

\* Nobody is intimidated.
Unafraid(F) == \A s \in Seats, i \in Slots : F[s][i].passive # "pirate_intimidate"

LEMMA PassivesArranged ==
  ASSUME NEW F \in Both, NEW G \in Both, NEW s \in Seats, Unafraid(F), Unafraid(G),
         NEW r, IsShuffle(r, Slots), Arranged(F[s], G[s], r), G[Opp(s)] = F[Opp(s)]
  PROVE  /\ Arranged(Passives(F)[s], Passives(G)[s], r)
         /\ Passives(G)[Opp(s)] = Passives(F)[Opp(s)]
<1>1. /\ Passives(F) \in [Seats -> Field] /\ Passives(G) \in [Seats -> Field]
      /\ \A t \in Seats, i \in Slots : Passives(F)[t][i] = Touched(F, t, i)
      /\ \A t \in Seats, i \in Slots : Passives(G)[t][i] = Touched(G, t, i)
  BY PassivesAre DEF Both
<1>2. \A t \in Seats, i \in Slots : ~Intimidated(F, t, i) /\ ~Intimidated(G, t, i)
  BY OppIs DEF Unafraid, Intimidated
<1>3. ASSUME NEW i \in Slots PROVE Touched(G, Opp(s), i) = Touched(F, Opp(s), i)
  BY <1>2, OppIs DEF Touched
<1>4. \A i \in Slots : r[i] \in Slots /\ G[s][i] = F[s][r[i]]
  BY DEF Arranged, IsShuffle
<1>5. ASSUME NEW i \in Slots PROVE Touched(G, s, i) = Touched(F, s, r[i])
  <2>1. F[s] \in Field /\ G[s] \in Field
    BY DEF Both
  <2>2. /\ KnightAura(G[s], i) = KnightAura(F[s], r[i])
        /\ GoldAura(G[s]) = GoldAura(F[s])
        /\ Overclock(G[s], i) = Overclock(F[s], r[i])
        /\ With(G[s], "monk_soul_harvest") # {} <=> With(F[s], "monk_soul_harvest") # {}
    BY <2>1, AurasArranged
  <2>3. ~Intimidated(G, s, i) /\ ~Intimidated(F, s, r[i])
    BY <1>2, <1>4
  <2>4. (With(G[s], "monk_soul_harvest") # {}) = (With(F[s], "monk_soul_harvest") # {})
    BY <2>2
  <2> QED BY <1>4, <2>2, <2>3, <2>4 DEF Touched
<1>6. Arranged(Passives(F)[s], Passives(G)[s], r)
  BY <1>1, <1>4, <1>5 DEF Arranged
<1>7. Passives(G)[Opp(s)] = Passives(F)[Opp(s)]
  <2>1. Opp(s) \in Seats
    BY OppIs
  <2>2. \A i \in Slots : Passives(G)[Opp(s)][i] = Passives(F)[Opp(s)][i]
    BY <1>1, <1>3, <2>1
  <2> QED BY <1>1, <2>1, <2>2 DEF Field
<1> QED BY <1>6, <1>7

\* A side put in another order lines up as before.
LEMMA ReadyArranged ==
  ASSUME NEW h \in [Seats -> [Slots -> DOMAIN Table]], NEW sd \in Bytes, NEW s \in Seats,
         NEW r, IsShuffle(r, Slots), Distinct(h, s),
         \A t \in Seats, i \in Slots : Table[h[t][i]].passive # "pirate_intimidate"
  PROVE  Ready([h EXCEPT ![s] = Rearranged(@, r)], sd) = Ready(h, sd)
<1> DEFINE e == [h EXCEPT ![s] = Rearranged(@, r)]
           P == Passives(Fields(h))
           Q == Passives(Fields(e))
<1>1. \A i \in Slots : r[i] \in Slots
  BY DEF IsShuffle
<1>2. /\ e \in [Seats -> [Slots -> DOMAIN Table]]
      /\ e[Opp(s)] = h[Opp(s)]
      /\ \A i \in Slots : e[s][i] = h[s][r[i]]
  <2>1. h[s] \in [Slots -> DOMAIN Table]
    OBVIOUS
  <2>2. /\ Rearranged(h[s], r) \in [Slots -> DOMAIN Table]
        /\ \A i \in Slots : Rearranged(h[s], r)[i] = h[s][r[i]]
    BY <2>1, RearrangedIs DEF Arranged
  <2>3. Opp(s) \in Seats /\ Opp(s) # s
    BY OppIs
  <2>4. e[s] = Rearranged(h[s], r) /\ e[Opp(s)] = h[Opp(s)]
    BY <2>3
  <2> QED BY <2>2, <2>4
<1>3. Ready(h, sd) = <<Lined(P[1], sd, 0), Lined(P[2], sd, 8)>>
  BY DEF Ready
<1>4. Ready(e, sd) = <<Lined(Q[1], sd, 0), Lined(Q[2], sd, 8)>>
  BY DEF Ready
<1> HIDE DEF e
<1>5. /\ Fields(h) \in Both /\ \A t \in Seats, i \in Slots : Fields(h)[t][i] = Fresh(h[t][i])
      /\ Fields(e) \in Both /\ \A t \in Seats, i \in Slots : Fields(e)[t][i] = Fresh(e[t][i])
  BY <1>2, FieldsAre DEF Both
<1>6. Arranged(Fields(h)[s], Fields(e)[s], r)
  BY <1>1, <1>2, <1>5 DEF Arranged
<1>7. Fields(e)[Opp(s)] = Fields(h)[Opp(s)]
  <2>1. Opp(s) \in Seats
    BY OppIs
  <2>2. \A i \in Slots : Fields(e)[Opp(s)][i] = Fields(h)[Opp(s)][i]
    BY <1>2, <1>5, <2>1
  <2> QED BY <1>5, <2>1, <2>2 DEF Both, Field
<1>8. Unafraid(Fields(h))
  <2>1. \A id : Fresh(id).passive = Table[id].passive
    BY DEF Fresh
  <2>2. \A t \in Seats, i \in Slots : Fields(h)[t][i].passive = Table[h[t][i]].passive
    BY <1>5, <2>1
  <2>3. \A t \in Seats, i \in Slots : Fields(h)[t][i].passive # "pirate_intimidate"
    BY <2>2
  <2> QED BY <2>3 DEF Unafraid
<1>9. Unafraid(Fields(e))
  <2>1. ASSUME NEW t \in Seats, NEW i \in Slots
        PROVE  Fields(e)[t][i].passive # "pirate_intimidate"
    <3>1. t = s \/ t = Opp(s)
      BY DEF Seats, Opp
    <3>2. Fields(e)[t][i] = Fields(h)[t][i] \/ Fields(e)[t][i] = Fields(h)[t][r[i]]
      BY <1>6, <1>7, <3>1 DEF Arranged
    <3> QED BY <1>1, <1>8, <3>2 DEF Unafraid
  <2> QED BY <2>1 DEF Unafraid
<1>10. Arranged(P[s], Q[s], r) /\ Q[Opp(s)] = P[Opp(s)]
  BY <1>5, <1>6, <1>7, <1>8, <1>9, PassivesArranged
<1>11. P \in [Seats -> Field] /\ Q \in [Seats -> Field]
  BY <1>5, PassivesAre DEF Both
<1>12. OwnInis(P[s])
  BY InisOfTable DEF Distinct, OwnInis
<1> HIDE DEF P, Q
<1>13. ASSUME NEW o \in Offsets PROVE Lined(Q[s], sd, o) = Lined(P[s], sd, o)
  <2> DEFINE f == P[s]
             g == Q[s]
  <2>1. f \in Field /\ g \in Field /\ OwnInis(f) /\ Arranged(f, g, r)
    BY <1>10, <1>11, <1>12
  <2> HIDE DEF f, g
  <2>2. Lined(g, sd, o) = Lined(f, sd, o)
    BY <2>1, LinedArranged
  <2> QED BY <2>2 DEF f, g
<1>14. 0 \in Offsets /\ 8 \in Offsets
  BY DEF Offsets
<1>15. Lined(Q[1], sd, 0) = Lined(P[1], sd, 0) /\ Lined(Q[2], sd, 8) = Lined(P[2], sd, 8)
  BY <1>10, <1>13, <1>14, SeatsAre
<1>16. Ready(e, sd) = Ready(h, sd)
  BY <1>3, <1>4, <1>15
<1> QED BY <1>16 DEF e

\* The order a player puts the cards in is of no consequence when initiative alone
\* lines them up, and nobody is intimidated in a slot.
THEOREM BattleOrderDoesNotMatter == Spec => []OrderDoesNotMatter
<1>1. ASSUME BattleInv, NEW s \in Seats, NEW r \in Bijection(Slots, Slots), totals # None,
             Distinct(hands, s),
             \A t \in Seats, i \in Slots : Table[hands[t][i]].passive # "pirate_intimidate"
      PROVE  Resolved([hands EXCEPT ![s] = Rearranged(@, r)], seed) = totals
  <2>1. hands \in [Seats -> [Slots -> DOMAIN Table]] /\ seed \in Bytes /\ totals = Resolved(hands, seed)
    BY <1>1 DEF BattleInv
  <2>2. IsShuffle(r, Slots)
    BY BijectionsShuffle
  <2>3. Ready([hands EXCEPT ![s] = Rearranged(@, r)], seed) = Ready(hands, seed)
    BY <1>1, <2>1, <2>2, ReadyArranged
  <2> QED BY <2>1, <2>3 DEF Resolved
<1>2. BattleInv => OrderDoesNotMatter
  BY <1>1 DEF OrderDoesNotMatter
<1> QED BY <1>2, BattleInvariance, PTL
=============================================================================
