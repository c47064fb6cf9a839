-------------------------- MODULE FlashEep_proofs --------------------------
(***************************************************************************)
(* Proofs about FlashEep, for any number of banks, any bank size, and any  *)
(* objects that fit a bank.                                                *)
(***************************************************************************)
EXTENDS FlashEep, WellFoundedInduction, SequenceTheorems, TLAPS

(***************************************************************************)
(* The scans of the banks and of the records end at a first or a last one. *)
(***************************************************************************)
LEMMA SmallestValue ==
  ASSUME NEW S, S # {}, NEW g \in [S -> Nat]
  PROVE  \E s \in S : \A t \in S : g[s] <= g[t]
<1> DEFINE V == {g[s] : s \in S}
<1>1. V \subseteq Nat /\ V # {}
  OBVIOUS
<1>2. \E x \in V : \A y \in V : <<y, x>> \notin OpToRel(<, Nat)
  <2> HIDE DEF V
  <2> QED BY <1>1, NatLessThanWellFounded, WFMin, Zenon
<1>3. PICK s \in S : \A t \in S : <<g[t], g[s]>> \notin OpToRel(<, Nat)
  BY <1>2, Zenon
<1>4. ASSUME NEW t \in S PROVE g[s] <= g[t]
  <2>1. g[t] \in Nat /\ g[s] \in Nat
    OBVIOUS
  <2>2. <<g[t], g[s]>> \notin {ss \in Nat \X Nat : ss[1] < ss[2]}
    BY <1>3, Zenon DEF OpToRel
  <2>3. <<g[t], g[s]>> \in Nat \X Nat
    BY <2>1
  <2>4. ~(g[t] < g[s])
    BY <2>2, <2>3
  <2> QED
    BY <2>1, <2>4
<1> QED
  BY <1>4

LEMMA Smallest ==
  ASSUME NEW B, B \subseteq Nat, B # {}
  PROVE  \E b \in B : \A c \in B : b <= c
<1>1. [b \in B |-> b] \in [B -> Nat]
  OBVIOUS
<1>2. PICK b \in B : \A c \in B : [d \in B |-> d][b] <= [d \in B |-> d][c]
  BY <1>1, SmallestValue
<1> QED
  BY <1>2

LEMMA Largest ==
  ASSUME NEW B, NEW n \in Nat, B \subseteq 0..n, B # {}
  PROVE  \E b \in B : \A c \in B : b >= c
<1>1. [b \in B |-> n - b] \in [B -> Nat]
  OBVIOUS
<1>2. PICK b \in B : \A c \in B : [d \in B |-> n - d][b] <= [d \in B |-> n - d][c]
  BY <1>1, SmallestValue
<1> QED
  BY <1>2

LEMMA FirstLeast ==
  ASSUME NEW f \in [Bank -> 0..Top]
  PROVE  \E b \in Bank : \A c \in Bank : f[b] < f[c] \/ (f[b] = f[c] /\ b <= c)
<1>1. 0 \in Bank /\ Bank \subseteq Nat /\ f \in [Bank -> Nat]
  BY FlashAssumption DEF Bank
<1>2. PICK m \in Bank : \A c \in Bank : f[m] <= f[c]
  BY <1>1, SmallestValue
<1>3. PICK b \in {c \in Bank : f[c] = f[m]} : \A c \in Bank : f[c] = f[m] => b <= c
  BY <1>1, <1>2, Smallest
<1> QED
  BY <1>1, <1>2, <1>3

LEMMA LastGreatest ==
  ASSUME NEW f \in [Bank -> 0..Top]
  PROVE  \E b \in Bank : \A c \in Bank :
           \/ f[b] > f[c]
           \/ f[b] = f[c] /\ IF f[b] = Top THEN b >= c ELSE b <= c
<1>1. 0 \in Bank /\ Bank \subseteq Nat /\ Bank = 0..(Banks - 1) /\ Banks - 1 \in Nat
  BY FlashAssumption DEF Bank
<1>2. PICK m \in Bank : \A c \in Bank : f[m] >= f[c]
  <2>1. [c \in Bank |-> Top - f[c]] \in [Bank -> Nat]
    BY FlashAssumption
  <2>2. PICK m \in Bank : \A c \in Bank :
          [d \in Bank |-> Top - f[d]][m] <= [d \in Bank |-> Top - f[d]][c]
    BY <1>1, <2>1, SmallestValue
  <2> QED
    BY <2>2, FlashAssumption
<1> DEFINE S == {c \in Bank : f[c] = f[m]}
<1>3. S # {} /\ S \subseteq Nat /\ S \subseteq 0..(Banks - 1)
  BY <1>1, <1>2
<1>4. PICK b \in S : \A c \in S : b <= c
  BY <1>3, Smallest
<1>5. PICK d \in S : \A c \in S : d >= c
  <2> HIDE DEF S
  <2> QED BY <1>1, <1>3, Largest
<1>6. \A c \in Bank : f[m] > f[c] \/ c \in S
  BY <1>2, FlashAssumption
<1>7. f[b] = f[m] /\ f[d] = f[m] /\ b \in Bank /\ d \in Bank
  OBVIOUS
<1>8. \A c \in S : f[c] = f[m]
  OBVIOUS
<1> QED
  <2> HIDE DEF S
  <2>1. ASSUME NEW c \in Bank PROVE f[b] > f[c] \/ (f[b] = f[c] /\ b <= c)
    BY <1>4, <1>6, <1>7, <1>8
  <2>2. ASSUME NEW c \in Bank PROVE f[d] > f[c] \/ (f[d] = f[c] /\ d >= c)
    BY <1>5, <1>6, <1>7, <1>8
  <2> QED
    BY <1>7, <2>1, <2>2

\* get_addr_bscfg(false) on any contents of the counters
FirstOf(f) == CHOOSE b \in Bank : \A c \in Bank : f[b] < f[c] \/ (f[b] = f[c] /\ b <= c)

LEMMA FirstOfIs ==
  ASSUME NEW f \in [Bank -> 0..Top]
  PROVE  /\ FirstOf(f) \in Bank
         /\ \A c \in Bank : f[FirstOf(f)] < f[c] \/ (f[FirstOf(f)] = f[c] /\ FirstOf(f) <= c)
BY FirstLeast DEF FirstOf

LEMMA FirstOfUnique ==
  ASSUME NEW f \in [Bank -> 0..Top], NEW b \in Bank,
         \A c \in Bank : f[b] < f[c] \/ (f[b] = f[c] /\ b <= c)
  PROVE  FirstOf(f) = b
<1>1. FirstOf(f) \in Bank /\ f[b] \in Int /\ f[FirstOf(f)] \in Int /\ b \in Int /\ FirstOf(f) \in Int
  BY FirstOfIs, FlashAssumption DEF Bank
<1>2. f[b] < f[FirstOf(f)] \/ (f[b] = f[FirstOf(f)] /\ b <= FirstOf(f))
  BY <1>1
<1>3. f[FirstOf(f)] < f[b] \/ (f[FirstOf(f)] = f[b] /\ FirstOf(f) <= b)
  BY FirstOfIs
<1> QED
  BY <1>1, <1>2, <1>3

LEMMA CurrentIsFirst == Current = FirstOf(cnt) /\ Current' = FirstOf(cnt')
BY DEF Current, FirstOf

LEMMA PackTargetIs ==
  ASSUME cnt \in [Bank -> 0..Top]
  PROVE  /\ PackTarget \in Bank
         /\ \A c \in Bank : cnt[PackTarget] >= cnt[c]
<1>1. /\ PackTarget \in Bank
      /\ \A c \in Bank :
           \/ cnt[PackTarget] > cnt[c]
           \/ /\ cnt[PackTarget] = cnt[c]
              /\ IF cnt[PackTarget] = Top THEN PackTarget >= c ELSE PackTarget <= c
  BY LastGreatest, Zenon DEF PackTarget
<1>2. \A c \in Bank : cnt[c] \in Int
  BY FlashAssumption
<1> QED
  BY <1>1, <1>2

(***************************************************************************)
(* The first counter of erased flash goes to the bank that is current.     *)
(***************************************************************************)
LEMMA FormattedIs ==
  ASSUME cnt \in [Bank -> 0..Top],
         \A b, c \in Bank : b # c /\ cnt[b] = cnt[c] => cnt[b] = Top
  PROVE  /\ Formatted \in [Bank -> 0..Top]
         /\ FirstOf(Formatted) = Current
         /\ Formatted[Current] < Top
         /\ \A b, c \in Bank : b # c /\ Formatted[b] = Formatted[c] => Formatted[b] = Top
<1>1. Current \in Bank
  BY FirstOfIs, CurrentIsFirst
<1>2. \A c \in Bank : cnt[Current] < cnt[c] \/ (cnt[Current] = cnt[c] /\ Current <= c)
  BY FirstOfIs, CurrentIsFirst
<1>3. \A c \in Bank : cnt[c] \in 0..Top
  OBVIOUS
<1>4. CASE cnt[Current] # Top
  <2>1. Formatted = cnt
    BY <1>4 DEF Formatted
  <2>2. cnt[Current] < Top
    BY <1>1, <1>3, <1>4, FlashAssumption
  <2> QED
    BY <2>1, <2>2, CurrentIsFirst
<1>5. CASE cnt[Current] = Top
  <2>1. Formatted = [cnt EXCEPT ![Current] = Top - 1]
    BY <1>5 DEF Formatted
  <2>2. \A c \in Bank : cnt[c] = Top /\ Current <= c
    BY <1>1, <1>2, <1>3, <1>5, FlashAssumption
  <2>3. Formatted \in [Bank -> 0..Top]
    <3>1. Top - 1 \in 0..Top
      BY FlashAssumption
    <3> QED
      BY <2>1, <3>1
  <2>4. Formatted[Current] = Top - 1 /\ \A c \in Bank \ {Current} : Formatted[c] = Top
    BY <1>1, <2>1, <2>2
  <2>5. \A c \in Bank : Formatted[Current] < Formatted[c]
                          \/ (Formatted[Current] = Formatted[c] /\ Current <= c)
    <3>1. ASSUME NEW c \in Bank, c # Current PROVE Formatted[Current] < Formatted[c]
      BY <2>4, <3>1, FlashAssumption
    <3>2. Current <= Current
      BY <1>1, <2>2
    <3> QED
      BY <3>1, <3>2
  <2> QED
    BY <1>1, <2>3, <2>4, <2>5, FirstOfUnique, FlashAssumption
<1> QED
  BY <1>4, <1>5

----------------------------------------------------------------------------
(***************************************************************************)
(* The bank that a pack fills is erased, and there is a counter below that *)
(* of the current bank.  Data words follow a head word.                    *)
(***************************************************************************)
Prepared ==
  /\ op.at \in {"copy", "commit"} => cnt[op.to] = Top /\ cnt[Current] > 0
  /\ op.at = "data" => recs[op.to] # <<>>

BankIInv == BankInv /\ Prepared

LEMMA SeqsOfRecords ==
  ASSUME NEW s \in Seq(Record), NEW j \in Id \union {NoId}, NEW n \in Nat
  PROVE  /\ FreeAddr(s) \in Nat \ {0}
         /\ HeadOf(FreeAddr(s), j, n) \in Record /\ HeadOf(1, j, n) \in Record
         /\ Append(s, HeadOf(FreeAddr(s), j, n)) \in Seq(Record)
         /\ <<HeadOf(1, j, n)>> \in Seq(Record)
<1>1. s # <<>> => s[Len(s)] \in Record
  OBVIOUS
<1>2. FreeAddr(s) \in Nat \ {0}
  BY <1>1 DEF FreeAddr, Record
<1>3. HeadOf(FreeAddr(s), j, n) \in Record /\ HeadOf(1, j, n) \in Record
  BY <1>2, FlashAssumption DEF HeadOf, Record
<1> QED
  BY <1>2, <1>3

LEMMA LatestIs ==
  ASSUME NEW s \in Seq(Record), NEW i, NEW m \in DOMAIN s, s[m].id = i
  PROVE  /\ Latest(s, i) \in DOMAIN s /\ s[Latest(s, i)].id = i
         /\ \A k \in DOMAIN s : s[k].id = i => k <= Latest(s, i)
<1> DEFINE B == {k \in DOMAIN s : s[k].id = i}
<1>1. B # {} /\ B \subseteq 0..Len(s) /\ Len(s) \in Nat
  OBVIOUS
<1>2. PICK b \in B : \A c \in B : b >= c
  <2> HIDE DEF B
  <2> QED BY <1>1, Largest
<1>3. b \in DOMAIN s /\ s[b].id = i
  OBVIOUS
<1>4. ASSUME NEW k \in DOMAIN s, s[k].id = i PROVE k <= b
  <2>1. k \in B /\ k \in Int /\ b \in Int
    BY <1>1, <1>4
  <2> QED
    BY <1>2, <2>1
<1> QED
  BY <1>3, <1>4, Zenon DEF Latest

LEMMA LastDataSet ==
  ASSUME NEW s \in Seq(Record), s # <<>>, NEW o \in Object
  PROVE  [s EXCEPT ![Len(s)].data = o] \in Seq(Record)
<1>1. Len(s) \in 1..Len(s) /\ s[Len(s)] \in Record
  OBVIOUS
<1>2. [s[Len(s)] EXCEPT !.data = o] \in Record
  BY <1>1 DEF Record
<1> QED
  BY <1>1, <1>2, ExceptSeq

LEMMA PackSparesCurrent ==
  ASSUME TypeOK, OneCurrent, op.at = "pack"
  PROVE  PackTarget \in Bank /\ PackTarget # Current
<1>1. cnt \in [Bank -> 0..Top] /\ \A b \in Bank : cnt[b] \in Int
  BY FlashAssumption DEF TypeOK
<1>2. PackTarget \in Bank /\ \A c \in Bank : cnt[PackTarget] >= cnt[c]
  BY <1>1, PackTargetIs
<1>3. /\ Current \in Bank
      /\ \A c \in Bank : cnt[Current] < cnt[c] \/ (cnt[Current] = cnt[c] /\ Current <= c)
  BY <1>1, FirstOfIs, CurrentIsFirst
<1>4. cnt[Current] < Top /\ \A b, c \in Bank : b # c /\ cnt[b] = cnt[c] => cnt[b] = Top
  BY DEF OneCurrent
<1>5. 0 \in Bank /\ 1 \in Bank
  BY FlashAssumption DEF Bank
<1>6. PICK c \in Bank : c # Current
  BY <1>5
<1>7. cnt[c] # cnt[Current]
  BY <1>1, <1>3, <1>4, <1>6, FlashAssumption
<1> QED
  BY <1>1, <1>2, <1>3, <1>7

LEMMA BankInit == Init => BankIInv
<1> SUFFICES ASSUME Init PROVE BankIInv
  OBVIOUS
<1>1. TypeOK
  <2>1. Top \in 0..Top /\ <<>> \in Seq(Record)
    BY FlashAssumption
  <2> QED
    BY <2>1 DEF Init, TypeOK, Idle
<1>2. op.at = "idle" /\ \A b \in Bank : cnt[b] = Top
  BY DEF Init, Idle
<1> QED
  BY <1>1, <1>2 DEF BankIInv, BankInv, OneCurrent, Prepared

LEMMA EraseKeepsCurrent ==
  ASSUME BankIInv, Erase
  PROVE  Current' = Current
<1>1. op.at = "pack" /\ cnt' = [cnt EXCEPT ![PackTarget] = Top]
  BY DEF Erase
<1>2. /\ cnt \in [Bank -> 0..Top] /\ Current \in Bank
      /\ \A c \in Bank : cnt[Current] < cnt[c] \/ (cnt[Current] = cnt[c] /\ Current <= c)
  BY FirstOfIs, CurrentIsFirst DEF BankIInv, BankInv, TypeOK
<1>3. PackTarget \in Bank /\ PackTarget # Current
  BY <1>1, PackSparesCurrent DEF BankIInv, BankInv
<1>4. cnt[Current] < Top
  BY <1>1 DEF BankIInv, BankInv, OneCurrent
<1>5. /\ cnt'[Current] = cnt[Current] /\ cnt'[PackTarget] = Top
      /\ \A c \in Bank \ {PackTarget} : cnt'[c] = cnt[c]
  BY <1>1, <1>2, <1>3
<1>6. \A c \in Bank : cnt'[Current] < cnt'[c] \/ (cnt'[Current] = cnt'[c] /\ Current <= c)
  BY <1>2, <1>4, <1>5
<1>7. cnt' \in [Bank -> 0..Top]
  <2>1. Top \in 0..Top
    BY FlashAssumption
  <2> QED
    BY <1>1, <1>2, <2>1
<1> QED
  BY <1>2, <1>6, <1>7, FirstOfUnique, CurrentIsFirst

LEMMA CommitMakesCurrent ==
  ASSUME BankIInv, Commit
  PROVE  /\ Current' = op.to /\ cnt' \in [Bank -> 0..Top] /\ cnt'[op.to] < Top
         /\ \A c \in Bank \ {op.to} : cnt'[c] = cnt[c] /\ cnt'[op.to] # cnt'[c]
<1>1. op.at = "commit" /\ cnt' = [cnt EXCEPT ![op.to] = cnt[Current] - 1]
  BY DEF Commit
<1>2. /\ cnt \in [Bank -> 0..Top] /\ Current \in Bank
      /\ \A c \in Bank : cnt[Current] < cnt[c] \/ (cnt[Current] = cnt[c] /\ Current <= c)
  BY FirstOfIs, CurrentIsFirst DEF BankIInv, BankInv, TypeOK
<1>3. \A b \in Bank : cnt[b] \in Int
  BY <1>2, FlashAssumption
<1>4. op.to \in Bank /\ cnt[Current] < Top /\ cnt[Current] > 0 /\ op.to # Current
  BY <1>1 DEF BankIInv, BankInv, TypeOK, OneCurrent, Prepared, Idle
<1>5. cnt[Current] - 1 \in 0..Top
  BY <1>2, <1>4, FlashAssumption
<1>6. cnt' \in [Bank -> 0..Top]
  BY <1>1, <1>2, <1>5
<1>7. cnt'[op.to] = cnt[Current] - 1 /\ \A c \in Bank \ {op.to} : cnt'[c] = cnt[c]
  BY <1>1, <1>2, <1>4
<1>8. \A c \in Bank \ {op.to} : cnt'[op.to] < cnt'[c]
  BY <1>2, <1>3, <1>7
<1>9. Current' = op.to
  <2>1. op.to <= op.to
    BY <1>4, FlashAssumption DEF Bank
  <2>2. \A c \in Bank : cnt'[op.to] < cnt'[c] \/ (cnt'[op.to] = cnt'[c] /\ op.to <= c)
    BY <1>8, <2>1
  <2> QED
    BY <1>4, <1>6, <2>2, FirstOfUnique, CurrentIsFirst
<1>10. cnt'[op.to] < Top
  BY <1>2, <1>3, <1>4, <1>7, FlashAssumption
<1>11. \A c \in Bank \ {op.to} : cnt'[op.to] # cnt'[c]
  BY <1>3, <1>4, <1>2, <1>7, <1>8
<1> QED
  BY <1>6, <1>7, <1>9, <1>10, <1>11

LEMMA BankStep == BankIInv /\ [Next]_vars => BankIInv'
<1> SUFFICES ASSUME BankIInv, [Next]_vars PROVE BankIInv'
  OBVIOUS
<1> USE DEF BankIInv, BankInv
<1>t. TypeOK
  OBVIOUS
<1>d. \A b, c \in Bank : b # c /\ cnt[b] = cnt[c] => cnt[b] = Top
  BY DEF OneCurrent
<1>c. cnt \in [Bank -> 0..Top] /\ recs \in [Bank -> Seq(Record)]
  BY DEF TypeOK
<1>1. /\ Current \in Bank /\ Current = FirstOf(cnt)
      /\ \A c \in Bank : cnt[Current] < cnt[c] \/ (cnt[Current] = cnt[c] /\ Current <= c)
  BY <1>c, FirstOfIs, CurrentIsFirst
<1>2. \A b \in Bank : cnt[b] \in Int
  BY <1>c, FlashAssumption
<1>3. ASSUME op.at # "idle"
      PROVE  /\ op \in [at : Steps, id : Id, obj : Object, to : Bank]
             /\ cnt[Current] < Top
             /\ op.to = Current <=> op.at \notin {"copy", "commit"}
  BY <1>3 DEF TypeOK, OneCurrent, Idle
\* The banks stay as they are, and so does the place where the write works.
<1>4. ASSUME cnt' = cnt, TypeOK', op'.at = "data" => recs'[op'.to] # <<>>,
             \/ op'.at = "idle"
             \/ /\ op.at # "idle" /\ op'.to = op.to
                /\ op.at \in {"copy", "commit"} <=> op'.at \in {"copy", "commit"}
      PROVE  BankIInv'
  <2>1. Current' = Current
    BY <1>4, CurrentIsFirst
  <2>2. OneCurrent'
    BY <1>3, <1>4, <1>d, <2>1 DEF OneCurrent
  <2>3. Prepared'
    BY <1>4, <2>1 DEF Prepared
  <2> QED
    BY <1>4, <2>2, <2>3
<1>5. CASE ReadCfg
  <2>1. cnt' = Formatted /\ recs' = recs /\ op' = op /\ op.at = "idle"
        /\ merged' = merged /\ outside' = outside
    BY <1>5 DEF ReadCfg
  <2>2. TypeOK'
    BY <1>t, <1>d, <1>c, <2>1, FormattedIs DEF TypeOK
  <2>3. OneCurrent' /\ Prepared'
    BY <1>d, <1>c, <2>1, FormattedIs DEF OneCurrent, Prepared
  <2> QED
    BY <2>2, <2>3
<1>6. ASSUME NEW i \in Id, NEW o \in Object, WriteCfg(i, o)
      PROVE  BankIInv'
  <2>1. PICK at \in {"done", "head", "pack"} :
          op' = [at |-> at, id |-> i, obj |-> o, to |-> Current]
    BY <1>6 DEF WriteCfg
  <2>2. cnt' = Formatted /\ recs' = recs /\ merged' = merged /\ outside' = outside
    BY <1>6 DEF WriteCfg
  <2>3. Current' = Current
    BY <1>d, <1>c, <2>2, FormattedIs, CurrentIsFirst
  <2>4. TypeOK'
    <3>1. op' \in [at : Steps, id : Id, obj : Object, to : Bank]
      BY <1>1, <2>1 DEF Steps
    <3> QED
      BY <1>t, <1>d, <1>c, <2>2, <3>1, FormattedIs DEF TypeOK
  <2>5. OneCurrent'
    BY <1>d, <1>c, <2>1, <2>2, <2>3, FormattedIs DEF OneCurrent
  <2>6. Prepared'
    BY <2>1 DEF Prepared
  <2> QED
    BY <2>4, <2>5, <2>6
<1>7. CASE NoMem
  <2>1. TypeOK' /\ cnt' = cnt /\ op'.at = "idle"
    BY <1>t, <1>7 DEF NoMem, TypeOK, Idle
  <2> QED
    BY <1>4, <2>1
<1>8. CASE Erase
  <2>1. /\ op.at = "pack" /\ cnt[Current] > 0
        /\ op' = [op EXCEPT !.at = "copy", !.to = PackTarget]
        /\ cnt' = [cnt EXCEPT ![PackTarget] = Top]
        /\ recs' = [recs EXCEPT ![PackTarget] = <<>>]
        /\ merged' = merged /\ outside' = outside
    BY <1>8 DEF Erase
  <2>2. PackTarget \in Bank /\ \A c \in Bank : cnt[PackTarget] >= cnt[c]
    BY <1>c, PackTargetIs
  <2>3. cnt[Current] < Top /\ op \in [at : Steps, id : Id, obj : Object, to : Bank]
    BY <1>3, <2>1
  <2>4. PackTarget # Current
    BY <2>1, PackSparesCurrent
  <2>5. TypeOK'
    <3>1. op' \in [at : Steps, id : Id, obj : Object, to : Bank]
      BY <2>1, <2>2, <2>3 DEF Steps
    <3>2. Top \in 0..Top /\ <<>> \in Seq(Record)
      BY FlashAssumption
    <3>3. cnt' \in [Bank -> 0..Top] /\ recs' \in [Bank -> Seq(Record)]
      BY <1>c, <2>1, <3>2
    <3> QED
      BY <1>t, <2>1, <3>1, <3>3 DEF TypeOK
  <2>6. /\ cnt'[Current] = cnt[Current] /\ cnt'[PackTarget] = Top
        /\ \A c \in Bank \ {PackTarget} : cnt'[c] = cnt[c]
    BY <1>c, <1>1, <2>1, <2>2, <2>4
  <2>7. Current' = Current
    BY <1>8, EraseKeepsCurrent
  <2>8. op'.at = "copy" /\ op'.to = PackTarget
    BY <2>1, <2>3
  <2>9. OneCurrent'
    BY <1>d, <2>3, <2>4, <2>6, <2>7, <2>8 DEF OneCurrent
  <2>10. Prepared'
    BY <2>1, <2>6, <2>7, <2>8 DEF Prepared
  <2> QED
    BY <2>5, <2>9, <2>10
<1>9. CASE CopyOld
  <2>1. /\ op.at = "copy" /\ op' = [op EXCEPT !.at = "commit"]
        /\ cnt' = cnt /\ merged' = merged /\ outside' = outside
    BY <1>9 DEF CopyOld
  <2>2. op \in [at : Steps, id : Id, obj : Object, to : Bank]
    BY <1>3, <2>1
  <2>3. recs[Current] \in Seq(Record)
    BY <1>1, <1>c
  <2>4. recs' = recs \/ \E j \in Id \union {NoId}, n \in Nat :
                          recs' = [recs EXCEPT ![op.to] = <<HeadOf(1, j, n)>>]
    <3> DEFINE s == recs[Current]
    <3>1. \A k \in DOMAIN s : s[k].id \in Id \union {NoId} /\ s[k].n \in Nat
      <4>1. \A k \in DOMAIN s : s[k] \in Record
        BY <2>3
      <4> QED
        BY <4>1 DEF Record
    <3>2. ASSUME NEW j \in ToCopy(s, op.id)
          PROVE  /\ j \in Id \union {NoId}
                 /\ s[Latest(s, j)].n \in Nat
      <4>1. PICK k \in DOMAIN s : s[k].id = j
        BY DEF ToCopy
      <4>2. Latest(s, j) \in DOMAIN s
        BY <2>3, <4>1, LatestIs
      <4> QED
        BY <3>1, <4>1, <4>2
    <3>3. \A k \in DOMAIN s : \A n \in 0..s[k].n : n \in Nat
      BY <3>1
    <3> HIDE DEF s
    <3> QED
      BY <1>9, <3>2, <3>3 DEF CopyOld, s
  <2>5. recs' \in [Bank -> Seq(Record)]
    <3>1. \A j \in Id \union {NoId}, n \in Nat : <<HeadOf(1, j, n)>> \in Seq(Record)
      BY <2>3, SeqsOfRecords
    <3> QED
      BY <1>c, <2>4, <3>1
  <2>6. op' \in [at : Steps, id : Id, obj : Object, to : Bank]
    BY <2>1, <2>2 DEF Steps
  <2>7. TypeOK'
    BY <1>t, <2>1, <2>5, <2>6 DEF TypeOK
  <2>8. op'.to = op.to /\ op'.at = "commit"
    BY <2>1, <2>2
  <2> QED
    BY <1>4, <2>1, <2>7, <2>8
<1>10. CASE Commit
  <2>1. /\ op.at = "commit"
        /\ cnt' = [cnt EXCEPT ![op.to] = cnt[Current] - 1]
        /\ op' = [op EXCEPT !.at = "head"] \/ op' = Idle(FALSE)
        /\ merged' = (merged \/ Others(recs[Current], op.id) # {})
        /\ recs' = recs /\ outside' = outside
    BY <1>10 DEF Commit
  <2>2. op \in [at : Steps, id : Id, obj : Object, to : Bank]
    BY <1>3, <2>1
  <2>4. /\ Current' = op.to /\ cnt' \in [Bank -> 0..Top] /\ cnt'[op.to] < Top
        /\ \A c \in Bank \ {op.to} : cnt'[c] = cnt[c] /\ cnt'[op.to] # cnt'[c]
    BY <1>10, CommitMakesCurrent
  <2>8. /\ op' = [op EXCEPT !.at = "head"] => op'.at = "head" /\ op'.to = op.to
        /\ op' = Idle(FALSE) => op'.at = "idle"
    BY <2>2 DEF Idle
  <2>9. TypeOK'
    <3>1. op' \in {Idle(TRUE), Idle(FALSE)} \union [at : Steps, id : Id, obj : Object, to : Bank]
      BY <2>1, <2>2 DEF Steps
    <3>2. merged' \in BOOLEAN
      BY <2>1, <1>t, Zenon DEF TypeOK
    <3> QED
      BY <1>t, <2>1, <2>4, <3>1, <3>2 DEF TypeOK
  <2>11. \A b, c \in Bank : b # c /\ cnt'[b] = cnt'[c] => cnt'[b] = Top
    BY <1>d, <2>4
  <2>12. OneCurrent'
    BY <2>1, <2>4, <2>8, <2>11 DEF OneCurrent
  <2>13. Prepared'
    BY <2>1, <2>8 DEF Prepared
  <2> QED
    BY <2>9, <2>12, <2>13
<1>11. CASE WriteHead
  <2>1. PICK at \in {"done", "data"} : op' = [op EXCEPT !.at = at]
    BY <1>11 DEF WriteHead
  <2>2. /\ op.at = "head" /\ cnt' = cnt /\ merged' = merged /\ outside' = outside
        /\ recs' = [recs EXCEPT ![op.to] =
                      Append(@, HeadOf(FreeAddr(@), op.id, Words[op.obj]))]
    BY <1>11 DEF WriteHead
  <2>3. op \in [at : Steps, id : Id, obj : Object, to : Bank]
    BY <1>3, <2>2
  <2>4. op' \in [at : Steps, id : Id, obj : Object, to : Bank]
    BY <2>1, <2>3 DEF Steps
  <2>5. recs' \in [Bank -> Seq(Record)]
    <3>1. recs[op.to] \in Seq(Record) /\ Words[op.obj] \in Nat
      BY <1>c, <2>3, FlashAssumption
    <3>2. Append(recs[op.to], HeadOf(FreeAddr(recs[op.to]), op.id, Words[op.obj])) \in Seq(Record)
      BY <2>3, <3>1, SeqsOfRecords
    <3> QED
      BY <1>c, <2>2, <3>2
  <2>6. TypeOK'
    BY <1>t, <2>2, <2>4, <2>5 DEF TypeOK
  <2>7. op'.to = op.to /\ op'.at \in {"done", "data"}
    BY <2>1, <2>3
  <2>8. recs'[op.to] # <<>>
    BY <1>c, <2>2, <2>3
  <2> QED
    BY <1>4, <2>2, <2>6, <2>7, <2>8
<1>12. CASE WriteData
  <2>1. /\ op.at = "data" /\ op' = [op EXCEPT !.at = "done"]
        /\ recs' = [recs EXCEPT ![op.to][Len(recs[op.to])].data = op.obj]
        /\ cnt' = cnt /\ merged' = merged /\ outside' = outside
    BY <1>12 DEF WriteData
  <2>2. op \in [at : Steps, id : Id, obj : Object, to : Bank]
    BY <1>3, <2>1
  <2>3. recs' \in [Bank -> Seq(Record)]
    <3>1. recs[op.to] \in Seq(Record)
      BY <1>c, <2>2
    <3>2. [recs[op.to] EXCEPT ![Len(recs[op.to])].data = op.obj] \in Seq(Record)
      BY <2>1, <2>2, <3>1, LastDataSet DEF Prepared
    <3>3. recs' = [recs EXCEPT ![op.to] = [recs[op.to] EXCEPT ![Len(recs[op.to])].data = op.obj]]
      BY <2>1
    <3> QED
      BY <1>c, <3>2, <3>3
  <2>4. op' \in [at : Steps, id : Id, obj : Object, to : Bank]
    BY <2>1, <2>2 DEF Steps
  <2>5. TypeOK'
    BY <1>t, <2>1, <2>3, <2>4 DEF TypeOK
  <2>6. op'.to = op.to /\ op'.at = "done"
    BY <2>1, <2>2
  <2> QED
    BY <1>4, <2>1, <2>5, <2>6
<1>13. CASE Done
  <2>1. TypeOK' /\ cnt' = cnt /\ op'.at = "idle"
    BY <1>t, <1>13 DEF Done, TypeOK, Idle
  <2> QED
    BY <1>4, <2>1
<1>14. CASE Crash
  <2>1. TypeOK' /\ cnt' = cnt /\ op'.at = "idle"
    BY <1>t, <1>14 DEF Crash, TypeOK, Idle
  <2> QED
    BY <1>4, <2>1
<1>15. CASE UNCHANGED vars
  BY <1>4, <1>15, <1>t DEF vars, TypeOK, Prepared
<1> QED
  BY <1>5, <1>6, <1>7, <1>8, <1>9, <1>10, <1>11, <1>12, <1>13, <1>14, <1>15 DEF Next

(***************************************************************************)
(* Whenever the device is reset, the counters name one bank as the current *)
(* one, and a write at work is in that bank or packs into another one      *)
(* (get_addr_bscfg, pack_cfg_fmem).                                        *)
(***************************************************************************)
THEOREM OneBankIsCurrent == Spec => []BankInv
<1>1. BankIInv => BankInv
  BY DEF BankIInv
<1> QED
  BY BankInit, BankStep, <1>1, PTL DEF Spec

(***************************************************************************)
(* While a write packs the store, the bank that a restart would read stays *)
(* as it is (SpicSectorEraseFlashRtl8195A and the copy loop of             *)
(* pack_cfg_fmem go to the other bank).                                    *)
(***************************************************************************)
THEOREM PackLeavesCurrent == Spec => EraseSparesCurrent
<1>1. BankIInv /\ [Next]_vars
        => [recs'[Current] # recs[Current] => op.at \in {"head", "data"}]_vars
  <2> SUFFICES ASSUME BankIInv, Next, recs'[Current] # recs[Current],
                      op.at \notin {"head", "data"}
               PROVE  FALSE
    OBVIOUS
  <2> USE DEF BankIInv, BankInv
  <2>1. Current \in Bank /\ recs \in [Bank -> Seq(Record)]
    BY FirstOfIs, CurrentIsFirst DEF TypeOK
  <2>2. CASE Erase
    <3>1. op.at = "pack" /\ recs' = [recs EXCEPT ![PackTarget] = <<>>]
      BY <2>2 DEF Erase
    <3> QED
      BY <2>1, <3>1, PackSparesCurrent
  <2>3. CASE CopyOld
    <3>1. op.at = "copy" /\ (recs' = recs \/ \E x : recs' = [recs EXCEPT ![op.to] = x])
      BY <2>3 DEF CopyOld
    <3>2. op.to # Current
      BY <3>1 DEF OneCurrent
    <3> QED
      BY <2>1, <3>1, <3>2
  <2>4. CASE WriteHead \/ WriteData
    BY <2>4 DEF WriteHead, WriteData
  <2>5. CASE ReadCfg \/ NoMem \/ Commit \/ Done \/ Crash
    BY <2>5 DEF ReadCfg, NoMem, Commit, Done, Crash
  <2>6. ASSUME NEW k \in Id, NEW o \in Object, WriteCfg(k, o) PROVE recs' = recs
    BY <2>6 DEF WriteCfg
  <2> QED
    BY <2>2, <2>3, <2>4, <2>5, <2>6 DEF Next
<1> QED
  BY BankInit, BankStep, <1>1, PTL DEF Spec, EraseSparesCurrent

----------------------------------------------------------------------------
(***************************************************************************)
(* Before its head word is written, a record was found to fit.             *)
(***************************************************************************)
RoomInv ==
  /\ RecordsInside
  /\ op.at = "head" => Fits(recs[op.to], Words[op.obj])

LEMMA RoomStep == BankIInv /\ RoomInv /\ [Next]_vars => RoomInv'
<1> SUFFICES ASSUME BankIInv, RoomInv, [Next]_vars PROVE RoomInv'
  OBVIOUS
<1> DEFINE Inside(s) == \A k \in DOMAIN s : s[k].adr + 1 + s[k].n <= BankWords
<1>1. /\ Current \in Bank /\ cnt \in [Bank -> 0..Top] /\ recs \in [Bank -> Seq(Record)]
      /\ op.at # "idle" => op \in [at : Steps, id : Id, obj : Object, to : Bank]
  BY FirstOfIs, CurrentIsFirst DEF BankIInv, BankInv, TypeOK, Idle
<1>2. \A b \in Bank : Inside(recs[b])
  BY DEF RoomInv, RecordsInside
<1>3. BankWords \in Nat /\ \A o \in Object : Words[o] \in Nat
  BY FlashAssumption
<1>4. ASSUME recs' = recs, op'.at = "head" => Fits(recs[op'.to], Words[op'.obj])
      PROVE  RoomInv'
  BY <1>4 DEF RoomInv, RecordsInside, Fits, FreeAddr
\* One bank gets new records that are inside.
<1>5. ASSUME NEW b \in Bank, NEW s, Inside(s), recs' = [recs EXCEPT ![b] = s],
             op'.at # "head"
      PROVE  RoomInv'
  <2>1. ASSUME NEW c \in Bank PROVE Inside(recs'[c])
    BY <1>1, <1>2, <1>5
  <2> QED
    BY <1>5, <2>1 DEF RoomInv, RecordsInside
<1>6. ASSUME NEW j, NEW n \in Nat, n + 2 <= BankWords PROVE Inside(<<HeadOf(1, j, n)>>)
  BY <1>3, <1>6 DEF HeadOf
<1>7. CASE ReadCfg
  BY <1>4, <1>7 DEF ReadCfg
<1>8. ASSUME NEW i \in Id, NEW o \in Object, WriteCfg(i, o) PROVE RoomInv'
  BY <1>4, <1>8 DEF WriteCfg
<1>9. CASE Erase
  <2>1. op'.at # "head" /\ recs' = [recs EXCEPT ![PackTarget] = <<>>] /\ Inside(<<>>)
    BY <1>1, <1>9 DEF Erase
  <2>2. PackTarget \in Bank
    BY <1>1, PackTargetIs
  <2> QED
    BY <1>5, <2>1, <2>2
<1>10. CASE CopyOld
  <2>1. op.at = "copy" /\ op'.at = "commit"
    BY <1>1, <1>10 DEF CopyOld
  <2> DEFINE s == recs[Current]
  <2>2. s \in Seq(Record) /\ Inside(s)
    BY <1>1, <1>2
  <2>3. ASSUME NEW k \in DOMAIN s, NEW n \in 0..s[k].n PROVE n \in Nat /\ n + 2 <= BankWords
    <3>1. s[k] \in Record
      BY <2>2
    <3>2. s[k].adr \in Nat \ {0} /\ s[k].n \in Nat /\ s[k].adr + 1 + s[k].n <= BankWords
      BY <2>2, <3>1 DEF Record
    <3> QED
      BY <1>3, <2>3, <3>2
  <2>4. recs' = recs \/ \E j, n : /\ recs' = [recs EXCEPT ![op.to] = <<HeadOf(1, j, n)>>]
                                  /\ \E k \in DOMAIN s : n \in 0..s[k].n
    <3>1. ASSUME NEW j \in ToCopy(s, op.id)
          PROVE  Latest(s, j) \in DOMAIN s /\ s[Latest(s, j)].n \in 0..s[Latest(s, j)].n
      <4>1. PICK k \in DOMAIN s : s[k].id = j
        BY DEF ToCopy
      <4>2. Latest(s, j) \in DOMAIN s
        BY <2>2, <4>1, LatestIs
      <4>3. s[Latest(s, j)] \in Record
        BY <2>2, <4>2
      <4> QED
        BY <4>2, <4>3 DEF Record
    <3> HIDE DEF s
    <3> QED
      BY <1>10, <3>1 DEF CopyOld, s
  <2>5. ASSUME NEW j, NEW n, recs' = [recs EXCEPT ![op.to] = <<HeadOf(1, j, n)>>],
               NEW k \in DOMAIN s, n \in 0..s[k].n
        PROVE  RoomInv'
    BY <1>1, <1>5, <1>6, <2>1, <2>3, <2>5
  <2> QED
    BY <1>4, <2>1, <2>4, <2>5
<1>11. CASE Commit
  <2>1. /\ recs' = recs /\ op.at = "commit"
        /\ \/ Fits(recs[op.to], Words[op.obj]) /\ op' = [op EXCEPT !.at = "head"]
           \/ op' = Idle(FALSE)
    BY <1>11 DEF Commit
  <2>2. CASE op' = Idle(FALSE)
    BY <1>4, <2>1, <2>2 DEF Idle
  <2>3. CASE Fits(recs[op.to], Words[op.obj]) /\ op' = [op EXCEPT !.at = "head"]
    <3>1. op'.to = op.to /\ op'.obj = op.obj
      BY <1>1, <2>1, <2>3
    <3> QED
      BY <1>4, <2>1, <2>3, <3>1, Zenon
  <2> QED
    BY <2>1, <2>2, <2>3
<1>12. CASE WriteHead
  <2> DEFINE s == recs[op.to]
             r == HeadOf(FreeAddr(s), op.id, Words[op.obj])
  <2>1. op.at = "head" /\ op'.at # "head" /\ recs' = [recs EXCEPT ![op.to] = Append(s, r)]
    BY <1>1, <1>12 DEF WriteHead
  <2>2. s \in Seq(Record) /\ Inside(s) /\ op.to \in Bank /\ Words[op.obj] \in Nat
    BY <1>1, <1>2, <1>3, <2>1
  <2>3. FreeAddr(s) \in Nat /\ FreeAddr(s) + 1 + Words[op.obj] < BankWords
    BY <2>1, <2>2, SeqsOfRecords DEF RoomInv, Fits
  <2>4. r.adr + 1 + r.n <= BankWords
    BY <1>3, <2>2, <2>3 DEF HeadOf
  <2>5. Inside(Append(s, r))
    <3> HIDE DEF s, r
    <3> QED
      BY <2>2, <2>4
  <2> HIDE DEF s, r
  <2> QED
    BY <1>5, <2>1, <2>2, <2>5
<1>13. CASE WriteData
  <2> DEFINE s == recs[op.to]
             t == [s EXCEPT ![Len(s)].data = op.obj]
  <2>1. op.at = "data" /\ op'.at # "head" /\ recs' = [recs EXCEPT ![op.to] = t]
    BY <1>1, <1>13 DEF WriteData
  <2>2. s \in Seq(Record) /\ s # <<>> /\ Inside(s) /\ op.to \in Bank
    BY <1>1, <1>2, <2>1 DEF BankIInv, Prepared
  <2>3. Inside(t)
    <3>1. DOMAIN t = DOMAIN s
      OBVIOUS
    <3>2. ASSUME NEW k \in DOMAIN s PROVE t[k].adr = s[k].adr /\ t[k].n = s[k].n
      <4>1. s[k] \in Record
        BY <2>2
      <4>2. t[k] = IF k = Len(s) THEN [s[k] EXCEPT !.data = op.obj] ELSE s[k]
        OBVIOUS
      <4> QED
        BY <4>1, <4>2 DEF Record
    <3> HIDE DEF t
    <3> QED
      BY <2>2, <3>1, <3>2
  <2> HIDE DEF s, t
  <2> QED
    BY <1>5, <2>1, <2>2, <2>3
<1>14. CASE NoMem \/ Done \/ Crash
  BY <1>4, <1>14 DEF NoMem, Done, Crash, Idle
<1>15. CASE UNCHANGED vars
  BY <1>4, <1>15 DEF vars, RoomInv
<1> QED
  BY <1>7, <1>8, <1>9, <1>10, <1>11, <1>12, <1>13, <1>14, <1>15 DEF Next

(***************************************************************************)
(* get_addr_fobj_save keeps every record inside its bank, after a pack too.*)
(***************************************************************************)
THEOREM NoRecordRunsOver == Spec => []RecordsInside
<1>1. Init => RoomInv
  BY DEF Init, RoomInv, RecordsInside, Idle
<1>2. RoomInv => RecordsInside
  BY DEF RoomInv
<1> QED
  BY BankInit, BankStep, RoomStep, <1>1, <1>2, PTL DEF Spec

----------------------------------------------------------------------------
(***************************************************************************)
(* What a read finds after a record is appended, or gets its data.         *)
(***************************************************************************)
LEMMA FindAppend ==
  ASSUME NEW s \in Seq(Record), NEW r \in Record
  PROVE  /\ Find(Append(s, r), r.id) = r.data
         /\ \A i : i # r.id => Find(Append(s, r), i) = Find(s, i)
<1> DEFINE t == Append(s, r)
           n == Len(s) + 1
<1>1. /\ t \in Seq(Record) /\ DOMAIN t = DOMAIN s \union {n} /\ n \in DOMAIN t
      /\ t[n] = r /\ \A k \in DOMAIN s : t[k] = s[k] /\ k <= n /\ k # n
  OBVIOUS
<1>2. \A k \in DOMAIN t : k \in Int
  OBVIOUS
<1> HIDE DEF t, n
<1>3. Find(t, r.id) = r.data
  <2>1. Latest(t, r.id) \in DOMAIN t /\ n <= Latest(t, r.id)
    BY <1>1, LatestIs
  <2>2. Latest(t, r.id) = n
    BY <1>1, <1>2, <2>1
  <2> QED
    BY <1>1, <2>2 DEF Find, Has
<1>4. ASSUME NEW i, i # r.id PROVE Find(t, i) = Find(s, i)
  <2>1. Has(t, i) <=> Has(s, i)
    BY <1>1, <1>4 DEF Has
  <2>2. CASE ~Has(s, i)
    BY <2>1, <2>2 DEF Find
  <2>3. CASE Has(s, i)
    <3>1. /\ Latest(s, i) \in DOMAIN s /\ s[Latest(s, i)].id = i
          /\ \A k \in DOMAIN s : s[k].id = i => k <= Latest(s, i)
      BY <2>3, LatestIs DEF Has
    <3>2. /\ Latest(t, i) \in DOMAIN t /\ t[Latest(t, i)].id = i
          /\ \A k \in DOMAIN t : t[k].id = i => k <= Latest(t, i)
      BY <1>1, <2>1, <2>3, LatestIs DEF Has
    <3>3. Latest(t, i) = Latest(s, i)
      BY <1>1, <1>2, <1>4, <3>1, <3>2
    <3> QED
      BY <1>1, <2>1, <2>3, <3>1, <3>3 DEF Find
  <2> QED
    BY <2>2, <2>3
<1> QED
  BY <1>3, <1>4 DEF t

LEMMA FindDataSet ==
  ASSUME NEW s \in Seq(Record), s # <<>>, NEW t \in Seq(Record), Len(t) = Len(s),
         \A k \in DOMAIN s : t[k].id = s[k].id /\ (k # Len(s) => t[k] = s[k]),
         NEW i, s[Len(s)].id = i
  PROVE  Find(t, i) = t[Len(s)].data /\ \A j : j # i => Find(t, j) = Find(s, j)
<1> DEFINE n == Len(s)
<1>1. /\ DOMAIN t = DOMAIN s /\ n \in DOMAIN s
      /\ \A k \in DOMAIN s : k \in Int /\ k <= n
      /\ \A k \in DOMAIN s \ {n} : t[k] = s[k]
  OBVIOUS
<1> HIDE DEF n
<1>4. \A k \in DOMAIN s : t[k].id = s[k].id
  OBVIOUS
<1>5. \A j : Has(t, j) <=> Has(s, j)
  BY <1>1, <1>4 DEF Has
<1>6. ASSUME NEW j, Has(s, j)
      PROVE  /\ Latest(t, j) = Latest(s, j) /\ Latest(s, j) \in DOMAIN s
             /\ s[Latest(s, j)].id = j /\ \A k \in DOMAIN s : s[k].id = j => k <= Latest(s, j)
  <2>1. /\ Latest(s, j) \in DOMAIN s /\ s[Latest(s, j)].id = j
        /\ \A k \in DOMAIN s : s[k].id = j => k <= Latest(s, j)
    BY <1>6, LatestIs DEF Has
  <2>2. /\ Latest(t, j) \in DOMAIN t /\ t[Latest(t, j)].id = j
        /\ \A k \in DOMAIN t : t[k].id = j => k <= Latest(t, j)
    BY <1>5, <1>6, LatestIs DEF Has
  <2> QED
    BY <1>1, <1>4, <2>1, <2>2
<1>7. s[n].id = i
  BY DEF n
<1>8. Find(t, i) = t[n].data
  <2>1. Has(s, i) /\ Has(t, i)
    BY <1>1, <1>5, <1>7 DEF Has
  <2>2. Latest(s, i) = n
    BY <1>1, <1>6, <1>7, <2>1
  <2> QED
    BY <1>6, <2>1, <2>2 DEF Find
<1>9. ASSUME NEW j, j # i PROVE Find(t, j) = Find(s, j)
  <2>1. CASE ~Has(s, j)
    BY <1>5, <2>1 DEF Find
  <2>2. CASE Has(s, j)
    <3>1. Latest(s, j) # n
      BY <1>6, <1>7, <1>9, <2>2
    <3> QED
      BY <1>1, <1>5, <1>6, <2>2, <3>1 DEF Find
  <2> QED
    BY <2>1, <2>2
<1> QED
  BY <1>8, <1>9 DEF n

(***************************************************************************)
(* What a write has reached in the bank where it works.                    *)
(***************************************************************************)
Written ==
  /\ op.at = "copy" => recs[op.to] = <<>>
  /\ op.at = "commit" => recs[op.to] = <<>> \/ Others(recs[Current], op.id) # {}
  /\ op.at = "data" => recs[op.to][Len(recs[op.to])].id = op.id
  /\ op.at = "done" => Find(recs[op.to], op.id) = op.obj

LEMMA OpFacts ==
  ASSUME BankIInv
  PROVE  /\ Current \in Bank /\ cnt \in [Bank -> 0..Top] /\ recs \in [Bank -> Seq(Record)]
         /\ \A b, c \in Bank : b # c /\ cnt[b] = cnt[c] => cnt[b] = Top
         /\ op.at # "idle" =>
              /\ op \in [at : Steps, id : Id, obj : Object, to : Bank]
              /\ cnt[Current] < Top
              /\ op.to = Current <=> op.at \notin {"copy", "commit"}
         /\ op.at = "idle" => op = Idle(TRUE) \/ op = Idle(FALSE)
BY FirstOfIs, CurrentIsFirst DEF BankIInv, BankInv, TypeOK, OneCurrent, Idle, Steps

\* the record that WriteHead appends
LEMMA HeadWritten ==
  ASSUME BankIInv, WriteHead
  PROVE  LET s == recs[Current]
             r == HeadOf(FreeAddr(s), op.id, Words[op.obj])
         IN  /\ op.at = "head" /\ op.to = Current /\ s \in Seq(Record) /\ r \in Record
             /\ r.id = op.id /\ r.data = IF Words[op.obj] = 0 THEN op.obj ELSE Torn
             /\ recs'[Current] = Append(s, r)
             /\ op' = [op EXCEPT !.at = IF Words[op.obj] = 0 THEN "done" ELSE "data"]
             /\ Current' = Current
<1>1. /\ op.at = "head" /\ cnt' = cnt
      /\ recs' = [recs EXCEPT ![op.to] = Append(@, HeadOf(FreeAddr(@), op.id, Words[op.obj]))]
      /\ op' = [op EXCEPT !.at = IF Words[op.obj] = 0 THEN "done" ELSE "data"]
  BY DEF WriteHead
<1>2. /\ op \in [at : Steps, id : Id, obj : Object, to : Bank] /\ op.to = Current
      /\ Current \in Bank /\ recs \in [Bank -> Seq(Record)]
  BY <1>1, OpFacts
<1>3. op.obj \in Object /\ Words[op.obj] \in Nat /\ (Words[op.obj] = 0 <=> op.obj = Empty)
  BY <1>2, FlashAssumption
<1>4. recs[Current] \in Seq(Record)
  BY <1>2
<1>5. HeadOf(FreeAddr(recs[Current]), op.id, Words[op.obj]) \in Record
  BY <1>2, <1>3, <1>4, SeqsOfRecords
<1>6. recs'[Current] = Append(recs[Current], HeadOf(FreeAddr(recs[Current]), op.id, Words[op.obj]))
  BY <1>1, <1>2
<1>7. /\ HeadOf(FreeAddr(recs[Current]), op.id, Words[op.obj]).id = op.id
      /\ HeadOf(FreeAddr(recs[Current]), op.id, Words[op.obj]).data
           = IF Words[op.obj] = 0 THEN op.obj ELSE Torn
  BY <1>3 DEF HeadOf
<1> QED
  BY <1>1, <1>2, <1>4, <1>5, <1>6, <1>7, CurrentIsFirst

LEMMA DataWritten ==
  ASSUME BankIInv, Written, WriteData
  PROVE  LET s == recs[Current]
             t == recs'[Current]
         IN  /\ op.at = "data" /\ op.to = Current /\ s \in Seq(Record) /\ s # <<>>
             /\ s[Len(s)].id = op.id
             /\ t \in Seq(Record) /\ Len(t) = Len(s) /\ t[Len(s)].data = op.obj
             /\ \A k \in DOMAIN s : t[k].id = s[k].id /\ (k # Len(s) => t[k] = s[k])
             /\ op' = [op EXCEPT !.at = "done"]
             /\ op \in [at : Steps, id : Id, obj : Object, to : Bank]
             /\ Current' = Current
<1>1. /\ op.at = "data" /\ op' = [op EXCEPT !.at = "done"] /\ cnt' = cnt
      /\ recs' = [recs EXCEPT ![op.to][Len(recs[op.to])].data = op.obj]
  BY DEF WriteData
<1>2. /\ op \in [at : Steps, id : Id, obj : Object, to : Bank] /\ op.to = Current
      /\ Current \in Bank /\ recs \in [Bank -> Seq(Record)]
  BY <1>1, OpFacts
<1>3. recs[Current] # <<>> /\ recs[Current][Len(recs[Current])].id = op.id
  BY <1>1, <1>2 DEF BankIInv, Prepared, Written
<1> DEFINE s == recs[Current]
           t == recs'[Current]
           o == op.obj
<1>4. t = [s EXCEPT ![Len(s)].data = o] /\ s \in Seq(Record) /\ s # <<>> /\ o \in Object
  BY <1>1, <1>2, <1>3
<1>5. s[Len(s)].id = op.id
  BY <1>3
<1> HIDE DEF s, t, o
<1>6. t \in Seq(Record)
  BY <1>4, LastDataSet
<1>7. Len(s) \in DOMAIN s /\ s[Len(s)] \in Record
  BY <1>4
<1>8. /\ Len(t) = Len(s) /\ t[Len(s)] = [s[Len(s)] EXCEPT !.data = o]
      /\ \A k \in DOMAIN s : k # Len(s) => t[k] = s[k]
  BY <1>4, <1>7
<1>9. t[Len(s)].data = o /\ t[Len(s)].id = s[Len(s)].id
  BY <1>7, <1>8 DEF Record
<1>10. Current' = Current
  BY <1>1, CurrentIsFirst
<1>11. \A k \in DOMAIN s : t[k].id = s[k].id /\ (k # Len(s) => t[k] = s[k])
  BY <1>8, <1>9
<1> QED
  BY <1>1, <1>2, <1>4, <1>5, <1>6, <1>10, <1>8, <1>9, <1>11 DEF s, t, o

LEMMA WrittenStep == BankIInv /\ Written /\ [Next]_vars => Written'
<1> SUFFICES ASSUME BankIInv, Written, [Next]_vars PROVE Written'
  OBVIOUS
<1>1. /\ Current \in Bank /\ cnt \in [Bank -> 0..Top] /\ recs \in [Bank -> Seq(Record)]
      /\ op.at # "idle" =>
           /\ op \in [at : Steps, id : Id, obj : Object, to : Bank]
           /\ op.to = Current <=> op.at \notin {"copy", "commit"}
  BY OpFacts
<1>2. op'.at \in {"idle", "head", "pack"} => Written'
  BY DEF Written
<1>3. CASE ReadCfg \/ NoMem \/ Done \/ Crash
  BY <1>2, <1>3 DEF ReadCfg, NoMem, Done, Crash, Idle
<1>4. ASSUME NEW i \in Id, NEW o \in Object, WriteCfg(i, o) PROVE Written'
  <2>1. recs' = recs
    BY <1>4 DEF WriteCfg
  <2>2. \/ /\ op' = [at |-> "done", id |-> i, obj |-> o, to |-> Current]
           /\ Find(recs[Current], i) = o
        \/ op'.at \in {"head", "pack"}
    BY <1>4 DEF WriteCfg
  <2> QED
    BY <1>2, <2>1, <2>2 DEF Written
<1>5. CASE Erase
  <2>1. /\ op.at = "pack" /\ op' = [op EXCEPT !.at = "copy", !.to = PackTarget]
        /\ recs' = [recs EXCEPT ![PackTarget] = <<>>]
    BY <1>5 DEF Erase
  <2>2. PackTarget \in Bank
    BY <1>1, PackTargetIs
  <2>3. op'.at = "copy" /\ op'.to = PackTarget /\ recs'[PackTarget] = <<>>
    BY <1>1, <2>1, <2>2
  <2> QED
    BY <2>3 DEF Written
<1>6. CASE CopyOld
  <2>1. /\ op.at = "copy" /\ op' = [op EXCEPT !.at = "commit"] /\ cnt' = cnt
        /\ recs' = recs \/ \E x : recs' = [recs EXCEPT ![op.to] = x]
        /\ ToCopy(recs[Current], op.id) = {} => recs' = recs
    BY <1>6 DEF CopyOld
  <2>2. op'.at = "commit" /\ op'.id = op.id /\ op'.to = op.to /\ op.to # Current
    BY <1>1, <2>1
  <2>3. Current' = Current /\ recs'[Current] = recs[Current]
    BY <1>1, <2>1, <2>2, CurrentIsFirst
  <2>4. ToCopy(recs[Current], op.id) \subseteq Others(recs[Current], op.id)
    BY DEF ToCopy, Others
  <2>5. recs'[op.to] = <<>> \/ Others(recs[Current], op.id) # {}
    BY <2>1, <2>4 DEF Written
  <2> QED
    BY <2>2, <2>3, <2>5 DEF Written
<1>7. CASE Commit
  <2>1. op.at = "commit" /\ (op' = [op EXCEPT !.at = "head"] \/ op' = Idle(FALSE))
    BY <1>7 DEF Commit
  <2>2. op'.at \in {"head", "idle"}
    BY <1>1, <2>1 DEF Idle
  <2> QED
    BY <1>2, <2>2
<1>8. CASE WriteHead
  <2> DEFINE s == recs[Current]
             r == HeadOf(FreeAddr(s), op.id, Words[op.obj])
  <2>1. /\ op.at = "head" /\ op.to = Current /\ s \in Seq(Record) /\ r \in Record
        /\ r.id = op.id /\ r.data = IF Words[op.obj] = 0 THEN op.obj ELSE Torn
        /\ recs'[Current] = Append(s, r)
        /\ op' = [op EXCEPT !.at = IF Words[op.obj] = 0 THEN "done" ELSE "data"]
    BY <1>8, HeadWritten
  <2> HIDE DEF s, r
  <2>2. Find(Append(s, r), op.id) = r.data
    BY <2>1, FindAppend
  <2>3. Append(s, r)[Len(Append(s, r))] = r
    BY <2>1
  <2>4. op \in [at : Steps, id : Id, obj : Object, to : Bank]
    BY <1>1, <2>1
  <2>5. op'.id = op.id /\ op'.to = Current /\ op'.obj = op.obj
        /\ op'.at = IF Words[op.obj] = 0 THEN "done" ELSE "data"
    BY <2>1, <2>4
  <2>6. CASE Words[op.obj] = 0
    <3>1. op'.at = "done" /\ Find(recs'[op'.to], op'.id) = op'.obj
      BY <2>1, <2>2, <2>5, <2>6
    <3> QED
      BY <3>1 DEF Written
  <2>7. CASE Words[op.obj] # 0
    <3>1. op'.at = "data" /\ recs'[op'.to][Len(recs'[op'.to])].id = op'.id
      BY <2>1, <2>3, <2>5, <2>7
    <3> QED
      BY <3>1 DEF Written
  <2> QED
    BY <2>6, <2>7
<1>9. CASE WriteData
  <2> DEFINE s == recs[Current]
             t == recs'[Current]
  <2>1. /\ s \in Seq(Record) /\ s # <<>> /\ s[Len(s)].id = op.id
        /\ t \in Seq(Record) /\ Len(t) = Len(s) /\ t[Len(s)].data = op.obj
        /\ \A k \in DOMAIN s : t[k].id = s[k].id /\ (k # Len(s) => t[k] = s[k])
        /\ op' = [op EXCEPT !.at = "done"] /\ op.to = Current
        /\ op \in [at : Steps, id : Id, obj : Object, to : Bank]
    BY <1>9, DataWritten
  <2> HIDE DEF s, t
  <2>2. op.obj \in Object /\ op'.at = "done" /\ op'.id = op.id /\ op'.to = Current
        /\ op'.obj = op.obj
    BY <2>1
  <2>3. Find(t, op.id) = op.obj
    BY <2>1, <2>2, FindDataSet
  <2> QED
    BY <2>2, <2>3 DEF Written, t
<1>10. CASE UNCHANGED vars
  <2>1. recs' = recs /\ op' = op /\ cnt' = cnt
    BY <1>10 DEF vars
  <2>2. Current' = Current
    BY <2>1, CurrentIsFirst
  <2> QED
    BY <2>1, <2>2 DEF Written
<1> QED
  BY <1>3, <1>4, <1>5, <1>6, <1>7, <1>8, <1>9, <1>10 DEF Next

\* A write in the current bank touches what a read of its own id finds.
LEMMA StoreStep ==
  ASSUME BankIInv, Current' = Current, NEW j, NEW x,
         Find(recs'[Current], j) = x,
         \A i : i # j => Find(recs'[Current], i) = Find(recs[Current], i)
  PROVE  Store' = [Store EXCEPT ![j] = x]
BY DEF Store

LEMMA KvInitial == Init => Kv!KvInit
<1> SUFFICES ASSUME Init PROVE Kv!KvInit
  OBVIOUS
<1>1. Current \in Bank
  BY BankInit, OpFacts
<1>2. recs[Current] = <<>>
  BY <1>1 DEF Init
<1>3. \A i \in Id : Find(recs[Current], i) = None
  BY <1>2 DEF Find, Has
<1>4. op.at = "idle" /\ op # Idle(TRUE) /\ (merged \/ outside) = FALSE
  BY DEF Init, Idle
<1> QED
  BY <1>3, <1>4 DEF Kv!KvInit, Store, Busy

LEMMA KvStep == BankIInv /\ Written /\ [Next]_vars => [Kv!KvNext]_(Kv!kvVars)
<1> SUFFICES ASSUME BankIInv, Written, [Next]_vars PROVE [Kv!KvNext]_(Kv!kvVars)
  OBVIOUS
<1>1. /\ Current \in Bank /\ cnt \in [Bank -> 0..Top] /\ recs \in [Bank -> Seq(Record)]
      /\ \A b, c \in Bank : b # c /\ cnt[b] = cnt[c] => cnt[b] = Top
      /\ op.at # "idle" =>
           /\ op \in [at : Steps, id : Id, obj : Object, to : Bank]
           /\ op.to = Current <=> op.at \notin {"copy", "commit"}
  BY OpFacts
<1>2. \A x : x \in [at : Steps, id : Id, obj : Object, to : Bank]
         => x.at # "idle" /\ x # Idle(TRUE) /\ x # Idle(FALSE)
  BY DEF Steps, Idle
<1>3. Idle(TRUE).at = "idle" /\ Idle(FALSE).at = "idle" /\ Idle(TRUE) # Idle(FALSE)
  <2>1. Idle(TRUE).ok /\ ~Idle(FALSE).ok
    BY DEF Idle
  <2> QED
    BY <2>1 DEF Idle
\* The store of a bank that no longer changes.
<1>4. ASSUME Current' = Current, recs'[Current] = recs[Current] PROVE Store' = Store
  BY <1>4 DEF Store
\* A step inside a write that leaves the store alone.
<1>5. ASSUME Current' = Current, recs'[Current] = recs[Current],
             op.at # "idle", op'.at # "idle", op'.id = op.id, op'.obj = op.obj,
             merged' = merged, outside' = outside,
             op \in [at : Steps, id : Id, obj : Object, to : Bank],
             op' \in [at : Steps, id : Id, obj : Object, to : Bank]
      PROVE  UNCHANGED Kv!kvVars
  <2>1. Busy' = Busy
    BY <1>5 DEF Busy
  <2>2. op # Idle(TRUE) /\ op' # Idle(TRUE)
    BY <1>2, <1>5
  <2>3. (merged' \/ outside') <=> (merged \/ outside)
    BY <1>5
  <2> QED
    BY <1>4, <1>5, <2>1, <2>2, <2>3 DEF Kv!kvVars
<1>6. CASE ReadCfg
  <2>1. cnt' = Formatted /\ recs' = recs /\ op' = op /\ merged' = merged /\ outside' = outside
    BY <1>6 DEF ReadCfg
  <2>2. Current' = Current
    BY <1>1, <2>1, FormattedIs, CurrentIsFirst
  <2>3. Store' = Store
    BY <1>4, <2>1, <2>2
  <2>4. Busy' = Busy
    BY <2>1 DEF Busy
  <2> QED
    BY <2>1, <2>3, <2>4 DEF Kv!kvVars
<1>7. ASSUME NEW i \in Id, NEW o \in Object, WriteCfg(i, o) PROVE Kv!KvNext
  <2>1. PICK at \in {"done", "head", "pack"} :
          op' = [at |-> at, id |-> i, obj |-> o, to |-> Current]
    BY <1>7 DEF WriteCfg
  <2>2. /\ cnt' = Formatted /\ recs' = recs /\ merged' = merged /\ outside' = outside
        /\ op.at = "idle"
    BY <1>7 DEF WriteCfg
  <2>3. Current' = Current
    BY <1>1, <2>2, FormattedIs, CurrentIsFirst
  <2>4. Store' = Store /\ Busy = <<>> /\ Busy' = <<i, o>>
    BY <1>4, <2>1, <2>2, <2>3 DEF Busy
  <2>5. op' # Idle(TRUE)
    BY <1>1, <1>2, <2>1 DEF Steps
  <2>6. Kv!Begin(i, o)
    BY <2>2, <2>4, <2>5 DEF Kv!Begin
  <2> QED
    BY <2>6 DEF Kv!KvNext
<1>8. CASE NoMem
  BY <1>8 DEF NoMem, Kv!KvNext
<1>9. CASE Erase
  <2>1. /\ op.at = "pack" /\ op' = [op EXCEPT !.at = "copy", !.to = PackTarget]
        /\ cnt' = [cnt EXCEPT ![PackTarget] = Top]
        /\ recs' = [recs EXCEPT ![PackTarget] = <<>>]
        /\ merged' = merged /\ outside' = outside
    BY <1>9 DEF Erase
  <2>2. PackTarget \in Bank /\ PackTarget # Current
    BY <2>1, PackSparesCurrent DEF BankIInv, BankInv
  <2>3. recs'[Current] = recs[Current]
    BY <1>1, <2>1, <2>2
  <2>4. Current' = Current
    BY <1>9, EraseKeepsCurrent
  <2>5. /\ op \in [at : Steps, id : Id, obj : Object, to : Bank]
        /\ op' \in [at : Steps, id : Id, obj : Object, to : Bank]
        /\ op'.at # "idle" /\ op'.id = op.id /\ op'.obj = op.obj
    BY <1>1, <2>1, <2>2 DEF Steps
  <2> QED
    BY <1>5, <2>1, <2>3, <2>4, <2>5
<1>10. CASE CopyOld
  <2>1. /\ op.at = "copy" /\ op' = [op EXCEPT !.at = "commit"] /\ cnt' = cnt
        /\ recs' = recs \/ \E x : recs' = [recs EXCEPT ![op.to] = x]
        /\ merged' = merged /\ outside' = outside
    BY <1>10 DEF CopyOld
  <2>2. /\ op \in [at : Steps, id : Id, obj : Object, to : Bank]
        /\ op' \in [at : Steps, id : Id, obj : Object, to : Bank]
        /\ op'.at # "idle" /\ op'.id = op.id /\ op'.obj = op.obj /\ op.to # Current
    BY <1>1, <2>1 DEF Steps
  <2>3. Current' = Current /\ recs'[Current] = recs[Current]
    BY <1>1, <2>1, <2>2, CurrentIsFirst
  <2> QED
    BY <1>5, <2>1, <2>2, <2>3
<1>11. CASE Commit
  <2>1. /\ op.at = "commit" /\ recs' = recs /\ outside' = outside
        /\ merged' = (merged \/ Others(recs[Current], op.id) # {})
        /\ op' = IF Fits(recs[op.to], Words[op.obj]) THEN [op EXCEPT !.at = "head"] ELSE Idle(FALSE)
    BY <1>11 DEF Commit
  <2>2. CASE Others(recs[Current], op.id) # {}
    BY <2>1, <2>2 DEF Kv!KvNext
  <2>3. CASE merged
    BY <2>1, <2>3 DEF Kv!KvNext
  <2>4. CASE Others(recs[Current], op.id) = {} /\ ~merged
    <3>1. recs[op.to] = <<>>
      BY <2>1, <2>4 DEF Written
    <3>2. /\ op \in [at : Steps, id : Id, obj : Object, to : Bank]
      BY <1>1, <2>1
    <3>3. Fits(recs[op.to], Words[op.obj])
      <4>1. Words[op.obj] \in Nat /\ Words[op.obj] + 2 < BankWords /\ BankWords \in Nat
        BY <3>2, FlashAssumption
      <4>2. FreeAddr(<<>>) = 1
        BY DEF FreeAddr
      <4> QED
        BY <3>1, <4>1, <4>2 DEF Fits
    <3>4. op' = [op EXCEPT !.at = "head"]
      BY <2>1, <3>3
    <3>5. /\ op'.at = "head" /\ op'.id = op.id /\ op'.obj = op.obj
          /\ op # Idle(TRUE) /\ op' # Idle(TRUE)
      BY <1>2, <3>2, <3>4 DEF Steps
    <3>6. Current' = op.to
      BY <1>11, CommitMakesCurrent
    <3>7. \A x \in Id : Find(recs'[Current'], x) = None
      BY <2>1, <3>1, <3>6 DEF Find, Has
    <3>8. \A x \in Id : x # op.id => Find(recs[Current], x) = None
      BY <2>4 DEF Find, Has, Others
    <3>9. Store' = [Store EXCEPT ![op.id] = None]
      BY <3>7, <3>8 DEF Store
    <3>10. Busy = <<op.id, op.obj>> /\ Busy' = Busy /\ Busy[1] = op.id /\ Busy # <<>>
      <4>1. Busy = <<op.id, op.obj>>
        BY <2>1 DEF Busy
      <4>2. Busy' = <<op.id, op.obj>>
        BY <3>5 DEF Busy
      <4> QED
        BY <4>1, <4>2
    <3>11. (merged' \/ outside') = (merged \/ outside)
      BY <2>1, <2>4
    <3>12. Kv!Disturb
      BY <3>5, <3>9, <3>10, <3>11 DEF Kv!Disturb
    <3> QED
      BY <3>12 DEF Kv!KvNext
  <2> QED
    BY <2>2, <2>3, <2>4
<1>12. CASE WriteHead
  <2> DEFINE s == recs[Current]
             r == HeadOf(FreeAddr(s), op.id, Words[op.obj])
  <2>1. /\ op.at = "head" /\ op.to = Current /\ s \in Seq(Record) /\ r \in Record
        /\ r.id = op.id /\ r.data = IF Words[op.obj] = 0 THEN op.obj ELSE Torn
        /\ recs'[Current] = Append(s, r)
        /\ op' = [op EXCEPT !.at = IF Words[op.obj] = 0 THEN "done" ELSE "data"]
        /\ Current' = Current
    BY <1>12, HeadWritten
  <2>2. Find(recs'[Current], op.id) = r.data
        /\ \A i : i # op.id => Find(recs'[Current], i) = Find(s, i)
    <3> HIDE DEF s, r
    <3> QED
      BY <2>1, FindAppend
  <2>3. Store' = [Store EXCEPT ![op.id] = r.data]
    BY <2>1, <2>2, StoreStep
  <2>4. r.data \in {None, Torn, op.obj}
    BY <2>1
  <2>5. /\ op \in [at : Steps, id : Id, obj : Object, to : Bank]
        /\ op' \in [at : Steps, id : Id, obj : Object, to : Bank]
        /\ op'.id = op.id /\ op'.obj = op.obj
    BY <1>1, <2>1 DEF Steps
  <2>6. op # Idle(TRUE) /\ op' # Idle(TRUE) /\ op'.at # "idle"
    BY <1>2, <2>5
  <2>7. /\ Busy = <<op.id, op.obj>> /\ Busy' = Busy /\ Busy # <<>>
        /\ Busy[1] = op.id /\ Busy[2] = op.obj
    BY <2>1, <2>5, <2>6 DEF Busy
  <2>8. merged' = merged /\ outside' = outside
    BY <1>12 DEF WriteHead
  <2>9. Kv!Disturb
    <3> HIDE DEF r
    <3> QED
      BY <2>3, <2>4, <2>6, <2>7, <2>8 DEF Kv!Disturb
  <2> QED
    BY <2>9 DEF Kv!KvNext
<1>13. CASE WriteData
  <2> DEFINE s == recs[Current]
             t == recs'[Current]
  <2>1. /\ op.at = "data" /\ s \in Seq(Record) /\ s # <<>> /\ s[Len(s)].id = op.id
        /\ t \in Seq(Record) /\ Len(t) = Len(s) /\ t[Len(s)].data = op.obj
        /\ \A k \in DOMAIN s : t[k].id = s[k].id /\ (k # Len(s) => t[k] = s[k])
        /\ op' = [op EXCEPT !.at = "done"] /\ Current' = Current
        /\ op \in [at : Steps, id : Id, obj : Object, to : Bank]
    BY <1>13, DataWritten
  <2>2. /\ op.obj \in Object /\ op' \in [at : Steps, id : Id, obj : Object, to : Bank]
        /\ op'.id = op.id /\ op'.obj = op.obj
    BY <2>1 DEF Steps
  <2>3. Find(recs'[Current], op.id) = op.obj
        /\ \A i : i # op.id => Find(recs'[Current], i) = Find(s, i)
    <3>1. Find(t, op.id) = op.obj /\ \A i : i # op.id => Find(t, i) = Find(s, i)
      <4> HIDE DEF s, t
      <4> QED
        BY <2>1, <2>2, FindDataSet
    <3> QED
      BY <3>1
  <2>4. Store' = [Store EXCEPT ![op.id] = op.obj]
    BY <2>1, <2>3, StoreStep
  <2>5. op # Idle(TRUE) /\ op' # Idle(TRUE) /\ op'.at # "idle"
    BY <1>2, <2>1, <2>2
  <2>6. /\ Busy = <<op.id, op.obj>> /\ Busy' = Busy /\ Busy # <<>>
        /\ Busy[1] = op.id /\ Busy[2] = op.obj
    BY <2>1, <2>2, <2>5 DEF Busy
  <2>7. merged' = merged /\ outside' = outside
    BY <1>13 DEF WriteData
  <2>8. Kv!Disturb
    BY <2>4, <2>5, <2>6, <2>7 DEF Kv!Disturb
  <2> QED
    BY <2>8 DEF Kv!KvNext
<1>14. CASE Done
  <2>1. /\ op.at = "done" /\ op' = Idle(TRUE) /\ cnt' = cnt /\ recs' = recs
        /\ merged' = merged /\ outside' = outside
    BY <1>14 DEF Done
  <2>2. op.to = Current /\ op.id \in Id
    BY <1>1, <2>1
  <2>3. Find(recs[Current], op.id) = op.obj
    BY <2>1, <2>2 DEF Written
  <2>4. Store' = [Store EXCEPT ![op.id] = op.obj]
    <3>1. Current' = Current
      BY <2>1, CurrentIsFirst
    <3> QED
      BY <2>1, <2>3, <3>1, StoreStep
  <2>5. /\ Busy = <<op.id, op.obj>> /\ Busy' = <<>> /\ Busy # <<>>
        /\ Busy[1] = op.id /\ Busy[2] = op.obj
    BY <1>3, <2>1 DEF Busy
  <2>6. Kv!Finish
    BY <2>1, <2>4, <2>5 DEF Kv!Finish
  <2> QED
    BY <2>6 DEF Kv!KvNext
<1>15. CASE Crash
  <2>1. /\ op.at # "idle" /\ op' = Idle(FALSE) /\ cnt' = cnt /\ recs' = recs
        /\ merged' = merged /\ outside' = outside
    BY <1>15 DEF Crash
  <2>2. Current' = Current
    BY <2>1, CurrentIsFirst
  <2>3. Store' = Store
    BY <1>4, <2>1, <2>2
  <2>4. Busy # <<>> /\ Busy' = <<>> /\ op' # Idle(TRUE)
    BY <1>3, <2>1 DEF Busy
  <2>5. Kv!GiveUp
    BY <2>1, <2>3, <2>4 DEF Kv!GiveUp
  <2> QED
    BY <2>5 DEF Kv!KvNext
<1>16. CASE UNCHANGED vars
  <2>1. cnt' = cnt /\ recs' = recs /\ op' = op /\ merged' = merged /\ outside' = outside
    BY <1>16 DEF vars
  <2>2. Current' = Current
    BY <2>1, CurrentIsFirst
  <2>3. Store' = Store /\ Busy' = Busy
    BY <1>4, <2>1, <2>2 DEF Busy
  <2> QED
    BY <2>1, <2>3 DEF Kv!kvVars
<1> QED
  BY <1>6, <1>7, <1>8, <1>9, <1>10, <1>11, <1>12, <1>13, <1>14, <1>15, <1>16 DEF Next

(***************************************************************************)
(* flash_eep.c implements the store its callers rely on: a write that      *)
(* returns true left its object, a write that does not, or that a reset    *)
(* cuts off, touched no other id.  The promise holds until a pack has      *)
(* other objects to copy, or malloc fails in one.                          *)
(***************************************************************************)
THEOREM FlashImplementsKv == Spec => ImplementsKv
<1>1. Init => Written
  BY DEF Init, Written, Idle
<1> QED
  BY KvInitial, KvStep, BankInit, BankStep, WrittenStep, <1>1, PTL
  DEF Spec, ImplementsKv, Kv!KvSpec
=============================================================================
