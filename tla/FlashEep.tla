----------------------------- MODULE FlashEep -----------------------------
(***************************************************************************)
(* The configuration store of common/mbed/targets/hal/rtl8195a/            *)
(* flash_eep.c: objects are appended to the current bank of flash; a full  *)
(* bank is packed into another one, which then becomes the current one.    *)
(*                                                                         *)
(* A bank starts with a counter word that every pack makes smaller: the    *)
(* bank with the smallest counter is current, an erased counter is the     *)
(* largest word there is.  Records follow: a head word (id, size) and the  *)
(* words of the object.  Flash words are programmed one by one and the     *)
(* device may be reset between any two.  RT_DEV_LOCK_FLASH lets one call   *)
(* work at a time.                                                         *)
(*                                                                         *)
(* The words of one object are written in one step: a record is its head   *)
(* with its data, or its head with data that is not what was saved (Torn). *)
(* An erase is one step.                                                   *)
(***************************************************************************)
EXTENDS Integers, Sequences, FiniteSets

CONSTANTS
  Id, Object, None, Torn,
  Empty,      \* the object of size 0: an id is deleted by saving it
  Words,      \* the number of data words of each object
  BankWords,  \* FMEMORY_SCFG_BANK_SIZE / 4
  Banks,      \* FMEMORY_SCFG_BANKS
  Top         \* the erased counter word; bounds the number of packs

ASSUME FlashAssumption ==
  /\ Empty \in Object /\ None \notin Object \union {Torn} /\ Torn \notin Object
  /\ Words \in [Object -> Nat] /\ \A o \in Object : Words[o] = 0 <=> o = Empty
  /\ BankWords \in Nat /\ \A o \in Object : Words[o] + 2 < BankWords   \* MAX_FOBJ_SIZE
  /\ Banks \in Nat \ {0, 1} /\ Top \in Nat \ {0}

VARIABLES
  cnt,      \* the counter word of each bank
  recs,     \* the records of each bank, in the order of their addresses
  op,       \* the write at work
  merged,   \* history: a pack that had other objects to copy was committed
  outside   \* history: words were written outside the banks

vars == <<cnt, recs, op, merged, outside>>

Bank == 0..(Banks - 1)
Idle(ok) == [at |-> "idle", ok |-> ok]   \* ok: the last write returned true
NoId == <<>>    \* in a head word that is nobody's

Init ==
  /\ cnt = [b \in Bank |-> Top]
  /\ recs = [b \in Bank |-> <<>>]
  /\ op = Idle(FALSE) /\ merged = FALSE /\ outside = FALSE

(***************************************************************************)
(* Operators marked "mutant" are plausible bugs in the operator that       *)
(* follows them.  No action uses them; PROJECT.json says which property    *)
(* notices which.                                                          *)
(***************************************************************************)
\* get_addr_bscfg(false): the first of the smallest counters
Current == CHOOSE b \in Bank : \A c \in Bank : cnt[b] < cnt[c] \/ (cnt[b] = cnt[c] /\ b <= c)

\* mutant: an erased bank is not preferred
PackTargetUsed ==
  CHOOSE b \in Bank : \A c \in Bank :
    \/ cnt[b] # Top /\ (cnt[c] = Top \/ cnt[b] > cnt[c])
    \/ cnt[b] = cnt[c] /\ b <= c

\* get_addr_bscfg(true): the last erased bank, or the first of the largest counters
PackTarget ==
  CHOOSE b \in Bank : \A c \in Bank :
    \/ cnt[b] > cnt[c]
    \/ cnt[b] = cnt[c] /\ IF cnt[b] = Top THEN b >= c ELSE b <= c

\* get_addr_bscfg(false) gives erased flash its first counter.
Formatted == IF cnt[Current] = Top THEN [cnt EXCEPT ![Current] = Top - 1] ELSE cnt

\* mutant: the first record of the id
LatestFirst(s, i) ==
  CHOOSE k \in DOMAIN s : s[k].id = i /\ \A j \in DOMAIN s : s[j].id = i => k <= j

\* get_addr_fobj(.., false): the last record of the id
Latest(s, i) ==
  CHOOSE k \in DOMAIN s : s[k].id = i /\ \A j \in DOMAIN s : s[j].id = i => j <= k

Has(s, i) == \E k \in DOMAIN s : s[k].id = i

\* what flash_read_cfg finds in a bank
Find(s, i) == IF Has(s, i) THEN s[Latest(s, i)].data ELSE None

\* the address of the first free word
FreeAddr(s) == IF s = <<>> THEN 1 ELSE s[Len(s)].adr + 1 + s[Len(s)].n

\* mutant: a free word is enough
FitsAnyFree(s, n) == FreeAddr(s) < BankWords

\* get_addr_fobj_save finds room for n words and their head
Fits(s, n) == FreeAddr(s) + 1 + n < BankWords

\* a head word whose data words are not written
HeadOf(x, i, n) == [adr |-> x, id |-> i, n |-> n, data |-> IF n = 0 THEN Empty ELSE Torn]

\* flash_read_cfg on erased flash
ReadCfg ==
  /\ op.at = "idle"
  /\ cnt' = Formatted
  /\ UNCHANGED <<recs, op, merged, outside>>

\* flash_write_cfg up to the place where the record goes
WriteCfg(i, o) ==
  LET Go(at) == op' = [at |-> at, id |-> i, obj |-> o, to |-> Current]
      same == Find(recs[Current], i) = o
  IN  /\ op.at = "idle"
      /\ cnt' = Formatted
      /\ \/ same /\ Go("done")
         \/ ~same /\ Fits(recs[Current], Words[o]) /\ Go("head")
         \/ ~same /\ ~Fits(recs[Current], Words[o]) /\ Go("pack")
      /\ UNCHANGED <<recs, merged, outside>>

\* pack_cfg_fmem returns 5 when malloc fails: it is taken for an address.
NoMem ==
  /\ op.at = "pack" /\ op' = Idle(TRUE)
  /\ outside' = TRUE
  /\ UNCHANGED <<cnt, recs, merged>>

Erase ==
  /\ op.at = "pack" /\ cnt[Current] > 0
  /\ op' = [op EXCEPT !.at = "copy", !.to = PackTarget]
  /\ cnt' = [cnt EXCEPT ![PackTarget] = Top]
  /\ recs' = [recs EXCEPT ![PackTarget] = <<>>]
  /\ UNCHANGED <<merged, outside>>

Others(s, i) == {s[k].id : k \in DOMAIN s} \ {i}

\* the ids to copy; the loop ends two words before the end of the bank
ToCopy(s, i) == {s[k].id : k \in {m \in DOMAIN s : s[m].adr + 2 < BankWords}} \ {i}

\* The copy loop writes every word to the same address, so the bank holds one
\* word, the AND of all of them: any id, any size, no data.  Only a single id
\* whose first record has no data leaves a head word as it was.
CopyOld ==
  LET s == recs[Current]
      others == ToCopy(s, op.id)
      FirstIsEmpty(j) == \E k \in DOMAIN s : s[k].id = j /\ s[k].n = 0
                           /\ \A m \in DOMAIN s : s[m].id = j => k <= m
  IN  /\ op.at = "copy" /\ op' = [op EXCEPT !.at = "commit"]
      /\ \/ others = {} /\ recs' = recs
         \/ \E j \in others :
              /\ others = {j} /\ FirstIsEmpty(j)
              /\ recs' = [recs EXCEPT ![op.to] = <<HeadOf(1, j, s[Latest(s, j)].n)>>]
         \/ /\ ~\E j \in others : others = {j} /\ FirstIsEmpty(j)
            /\ others # {}
            /\ \E j \in Id \union {NoId}, k \in DOMAIN s :
                 \E n \in 0..s[k].n : recs' = [recs EXCEPT ![op.to] = <<HeadOf(1, j, n)>>]
      /\ UNCHANGED <<cnt, merged, outside>>

\* mutant: the counter goes up
CommitUp ==
  /\ op.at = "commit"
  /\ cnt' = [cnt EXCEPT ![op.to] = cnt[Current] + 1]
  /\ op' = IF Fits(recs[op.to], Words[op.obj]) THEN [op EXCEPT !.at = "head"] ELSE Idle(FALSE)
  /\ merged' = (merged \/ Others(recs[Current], op.id) # {})
  /\ UNCHANGED <<recs, outside>>

\* the new bank becomes the current one
Commit ==
  /\ op.at = "commit"
  /\ cnt' = [cnt EXCEPT ![op.to] = cnt[Current] - 1]
  /\ op' = IF Fits(recs[op.to], Words[op.obj]) THEN [op EXCEPT !.at = "head"] ELSE Idle(FALSE)
  /\ merged' = (merged \/ Others(recs[Current], op.id) # {})
  /\ UNCHANGED <<recs, outside>>

WriteHead ==
  /\ op.at = "head"
  /\ recs' = [recs EXCEPT ![op.to] = Append(@, HeadOf(FreeAddr(@), op.id, Words[op.obj]))]
  /\ op' = [op EXCEPT !.at = IF Words[op.obj] = 0 THEN "done" ELSE "data"]
  /\ UNCHANGED <<cnt, merged, outside>>

WriteData ==
  /\ op.at = "data"
  /\ recs' = [recs EXCEPT ![op.to][Len(recs[op.to])].data = op.obj]
  /\ op' = [op EXCEPT !.at = "done"]
  /\ UNCHANGED <<cnt, merged, outside>>

\* flash_write_cfg returns true.
Done ==
  /\ op.at = "done" /\ op' = Idle(TRUE)
  /\ UNCHANGED <<cnt, recs, merged, outside>>

\* The device is reset.
Crash ==
  /\ op.at # "idle" /\ op' = Idle(FALSE)
  /\ UNCHANGED <<cnt, recs, merged, outside>>

Next ==
  \/ ReadCfg
  \/ \E i \in Id, o \in Object : WriteCfg(i, o)
  \/ NoMem \/ Erase \/ CopyOld \/ Commit \/ WriteHead \/ WriteData \/ Done
  \/ Crash

Spec == Init /\ [][Next]_vars

----------------------------------------------------------------------------
Steps == {"pack", "copy", "commit", "head", "data", "done"}
Record == [adr : Nat \ {0}, id : Id \union {NoId}, n : Nat, data : Object \union {Torn}]

TypeOK ==
  /\ cnt \in [Bank -> 0..Top]
  /\ recs \in [Bank -> Seq(Record)]
  /\ op \in {Idle(TRUE), Idle(FALSE)} \union [at : Steps, id : Id, obj : Object, to : Bank]
  /\ merged \in BOOLEAN /\ outside \in BOOLEAN

\* Two banks never claim the same place in the order of packs, and a write
\* works on the current bank, or packs into another one: whatever reset
\* comes, the next start finds the bank that the last pack committed.
OneCurrent ==
  /\ \A b, c \in Bank : b # c /\ cnt[b] = cnt[c] => cnt[b] = Top
  /\ op.at # "idle" => cnt[Current] < Top
  /\ op.at # "idle" => (op.to = Current <=> op.at \notin {"copy", "commit"})

BankInv == TypeOK /\ OneCurrent

\* No record runs over the end of its bank.
RecordsInside ==
  \A b \in Bank : \A k \in DOMAIN recs[b] : recs[b][k].adr + 1 + recs[b][k].n <= BankWords

\* A pack never erases the bank that is current: until the new bank takes
\* over, a reset leaves everything that was saved.
EraseSparesCurrent ==
  [][recs'[Current] # recs[Current] => op.at \in {"head", "data"}]_vars

\* flash_eep.c:357 "the data of the objects is written to the new sector":
\* a write, with its pack, changes no object but its own.
OthersKept ==
  [][\A i \in Id : op.at # "idle" /\ op.id # i
       => Find(recs[Current], i)' = Find(recs[Current], i)]_vars

\* The refinement mapping: what a read of each id finds.
Store == [i \in Id |-> Find(recs[Current], i)]
Busy == IF op.at = "idle" THEN <<>> ELSE <<op.id, op.obj>>

Kv == INSTANCE KvStore WITH store <- Store, busy <- Busy,
  ok <- op = Idle(TRUE), broken <- merged \/ outside

\* Up to the first pack that has other objects to copy, and while malloc
\* does not fail, each id keeps the object that was saved last.
ImplementsKv == Kv!KvSpec
=============================================================================
