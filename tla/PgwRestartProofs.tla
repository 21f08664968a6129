---- MODULE PgwRestartProofs ----
(***************************************************************************)
(* Tables and CDR file through any number of ends of the process, for any  *)
(* subscribers and configuration files: what the properties of PgwRestart  *)
(* say always holds.                                                       *)
(***************************************************************************)
EXTENDS PgwRestart, SequenceTheorems, FiniteSetTheorems, TLAPS

(* A process that is down holds nothing, and one that runs has the         *)
(* sessions of its database in hand.                                       *)
DownInv == ~Up => stored = {} /\ ended = {} /\ listed = {} /\ due = {} /\ cdr = log

HandInv == \A d \in Database : d = table => disk[d] = {}

Begun(i) == CountIn(i, "created", Len(cdr))
Over(i) == CountIn(i, "expired", Len(cdr))

(* What may account for a "created" without "expired": the ends, or what   *)
(* they have lost and the databases that are not open.                     *)
Credits(i) == {exits, Cardinality(Elsewhere(i)) + losses}

(* One record is owed at a time.  A "created" is owed for a session that   *)
(* the cleaner leaves alone, and that is the only one not recorded.        *)
DueInv ==
  /\ \A r, s \in due : r = s
  /\ \A i \in Imsi : CdrOf(i, "created") \in due =>
       i \in stored \ ended /\ \A c \in Credits(i) : Begun(i) <= Over(i) + c

(* Somebody has yet to write "expired" for i.                              *)
Pending(i) == (i \in stored /\ i \notin ended \ listed) \/ CdrOf(i, "expired") \in due

BalanceInv ==
  \A i \in Imsi : \A c \in Credits(i) :
    Begun(i) <= Over(i) + c + (IF Pending(i) THEN 1 ELSE 0)

(* However much of the queue an end would lose now, ...                    *)
PrefixInv ==
  \A i \in Imsi : \A n \in Len(log)..Len(cdr) :
    CountIn(i, "created", n) <=
      CountIn(i, "expired", n) + Cardinality(Elsewhere(i)) + losses + 1

CountInv == DueInv /\ BalanceInv /\ UnmatchedAreFew /\ PrefixInv

IInv == RestartTypeOK /\ DownInv /\ HandInv /\ CountInv

----------------------------------------------------------------------------
(* Counting.                                                               *)

LEMMA CountInNat ==
  ASSUME NEW i, NEW a, NEW n \in Nat
  PROVE  CountIn(i, a, n) \in Nat
<1> DEFINE S == {k \in 1..n : cdr[k] = CdrOf(i, a)}
<1>1. IsFiniteSet(1..n) /\ S \in SUBSET (1..n)
  BY FS_Interval
<1>2. Cardinality(S) \in Nat
  BY <1>1, FS_Subset, FS_CardinalityType
<1> QED  BY <1>2 DEF CountIn

(* A count looks at no record behind the n-th.                             *)
LEMMA CountInPrefix ==
  ASSUME NEW i, NEW a, NEW n \in Nat, \A k \in 1..n : cdr'[k] = cdr[k]
  PROVE  CountIn(i, a, n)' = CountIn(i, a, n)
BY DEF CountIn

LEMMA CountInGrows ==
  ASSUME cdr \in Seq(CdrRecord), NEW r \in CdrRecord, cdr' = Append(cdr, r), NEW i, NEW a
  PROVE  CountIn(i, a, Len(cdr))' =
           CountIn(i, a, Len(cdr)) + (IF r = CdrOf(i, a) THEN 1 ELSE 0)
<1> DEFINE n == Len(cdr)
           S == {k \in 1..n : cdr[k] = CdrOf(i, a)}
           T == {k \in 1..(n + 1) : cdr'[k] = CdrOf(i, a)}
<1>1. /\ n \in Nat /\ Len(cdr') = n + 1
      /\ cdr'[n + 1] = r /\ \A k \in 1..n : cdr'[k] = cdr[k]
  BY AppendProperties, LenProperties
<1> HIDE DEF n
<1>2. IsFiniteSet(S) /\ Cardinality(S) \in Nat
  <2>1. IsFiniteSet(1..n)
    BY <1>1, FS_Interval
  <2>2. S \in SUBSET (1..n)
    OBVIOUS
  <2> HIDE DEF S
  <2> QED  BY <2>1, <2>2, FS_Subset, FS_CardinalityType
<1>3. n + 1 \notin S /\ T = IF r = CdrOf(i, a) THEN S \cup {n + 1} ELSE S
  BY <1>1
<1>4. Cardinality(T) = Cardinality(S) + (IF r = CdrOf(i, a) THEN 1 ELSE 0)
  <2> HIDE DEF S, T
  <2>1. Cardinality(S \cup {n + 1}) = Cardinality(S) + 1
    BY <1>2, <1>3, FS_AddElement
  <2> QED  BY <1>2, <1>3, <2>1
<1>5. Len(cdr') = n + 1
  BY <1>1
<1> QED  BY <1>4, <1>5 DEF CountIn, n

LEMMA ElsewhereInNat ==
  ASSUME NEW i
  PROVE  IsFiniteSet(Elsewhere(i)) /\ Cardinality(Elsewhere(i)) \in Nat
<1>1. IsFiniteSet({}) /\ Database = (({} \cup {"sqlite"}) \cup {"default"}) \cup {"other"}
  BY FS_EmptySet DEF Database
<1>2. \A S : \A x : IsFiniteSet(S) => IsFiniteSet(S \cup {x})
  BY FS_AddElement
<1>3. IsFiniteSet(Database)
  BY <1>1, <1>2
<1>4. Elsewhere(i) \subseteq Database
  BY DEF Elsewhere
<1> QED  BY <1>3, <1>4, FS_Subset, FS_CardinalityType

LEMMA CreditsInNat == ASSUME RestartTypeOK, NEW i PROVE Credits(i) \subseteq Nat
<1>1. exits \in Nat /\ losses \in Nat
  BY DEF RestartTypeOK
<1> QED  BY <1>1, ElsewhereInNat DEF Credits

LEMMA LogIsSeq ==
  ASSUME RestartTypeOK
  PROVE  log \in Seq(CdrRecord) /\ \A k \in 1..Len(log) : log[k] = cdr[k]
<1> DEFINE n == Len(log)
<1>1. /\ cdr \in Seq(CdrRecord) /\ n \in Nat /\ Len(cdr) \in Nat
      /\ n <= Len(cdr) /\ log = SubSeq(cdr, 1, n)
  BY LenProperties DEF RestartTypeOK
<1>2. \A k \in 1..n : cdr[k] \in CdrRecord
  BY <1>1, ElementOfSeq
<1> HIDE DEF n
<1>3. /\ SubSeq(cdr, 1, n) \in Seq(CdrRecord)
      /\ \A k \in 1..n : SubSeq(cdr, 1, n)[k] = cdr[k]
  BY <1>1, <1>2, SubSeqProperties
<1> QED  BY <1>1, <1>3 DEF n

LEMMA CreditsKept ==
  ASSUME UNCHANGED <<exits, losses, disk>>, NEW i
  PROVE  Credits(i)' = Credits(i) /\ Elsewhere(i)' = Elsewhere(i)
BY DEF Credits, Elsewhere

----------------------------------------------------------------------------
(* The steps.                                                              *)

(* A record more: the counts, the prefixes and the file.                   *)
LEMMA Appending ==
  ASSUME IInv, NEW r \in CdrRecord, cdr' = Append(cdr, r), UNCHANGED <<log, exits, losses, disk>>
  PROVE  /\ cdr' \in Seq(CdrRecord) /\ Len(cdr) \in Nat /\ Len(cdr') = Len(cdr) + 1
         /\ Len(log)' <= Len(cdr)' /\ (log = SubSeq(cdr, 1, Len(log)))'
         /\ \A i \in Imsi :
              /\ Begun(i) \in Nat /\ Over(i) \in Nat
              /\ Begun(i)' = Begun(i) + (IF r = CdrOf(i, "created") THEN 1 ELSE 0)
              /\ Over(i)' = Over(i) + (IF r = CdrOf(i, "expired") THEN 1 ELSE 0)
         /\ (\A i \in Imsi : \A c \in Credits(i) : Begun(i)' <= Over(i)' + c + 1)
              => UnmatchedAreFew' /\ PrefixInv'
<1>1. /\ cdr \in Seq(CdrRecord) /\ Len(cdr) \in Nat /\ Len(log) \in Nat
      /\ Len(log) <= Len(cdr) /\ log = SubSeq(cdr, 1, Len(log))
  BY LenProperties DEF IInv, RestartTypeOK
<1>2. /\ cdr' \in Seq(CdrRecord) /\ Len(cdr') = Len(cdr) + 1
      /\ \A k \in 1..Len(cdr) : cdr'[k] = cdr[k]
  BY <1>1, AppendProperties
<1>3. SubSeq(cdr', 1, Len(log)) = SubSeq(cdr, 1, Len(log))
  <2> DEFINE s == SubSeq(cdr, 1, Len(log))
             t == SubSeq(cdr', 1, Len(log))
  <2>1. \A k \in 1..Len(log) : cdr[k] \in CdrRecord /\ cdr'[k] = cdr[k]
    BY <1>1, <1>2, ElementOfSeq
  <2>2. s \in Seq(CdrRecord) /\ Len(s) = Len(log) /\ \A k \in 1..Len(log) : s[k] = cdr[k]
    BY <1>1, <2>1, SubSeqProperties
  <2>3. t \in Seq(CdrRecord) /\ Len(t) = Len(log) /\ \A k \in 1..Len(log) : t[k] = cdr'[k]
    BY <1>1, <2>1, SubSeqProperties
  <2> QED  BY <2>1, <2>2, <2>3, SeqEqual
<1>4. \A i \in Imsi :
        /\ Begun(i) \in Nat /\ Over(i) \in Nat
        /\ Begun(i)' = Begun(i) + (IF r = CdrOf(i, "created") THEN 1 ELSE 0)
        /\ Over(i)' = Over(i) + (IF r = CdrOf(i, "expired") THEN 1 ELSE 0)
  BY <1>1, CountInNat, CountInGrows DEF Begun, Over
<1>5. \A i \in Imsi : \A n \in 0..Len(cdr) : \A a : CountIn(i, a, n)' = CountIn(i, a, n)
  BY <1>1, <1>2, CountInPrefix
<1>6. ASSUME \A i \in Imsi : \A c \in Credits(i) : Begun(i)' <= Over(i)' + c + 1
      PROVE  UnmatchedAreFew'
  <2> SUFFICES ASSUME NEW i \in Imsi, NEW n \in 0..Len(cdr')
               PROVE  CountIn(i, "created", n)' <= CountIn(i, "expired", n)' + exits + 1
    BY DEF UnmatchedAreFew
  <2>1. CASE n = Len(cdr')
    BY <1>6, <2>1 DEF Begun, Over, Credits
  <2>2. CASE n \in 0..Len(cdr)
    BY <1>5, <2>2 DEF IInv, CountInv, UnmatchedAreFew
  <2> QED  BY <1>1, <1>2, <2>1, <2>2
<1>7. ASSUME \A i \in Imsi : \A c \in Credits(i) : Begun(i)' <= Over(i)' + c + 1
      PROVE  PrefixInv'
  <2> SUFFICES ASSUME NEW i \in Imsi, NEW n \in Len(log)..Len(cdr')
               PROVE  CountIn(i, "created", n)' <=
                        CountIn(i, "expired", n)' + Cardinality(Elsewhere(i)) + losses + 1
    BY CreditsKept DEF PrefixInv
  <2> DEFINE c == Cardinality(Elsewhere(i)) + losses
  <2>0. /\ c \in Credits(i) /\ c \in Nat
    BY CreditsInNat DEF Credits, IInv
  <2>a. Cardinality(Elsewhere(i)) \in Nat /\ losses \in Nat
    BY ElsewhereInNat DEF IInv, RestartTypeOK
  <2>1. CASE n = Len(cdr')
    <3>1. Begun(i)' <= Over(i)' + c + 1
      BY <1>7, <2>0
    <3>2. Over(i)' \in Nat
      BY <1>4
    <3> QED  BY <2>a, <2>1, <3>1, <3>2 DEF Begun, Over
  <2>2. CASE n \in Len(log)..Len(cdr)
    BY <1>1, <1>5, <2>2 DEF IInv, CountInv, PrefixInv
  <2> QED  BY <1>1, <1>2, <2>1, <2>2
<1> QED  BY <1>1, <1>2, <1>3, <1>4, <1>6, <1>7

(* No record more.                                                         *)
LEMMA Keeping ==
  ASSUME IInv, UNCHANGED <<cdr, exits, losses, disk>>, Len(log)' \in Len(log)..Len(cdr)
  PROVE  /\ UnmatchedAreFew' /\ PrefixInv'
         /\ \A i \in Imsi :
              /\ Begun(i) \in Nat /\ Over(i) \in Nat
              /\ Begun(i)' = Begun(i) /\ Over(i)' = Over(i)
<1>1. Len(cdr) \in Nat /\ Len(log) \in Nat
  BY LenProperties DEF IInv, RestartTypeOK
<1>2. \A i, a, n : CountIn(i, a, n)' = CountIn(i, a, n) /\ Elsewhere(i)' = Elsewhere(i)
  BY CreditsKept DEF CountIn
<1>3. UnmatchedAreFew'
  BY <1>2 DEF IInv, CountInv, UnmatchedAreFew
<1>4. PrefixInv'
  BY <1>1, <1>2 DEF IInv, CountInv, PrefixInv
<1> QED  BY <1>1, <1>2, <1>3, <1>4, CountInNat DEF Begun, Over

LEMMA InitIInv == RestartInit => IInv
<1> SUFFICES ASSUME RestartInit PROVE IInv
  OBVIOUS
<1>1. /\ stored = {} /\ ended = {} /\ listed = {} /\ due = {} /\ cdr = <<>> /\ old = 0
      /\ log = <<>> /\ good = TRUE /\ table = "none" /\ disk = [d \in Database |-> {}]
      /\ exits = 0 /\ losses = 0
  BY DEF RestartInit, LifeInit, Log!LogInit
<1>2. Len(cdr) = 0 /\ Len(log) = 0 /\ cdr \in Seq(CdrRecord) /\ SubSeq(cdr, 1, 0) = <<>>
  BY <1>1, SubSeqEmpty
<1>3. \A i, a : CountIn(i, a, 0) = 0
  BY FS_EmptySet DEF CountIn
<1>4. MaxExits \in Nat
  BY RestartAssumption
<1>5. RestartTypeOK
  <2>1. log = SubSeq(cdr, 1, Len(log))
    BY <1>1, <1>2
  <2>2. old \in 0..Len(log) /\ Len(log) <= Len(cdr) /\ exits \in 0..MaxExits
        /\ losses \in 0..exits
    BY <1>1, <1>2, <1>4
  <2> QED  BY <1>1, <1>2, <2>1, <2>2 DEF RestartTypeOK
<1>6. DownInv /\ HandInv /\ DueInv
  BY <1>1 DEF DownInv, HandInv, DueInv
<1>7. BalanceInv /\ UnmatchedAreFew /\ PrefixInv
  <2>1. \A i \in Imsi : Begun(i) = 0 /\ Over(i) = 0
    BY <1>2, <1>3 DEF Begun, Over
  <2>2. \A i : Credits(i) \subseteq Nat /\ Cardinality(Elsewhere(i)) \in Nat
    BY <1>5, CreditsInNat, ElsewhereInNat
  <2>3. BalanceInv
    BY <1>1, <2>1, <2>2 DEF BalanceInv
  <2>4. \A n \in 0..Len(cdr) : n = 0
    BY <1>2
  <2>5. PrefixInv
    BY <1>1, <1>2, <1>3, <2>2, <2>4 DEF PrefixInv
  <2> QED  BY <1>1, <1>3, <2>3, <2>4, <2>5 DEF UnmatchedAreFew
<1> QED  BY <1>5, <1>6, <1>7 DEF IInv, CountInv

(* SessionManager saves, deletes or begins a round: no record yet.         *)
LEMMA TableStep ==
  ASSUME IInv, Up, UNCHANGED <<table, disk, log, good, exits, losses>>,
         \/ \E i \in Imsi : Create(i) \/ Prolong(i) \/ Offload(i)
         \/ Remove
         \/ \E rows \in SUBSET stored : List(rows)
  PROVE  IInv'
<1>1. /\ UnmatchedAreFew' /\ PrefixInv' /\ UNCHANGED <<cdr, old>>
      /\ \A i \in Imsi : /\ Begun(i) \in Nat /\ Over(i) \in Nat
                         /\ Begun(i)' = Begun(i) /\ Over(i)' = Over(i)
                         /\ Credits(i) \subseteq Nat /\ Credits(i)' = Credits(i)
  <2>1. UNCHANGED <<cdr, old>>
    BY DEF Create, Prolong, Offload, Remove, List
  <2>2. Len(log)' \in Len(log)..Len(cdr)
    BY LenProperties DEF IInv, RestartTypeOK
  <2> QED  BY <2>1, <2>2, Keeping, CreditsInNat, CreditsKept DEF IInv
<1>2. BalanceInv /\ DueInv /\ ended \subseteq stored
  BY DEF IInv, CountInv, RestartTypeOK
<1>3. RestartTypeOK'
  <2>1. /\ stored \subseteq Imsi /\ ended \subseteq stored /\ listed \subseteq Imsi
        /\ due \subseteq CdrRecord
    BY DEF IInv, RestartTypeOK
  <2>2. \A i \in Imsi : CdrOf(i, "created") \in CdrRecord /\ CdrOf(i, "expired") \in CdrRecord
    BY DEF CdrOf, CdrRecord
  <2>3. (/\ stored \subseteq Imsi /\ ended \subseteq stored /\ listed \subseteq Imsi
         /\ due \subseteq CdrRecord)'
    BY <2>1, <2>2 DEF Create, Prolong, Offload, Remove, List
  <2> QED  BY <1>1, <2>3 DEF IInv, RestartTypeOK
<1>4. ASSUME NEW i \in Imsi, Create(i) PROVE DueInv' /\ BalanceInv'
  <2>1. /\ due = {} /\ i \notin stored /\ stored' = stored \cup {i}
        /\ due' = {CdrOf(i, "created")} /\ UNCHANGED <<ended, listed>>
    BY <1>4 DEF Create
  <2>2. i \notin ended /\ \A c \in Credits(i) : Begun(i) <= Over(i) + c
    BY <1>1, <1>2, <2>1 DEF BalanceInv, Pending
  <2>3. DueInv'
    BY <1>1, <2>1, <2>2 DEF DueInv, CdrOf
  <2>4. \A j \in Imsi : Pending(j) => Pending(j)'
    BY <2>1, <2>2 DEF Pending
  <2> QED  BY <1>1, <1>2, <2>3, <2>4 DEF BalanceInv
<1>5. ASSUME NEW i \in Imsi, Prolong(i) \/ Offload(i) PROVE DueInv' /\ BalanceInv'
  <2>1. /\ due = {} /\ ended' = ended \ {i} /\ listed' = listed
        /\ \/ stored' = stored \cup {i} /\ due' = {}
           \/ stored' = stored \ {i} /\ due' = {CdrOf(i, "expired")}
    BY <1>5 DEF Prolong, Offload
  <2>2. DueInv'
    BY <2>1 DEF DueInv, CdrOf
  <2>3. \A j \in Imsi : Pending(j) => Pending(j)'
    BY <2>1 DEF Pending
  <2> QED  BY <1>1, <1>2, <2>2, <2>3 DEF BalanceInv
<1>6. ASSUME Remove PROVE DueInv' /\ BalanceInv'
  <2>1. listed = {} /\ stored' = stored \ ended /\ ended' = {} /\ UNCHANGED <<listed, due>>
    BY <1>6 DEF Remove
  <2>2. DueInv'
    BY <1>1, <1>2, <2>1 DEF DueInv
  <2>3. \A j \in Imsi : Pending(j) => Pending(j)'
    BY <2>1 DEF Pending
  <2> QED  BY <1>1, <1>2, <2>2, <2>3 DEF BalanceInv
<1>7. ASSUME NEW rows \in SUBSET stored, List(rows) PROVE DueInv' /\ BalanceInv'
  <2>1. /\ ended = {} /\ \A r \in due : r.imsi \notin rows
        /\ ended' = rows /\ listed' = rows /\ UNCHANGED <<stored, due>>
    BY <1>7 DEF List
  <2>2. \A i \in Imsi : CdrOf(i, "created") \in due => i \notin rows
    BY <2>1 DEF CdrOf
  <2>3. DueInv'
    BY <1>1, <1>2, <2>1, <2>2 DEF DueInv
  <2>4. \A j \in Imsi : Pending(j) => Pending(j)'
    BY <2>1 DEF Pending
  <2> QED  BY <1>1, <1>2, <2>3, <2>4 DEF BalanceInv
<1>8. DownInv' /\ HandInv'
  BY DEF IInv, DownInv, HandInv, Up
<1> QED  BY <1>1, <1>3, <1>4, <1>5, <1>6, <1>7, <1>8 DEF IInv, CountInv

(* SessionManager hands a record to CdrWriter.                             *)
LEMMA RecordStep ==
  ASSUME IInv, Up, UNCHANGED <<table, disk, log, good, exits, losses>>,
         WriteDue \/ \E i \in Imsi : Note(i)
  PROVE  IInv'
<1>0. /\ due \subseteq CdrRecord /\ ended \subseteq stored /\ BalanceInv /\ DueInv
      /\ \A i \in Imsi : /\ CdrOf(i, "created") \in CdrRecord
                         /\ CdrOf(i, "expired") \in CdrRecord
                         /\ CdrOf(i, "created") # CdrOf(i, "expired")
                         /\ \A j \in Imsi : CdrOf(j, "expired") # CdrOf(i, "created")
                         /\ \A j \in Imsi : CdrOf(j, "expired") = CdrOf(i, "expired") => i = j
  <2>1. /\ due \subseteq CdrRecord /\ ended \subseteq stored /\ BalanceInv /\ DueInv
    BY DEF IInv, CountInv, RestartTypeOK
  <2>2. "created" # "expired"
    OBVIOUS
  <2> QED  BY <2>1, <2>2 DEF CdrOf, CdrRecord
<1>c. \A i \in Imsi : Credits(i) \subseteq Nat /\ Credits(i)' = Credits(i)
  BY CreditsInNat, CreditsKept DEF IInv
<1>1. ASSUME NEW r \in CdrRecord, cdr' = Append(cdr, r), UNCHANGED <<stored, ended, old>>,
             listed' \subseteq listed, due' \subseteq due, DueInv', BalanceInv'
      PROVE  IInv'
  <2>1. /\ cdr' \in Seq(CdrRecord) /\ Len(log)' <= Len(cdr)' /\ (log = SubSeq(cdr, 1, Len(log)))'
        /\ \A i \in Imsi : Begun(i)' \in Nat /\ Over(i)' \in Nat
    BY <1>1, Appending
  <2>2. RestartTypeOK'
    BY <1>1, <2>1 DEF IInv, RestartTypeOK
  <2>3. \A i \in Imsi : \A c \in Credits(i) : Begun(i)' <= Over(i)' + c + 1
    BY <1>c, <1>1, <2>1 DEF BalanceInv
  <2>4. UnmatchedAreFew' /\ PrefixInv'
    BY <1>1, <2>3, Appending
  <2>5. DownInv' /\ HandInv'
    BY DEF IInv, DownInv, HandInv, Up
  <2> QED  BY <1>1, <2>2, <2>4, <2>5 DEF IInv, CountInv
<1>2. CASE WriteDue
  <2>1. PICK r \in due : cdr' = Append(cdr, r)
    BY <1>2 DEF WriteDue
  <2>2. r \in CdrRecord /\ due' = {} /\ UNCHANGED <<stored, ended, listed, old>>
    BY <1>0, <1>2 DEF WriteDue
  <2>3. \A i \in Imsi :
          /\ Begun(i) \in Nat /\ Over(i) \in Nat
          /\ Begun(i)' = Begun(i) + (IF r = CdrOf(i, "created") THEN 1 ELSE 0)
          /\ Over(i)' = Over(i) + (IF r = CdrOf(i, "expired") THEN 1 ELSE 0)
    BY <2>1, <2>2, Appending
  <2>4. DueInv'
    BY <2>2 DEF DueInv
  <2>5. ASSUME NEW i \in Imsi, NEW c \in Credits(i)
        PROVE  Begun(i)' <= Over(i)' + c + (IF Pending(i)' THEN 1 ELSE 0)
    <3>1. CASE r = CdrOf(i, "created")
      <4>1. i \in stored \ ended /\ Begun(i) <= Over(i) + c
        BY <1>0, <2>1, <2>5, <3>1 DEF DueInv
      <4>2. Pending(i)'
        BY <2>2, <4>1 DEF Pending
      <4>3. Begun(i)' = Begun(i) + 1 /\ Over(i)' = Over(i)
        BY <1>0, <2>3, <3>1
      <4> QED  BY <1>c, <2>3, <2>5, <4>1, <4>2, <4>3
    <3>2. CASE r = CdrOf(i, "expired")
      <4>1. Begun(i) <= Over(i) + c + 1
        BY <1>0, <1>c, <2>3, <2>5 DEF BalanceInv
      <4>2. Begun(i)' = Begun(i) /\ Over(i)' = Over(i) + 1
        BY <1>0, <2>3, <3>2
      <4> QED  BY <1>c, <2>3, <2>5, <4>1, <4>2
    <3>3. CASE r # CdrOf(i, "created") /\ r # CdrOf(i, "expired")
      <4>1. CdrOf(i, "expired") \notin due
        BY <1>0, <2>1, <3>3 DEF DueInv
      <4>2. Pending(i) => Pending(i)'
        BY <2>2, <4>1 DEF Pending
      <4> QED  BY <1>0, <1>c, <2>3, <2>5, <3>3, <4>2 DEF BalanceInv
    <3> QED  BY <3>1, <3>2, <3>3
  <2> QED  BY <1>c, <1>1, <2>1, <2>2, <2>4, <2>5 DEF BalanceInv
<1>3. ASSUME NEW n \in Imsi, Note(n) PROVE IInv'
  <2> DEFINE r == CdrOf(n, "expired")
  <2>1. /\ cdr' = Append(cdr, r) /\ listed' = listed \ {n}
        /\ UNCHANGED <<stored, ended, due, old>>
    BY <1>3 DEF Note
  <2>2. r \in CdrRecord
    BY <1>0
  <2> HIDE DEF r
  <2>3. \A i \in Imsi :
          /\ Begun(i) \in Nat /\ Over(i) \in Nat
          /\ Begun(i)' = Begun(i) + (IF r = CdrOf(i, "created") THEN 1 ELSE 0)
          /\ Over(i)' = Over(i) + (IF r = CdrOf(i, "expired") THEN 1 ELSE 0)
    BY <2>1, <2>2, Appending
  <2>4. \A i \in Imsi : /\ Begun(i) \in Nat /\ Over(i) \in Nat
                        /\ Begun(i)' = Begun(i)
                        /\ Over(i)' = Over(i) + (IF i = n THEN 1 ELSE 0)
    BY <1>0, <2>3 DEF r
  <2>5. DueInv'
    <3>1. \A i \in Imsi : \A c \in Credits(i) :
            Begun(i) <= Over(i) + c => Begun(i)' <= Over(i)' + c
      BY <1>c, <2>4
    <3> QED  BY <1>0, <1>c, <2>1, <3>1 DEF DueInv
  <2>6. ASSUME NEW i \in Imsi, NEW c \in Credits(i)
        PROVE  Begun(i)' <= Over(i)' + c + (IF Pending(i)' THEN 1 ELSE 0)
    <3>1. CASE i = n
      BY <1>0, <1>c, <2>4, <2>6, <3>1 DEF BalanceInv
    <3>2. CASE i # n
      <4>1. Pending(i)' <=> Pending(i)
        BY <2>1, <3>2 DEF Pending
      <4> QED  BY <1>0, <1>c, <2>4, <2>6, <3>2, <4>1 DEF BalanceInv
    <3> QED  BY <3>1, <3>2
  <2> QED  BY <1>c, <1>1, <2>1, <2>2, <2>5, <2>6 DEF BalanceInv
<1> QED  BY <1>2, <1>3

(* The process starts: a session of the database that it opens is now in   *)
(* its hands, and no longer elsewhere.                                     *)
LEMMA BootStep ==
  ASSUME IInv, NEW f \in Files, Boot(f)
  PROVE  IInv'
<1>1. /\ ended = {} /\ listed = {} /\ due = {} /\ stored = {} /\ cdr = log
      /\ UNCHANGED <<ended, listed, due, cdr, old, log, exits, losses>> /\ good' \in BOOLEAN
      /\ exits \in Nat /\ losses \in Nat /\ Len(cdr) \in Nat
  BY LenProperties DEF Boot, IInv, DownInv, RestartTypeOK
<1>2. /\ table' \in Database \cup {"private"} /\ disk \in [Database -> SUBSET Imsi]
      /\ disk' = [d \in Database |-> IF d = table' THEN {} ELSE disk[d]]
      /\ stored' = IF table' \in Database THEN disk[table'] ELSE {}
  BY DEF Boot, TableOf, TableAtStart, IInv, RestartTypeOK
<1>3. RestartTypeOK'
  <2>1. stored' \subseteq Imsi /\ disk' \in [Database -> SUBSET Imsi]
    BY <1>2
  <2> QED  BY <1>1, <1>2, <2>1 DEF IInv, RestartTypeOK
<1>4. DownInv' /\ HandInv'
  BY <1>2 DEF DownInv, HandInv, Up, Database
<1>5. \A i \in Imsi : \A n \in Nat :
        /\ \A a : CountIn(i, a, n)' = CountIn(i, a, n) /\ CountIn(i, a, n) \in Nat
        /\ Begun(i)' = Begun(i) /\ Over(i)' = Over(i) /\ Begun(i) \in Nat /\ Over(i) \in Nat
  BY <1>1, CountInNat DEF CountIn, Begun, Over
<1>6. ASSUME NEW i \in Imsi
      PROVE  /\ Cardinality(Elsewhere(i)) \in Nat /\ Cardinality(Elsewhere(i)') \in Nat
             /\ Cardinality(Elsewhere(i)) <=
                  Cardinality(Elsewhere(i)') + (IF i \in stored' THEN 1 ELSE 0)
  <2>1. Elsewhere(i)' = Elsewhere(i) \ {table'}
    BY <1>2 DEF Elsewhere
  <2>2. i \in stored' <=> table' \in Elsewhere(i)
    BY <1>2 DEF Elsewhere
  <2>3. IsFiniteSet(Elsewhere(i)) /\ Cardinality(Elsewhere(i)) \in Nat
    BY ElsewhereInNat
  <2>4. CASE table' \in Elsewhere(i)
    <3>1. Cardinality(Elsewhere(i) \ {table'}) = Cardinality(Elsewhere(i)) - 1
      BY <2>3, <2>4, FS_RemoveElement
    <3>2. Cardinality(Elsewhere(i) \ {table'}) \in Nat
      BY <2>3, FS_RemoveElement, FS_CardinalityType
    <3> QED  BY <2>1, <2>2, <2>3, <2>4, <3>1, <3>2
  <2>5. CASE table' \notin Elsewhere(i)
    <3>1. Elsewhere(i)' = Elsewhere(i)
      BY <2>1, <2>5
    <3> QED  BY <2>2, <2>3, <2>5, <3>1
  <2> QED  BY <2>4, <2>5
<1>7. \A i \in Imsi : Begun(i) <= Over(i) + exits
                      /\ Begun(i) <= Over(i) + Cardinality(Elsewhere(i)) + losses
  <2>1. \A i \in Imsi : ~Pending(i)
    BY <1>1 DEF Pending
  <2> QED  BY <1>1, <1>5, <1>6, <2>1 DEF IInv, CountInv, BalanceInv, Credits
<1>8. DueInv'
  BY <1>1 DEF DueInv
<1>9. BalanceInv'
  <2> SUFFICES ASSUME NEW i \in Imsi, NEW c \in Credits(i)'
               PROVE  Begun(i)' <= Over(i)' + c + (IF Pending(i)' THEN 1 ELSE 0)
    BY DEF BalanceInv
  <2>1. Pending(i)' <=> i \in stored'
    BY <1>1 DEF Pending
  <2>2. c = exits \/ c = Cardinality(Elsewhere(i)') + losses
    BY <1>1 DEF Credits
  <2>3. CASE c = exits
    BY <1>1, <1>5, <1>7, <2>3
  <2>4. CASE c = Cardinality(Elsewhere(i)') + losses
    <3>1. Begun(i)' <= Over(i)' + Cardinality(Elsewhere(i)) + losses
      BY <1>5, <1>7
    <3> QED  BY <1>1, <1>5, <1>6, <2>1, <2>4, <3>1
  <2> QED  BY <2>2, <2>3, <2>4
<1>10. UnmatchedAreFew'
  BY <1>1, <1>5 DEF IInv, CountInv, UnmatchedAreFew
<1>11. PrefixInv'
  <2> SUFFICES ASSUME NEW i \in Imsi, NEW n \in Len(log)..Len(cdr)
               PROVE  CountIn(i, "created", n)' <=
                        CountIn(i, "expired", n)' + Cardinality(Elsewhere(i)') + losses + 1
    BY <1>1 DEF PrefixInv
  <2>1. n = Len(cdr)
    BY <1>1
  <2>2. Begun(i)' <= Over(i)' + Cardinality(Elsewhere(i)) + losses
    BY <1>5, <1>7
  <2>3. Begun(i)' <= Over(i)' + Cardinality(Elsewhere(i)') + losses + 1
    BY <1>1, <1>5, <1>6, <2>2
  <2> QED  BY <1>1, <2>1, <2>3 DEF Begun, Over
<1> QED  BY <1>3, <1>4, <1>8, <1>9, <1>10, <1>11 DEF IInv, CountInv

(* CdrWriter writes a record to the file, or its stream fails.             *)
LEMMA WriteStep ==
  ASSUME IInv, Write
  PROVE  IInv'
<1>1. UNCHANGED <<stored, ended, listed, due, old, table, disk, exits, losses, cdr>>
  BY DEF Write, Log!Commit, Log!Fail
<1>2. Len(log)' \in Len(log)..Len(cdr)
  <2>1. Len(log) \in Nat /\ Len(cdr) \in Nat /\ Len(log) <= Len(cdr) /\ log \in Seq(CdrRecord)
    BY LenProperties, LogIsSeq DEF IInv, RestartTypeOK
  <2>2. CASE Log!Commit
    <3>1. Len(log) < Len(cdr) /\ log' = Append(log, cdr[Len(log) + 1])
      BY <2>2 DEF Log!Commit
    <3>2. cdr[Len(log) + 1] \in CdrRecord
      BY <2>1, <3>1, ElementOfSeq DEF IInv, RestartTypeOK
    <3>3. Len(log') = Len(log) + 1
      BY <2>1, <3>1, <3>2, AppendProperties
    <3> QED  BY <2>1, <3>1, <3>3
  <2>3. CASE Log!Fail
    BY <2>1, <2>3 DEF Log!Fail
  <2> QED  BY <2>2, <2>3 DEF Write
<1>3. RestartTypeOK'
  <2>1. CASE Log!Fail
    BY <1>1, <2>1 DEF Log!Fail, IInv, RestartTypeOK
  <2>2. CASE Log!Commit
    <3> DEFINE n == Len(log)
               s == SubSeq(cdr, 1, n)
               t == SubSeq(cdr, 1, n + 1)
    <3>1. /\ good \in BOOLEAN /\ n < Len(cdr) /\ log' = Append(log, cdr[n + 1])
          /\ UNCHANGED good
      BY <2>2 DEF Log!Commit, IInv, RestartTypeOK
    <3>2. cdr \in Seq(CdrRecord) /\ n \in Nat /\ Len(cdr) \in Nat /\ log = s
      BY LenProperties DEF IInv, RestartTypeOK
    <3>3. \A k \in 1..(n + 1) : cdr[k] \in CdrRecord
      BY <3>1, <3>2, ElementOfSeq
    <3> HIDE DEF n
    <3>4. s \in Seq(CdrRecord) /\ Len(s) = n /\ \A k \in 1..n : s[k] = cdr[k]
      BY <3>2, <3>3, SubSeqProperties
    <3>5. t \in Seq(CdrRecord) /\ Len(t) = n + 1 /\ \A k \in 1..(n + 1) : t[k] = cdr[k]
      BY <3>2, <3>3, SubSeqProperties
    <3> HIDE DEF s, t
    <3>6. /\ log' \in Seq(CdrRecord) /\ Len(log') = n + 1
          /\ \A k \in 1..n : log'[k] = cdr[k] /\ log'[n + 1] = cdr[n + 1]
      <4>1. n + 1 \in 1..(n + 1)
        BY <3>2
      <4>2. cdr[n + 1] \in CdrRecord
        BY <3>3, <4>1
      <4> QED  BY <3>1, <3>2, <3>4, <4>2, AppendProperties
    <3>7. log' = t
      <4>1. log'[n + 1] = cdr[n + 1]
        BY <3>1, <3>2, <3>3, <3>4, AppendProperties
      <4>2. \A k \in 1..(n + 1) : log'[k] = t[k]
        BY <3>2, <3>5, <3>6, <4>1
      <4> QED  BY <3>5, <3>6, <4>2, SeqEqual
    <3> QED  BY <1>1, <3>1, <3>2, <3>6, <3>7 DEF IInv, RestartTypeOK, t, n
  <2> QED  BY <2>1, <2>2 DEF Write
<1>4. /\ UnmatchedAreFew' /\ PrefixInv'
      /\ \A i \in Imsi : /\ Begun(i)' = Begun(i) /\ Over(i)' = Over(i)
                         /\ Credits(i)' = Credits(i)
  BY <1>1, <1>2, Keeping, CreditsKept
<1>5. DueInv' /\ BalanceInv'
  BY <1>1, <1>4 DEF IInv, CountInv, DueInv, BalanceInv, Pending
<1>6. DownInv' /\ HandInv'
  BY <1>1 DEF IInv, DownInv, HandInv, Up, Write
<1> QED  BY <1>3, <1>4, <1>5, <1>6 DEF IInv, CountInv

(* The process ends, and what was queued is gone: every prefix of the log  *)
(* was balanced but for one session, and now there is one end more.  An    *)
(* end that loses nothing leaves that session in the database.             *)
LEMMA EndStep ==
  ASSUME IInv, End
  PROVE  IInv'
<1>1. /\ cdr' = log /\ UNCHANGED log /\ old' = Len(log)
      /\ stored' = {} /\ ended' = {} /\ listed' = {} /\ due' = {}
      /\ exits' = exits + 1 /\ exits < MaxExits /\ table' = "none" /\ table # "none"
      /\ losses' = losses + (IF Losing THEN 1 ELSE 0)
      /\ disk' = [d \in Database |-> IF d = table THEN stored ELSE disk[d]]
      /\ good' \in BOOLEAN
  BY DEF End, Log!Restart, Up
<1>2. /\ exits \in Nat /\ MaxExits \in Nat /\ losses \in 0..exits /\ losses \in Nat
      /\ table \in Database \cup {"private", "none"}
      /\ disk \in [Database -> SUBSET Imsi] /\ stored \subseteq Imsi
      /\ cdr \in Seq(CdrRecord) /\ Len(log) \in Nat /\ Len(cdr) \in Nat
      /\ Len(log) <= Len(cdr) /\ log = SubSeq(cdr, 1, Len(log))
  BY RestartAssumption, LenProperties DEF IInv, RestartTypeOK
<1>3. log \in Seq(CdrRecord) /\ \A k \in 1..Len(log) : log[k] = cdr[k]
  BY LogIsSeq DEF IInv
<1>4. RestartTypeOK'
  <2>1. log = SubSeq(log, 1, Len(log))
    BY <1>3, SubSeqFull
  <2>2. disk' \in [Database -> SUBSET Imsi]
    BY <1>1, <1>2
  <2>3. losses' \in 0..exits' /\ exits' \in 0..MaxExits
    BY <1>1, <1>2
  <2> QED  BY <1>1, <1>2, <1>3, <2>1, <2>2, <2>3 DEF IInv, RestartTypeOK
<1>5. DownInv' /\ HandInv' /\ DueInv'
  BY <1>1 DEF DownInv, HandInv, DueInv, Database
<1>6. \A i \in Imsi : \A n \in 0..Len(log) : \A a :
        CountIn(i, a, n)' = CountIn(i, a, n) /\ CountIn(i, a, n) \in Nat
  BY <1>1, <1>2, <1>3, CountInPrefix, CountInNat
<1>7. \A i \in Imsi : \A n \in 0..Len(log) :
        CountIn(i, "created", n)' <= CountIn(i, "expired", n)' + exits + 1
  BY <1>2, <1>6 DEF IInv, CountInv, UnmatchedAreFew
<1>8. UnmatchedAreFew'
  <2> SUFFICES ASSUME NEW i \in Imsi, NEW n \in 0..Len(log)
               PROVE  CountIn(i, "created", n)' <= CountIn(i, "expired", n)' + exits' + 1
    BY <1>1 DEF UnmatchedAreFew
  <2> QED  BY <1>1, <1>2, <1>6, <1>7
<1>9. ASSUME NEW i \in Imsi
      PROVE  /\ Cardinality(Elsewhere(i)) \in Nat /\ Cardinality(Elsewhere(i)') \in Nat
             /\ Cardinality(Elsewhere(i)') =
                  Cardinality(Elsewhere(i))
                    + (IF table \in Database /\ i \in stored THEN 1 ELSE 0)
  <2>1. IsFiniteSet(Elsewhere(i)) /\ Cardinality(Elsewhere(i)) \in Nat
    BY ElsewhereInNat
  <2>2. CASE table \in Database /\ i \in stored
    <3>1. Elsewhere(i)' = Elsewhere(i) \cup {table}
      BY <1>1, <1>2, <2>2 DEF Elsewhere
    <3>2. table \notin Elsewhere(i)
      BY <2>2 DEF Elsewhere, IInv, HandInv
    <3>3. Cardinality(Elsewhere(i) \cup {table}) = Cardinality(Elsewhere(i)) + 1
      BY <2>1, <3>2, FS_AddElement
    <3> QED  BY <2>1, <2>2, <3>1, <3>3
  <2>3. CASE ~(table \in Database /\ i \in stored)
    <3>1. Elsewhere(i)' = Elsewhere(i)
      BY <1>1, <1>2, <2>3 DEF Elsewhere, IInv, HandInv
    <3> QED  BY <2>1, <2>3, <3>1
  <2> QED  BY <2>2, <2>3
<1>10. ASSUME NEW i \in Imsi
       PROVE  Begun(i)' <= Over(i)' + Cardinality(Elsewhere(i)') + losses'
  <2>0. /\ Begun(i)' = CountIn(i, "created", Len(log)) /\ Begun(i)' \in Nat
        /\ Over(i)' = CountIn(i, "expired", Len(log)) /\ Over(i)' \in Nat
    BY <1>1, <1>2, <1>6 DEF Begun, Over
  <2>1. CASE Losing
    <3>1. Begun(i)' <= Over(i)' + Cardinality(Elsewhere(i)) + losses + 1
      BY <1>2, <2>0 DEF IInv, CountInv, PrefixInv
    <3> QED  BY <1>1, <1>2, <1>9, <2>0, <2>1, <3>1
  <2>2. CASE ~Losing
    <3>1. Len(log) = Len(cdr) /\ due = {} /\ (table = "private" => stored = {})
      BY <1>2, <2>2 DEF Losing
    <3>2. Pending(i) => table \in Database /\ i \in stored
      BY <1>1, <1>2, <3>1 DEF Pending
    <3>3. Begun(i)' = Begun(i) /\ Over(i)' = Over(i)
      BY <2>0, <3>1 DEF Begun, Over
    <3>4. Begun(i) <= Over(i) + (Cardinality(Elsewhere(i)) + losses)
                        + (IF Pending(i) THEN 1 ELSE 0)
      BY DEF IInv, CountInv, BalanceInv, Credits
    <3> QED  BY <1>1, <1>2, <1>9, <2>0, <2>2, <3>2, <3>3, <3>4
  <2> QED  BY <2>1, <2>2
<1>11. losses' \in Nat
  BY <1>1, <1>2
<1>12. BalanceInv'
  <2> SUFFICES ASSUME NEW i \in Imsi, NEW c \in Credits(i)'
               PROVE  Begun(i)' <= Over(i)' + c + (IF Pending(i)' THEN 1 ELSE 0)
    BY DEF BalanceInv
  <2>1. Begun(i)' \in Nat /\ Over(i)' \in Nat /\ Begun(i)' <= Over(i)' + exits'
    BY <1>1, <1>2, <1>6, <1>7 DEF Begun, Over
  <2>2. c = exits' \/ c = Cardinality(Elsewhere(i)') + losses'
    BY DEF Credits
  <2>3. Begun(i)' <= Over(i)' + c /\ c \in Nat
    BY <1>1, <1>2, <1>9, <1>10, <1>11, <2>1, <2>2
  <2> QED  BY <2>1, <2>3
<1>13. PrefixInv'
  <2> SUFFICES ASSUME NEW i \in Imsi, NEW n \in Len(log)..Len(log)
               PROVE  CountIn(i, "created", n)' <=
                        CountIn(i, "expired", n)' + Cardinality(Elsewhere(i)') + losses' + 1
    BY <1>1 DEF PrefixInv
  <2>1. n = Len(log)
    BY <1>2
  <2>2. Begun(i)' \in Nat /\ Over(i)' \in Nat
    BY <1>1, <1>2, <1>6 DEF Begun, Over
  <2>3. Begun(i)' <= Over(i)' + Cardinality(Elsewhere(i)') + losses' + 1
    BY <1>9, <1>10, <1>11, <2>2
  <2> QED  BY <1>1, <2>1, <2>3 DEF Begun, Over
<1> QED  BY <1>4, <1>5, <1>8, <1>12, <1>13 DEF IInv, CountInv

LEMMA NextIInv == IInv /\ [RestartNext]_restartVars => IInv'
<1> SUFFICES ASSUME IInv, [RestartNext]_restartVars PROVE IInv'
  OBVIOUS
<1>1. ASSUME NEW f \in Files, Boot(f) PROVE IInv'
  BY <1>1, BootStep
<1>2. CASE Serve
  <2>1. Up /\ UNCHANGED <<table, disk, log, good, exits, losses>>
    BY <1>2 DEF Serve
  <2>2. LifeNext
    BY <1>2 DEF Serve
  <2>3. CASE \/ \E i \in Imsi : Create(i) \/ Prolong(i) \/ Offload(i)
             \/ Remove
             \/ \E rows \in SUBSET stored : List(rows)
    BY <2>1, <2>3, TableStep
  <2>4. CASE WriteDue \/ \E i \in Imsi : Note(i)
    BY <2>1, <2>4, RecordStep
  <2> QED  BY <2>2, <2>3, <2>4 DEF LifeNext
<1>3. CASE Write
  BY <1>3, WriteStep
<1>4. CASE End
  BY <1>4, EndStep
<1>5. CASE UNCHANGED restartVars
  <2>1. /\ UNCHANGED <<stored, ended, listed, due, cdr, old>>
        /\ UNCHANGED <<table, disk, log, good, exits, losses>>
    BY <1>5 DEF restartVars, lifeVars
  <2>2. Len(log)' \in Len(log)..Len(cdr)
    BY <2>1, LenProperties DEF IInv, RestartTypeOK
  <2>3. /\ UnmatchedAreFew' /\ PrefixInv'
        /\ \A i \in Imsi : /\ Begun(i)' = Begun(i) /\ Over(i)' = Over(i)
                           /\ Credits(i)' = Credits(i)
    BY <2>1, <2>2, Keeping, CreditsKept
  <2>4. DueInv' /\ BalanceInv'
    BY <2>1, <2>3 DEF IInv, CountInv, DueInv, BalanceInv, Pending
  <2>5. RestartTypeOK' /\ DownInv' /\ HandInv'
    BY <2>1 DEF IInv, RestartTypeOK, DownInv, HandInv, Up
  <2> QED  BY <2>3, <2>4, <2>5 DEF IInv, CountInv
<1> QED  BY <1>1, <1>2, <1>3, <1>4, <1>5 DEF RestartNext, Full

LEMMA IInvariant == RestartSpec => []IInv
BY InitIInv, NextIInv, PTL DEF RestartSpec

----------------------------------------------------------------------------
(* As long as nothing has been lost, a subscriber has a "created" in the   *)
(* log of records before anybody can write "expired" for him.              *)
Born(i) == \E k \in 1..Len(cdr) : cdr[k] = CdrOf(i, "created")

BornInv ==
  losses = 0 =>
    /\ \A i \in stored : Born(i) \/ CdrOf(i, "created") \in due
    /\ \A i \in Imsi : (i \in listed \/ CdrOf(i, "expired") \in due \/ Elsewhere(i) # {})
                         => Born(i)
    /\ CreatedIsFirst

(* Who has any record has a "created".                                     *)
LEMMA RecordedAreBorn ==
  ASSUME RestartTypeOK, BornInv, losses = 0, NEW i \in Recorded
  PROVE  Born(i)
<1>1. PICK k \in (old + 1)..Len(cdr) : cdr[k].imsi = i
  BY DEF Recorded
<1>2. Len(cdr) \in Nat /\ Len(log) \in Nat /\ old \in Nat /\ k \in 1..Len(cdr)
  <2>1. cdr \in Seq(CdrRecord) /\ old \in 0..Len(log) /\ Len(log) <= Len(cdr)
    BY DEF RestartTypeOK
  <2>2. Len(cdr) \in Nat /\ Len(log) \in Nat
    BY <2>1, LenProperties, LogIsSeq
  <2> QED  BY <1>1, <2>1, <2>2
<1>3. cdr[k] \in CdrRecord
  BY <1>2, ElementOfSeq DEF RestartTypeOK
<1>4. CASE cdr[k].action = "created"
  <2>1. cdr[k] = CdrOf(i, "created")
    BY <1>1, <1>3, <1>4 DEF CdrRecord, CdrOf
  <2> QED  BY <1>2, <2>1 DEF Born
<1>5. CASE cdr[k].action = "expired"
  <2>1. PICK j \in 1..(k - 1) : cdr[j] = CdrOf(i, "created")
    BY <1>1, <1>2, <1>5 DEF BornInv, CreatedIsFirst
  <2>2. j \in 1..Len(cdr)
    BY <1>2
  <2> QED  BY <2>1, <2>2 DEF Born
<1> QED  BY <1>3, <1>4, <1>5 DEF CdrRecord

(* An "expired" may follow the "created" of its subscriber.                *)
LEMMA AppendingBorn ==
  ASSUME RestartTypeOK, NEW r \in CdrRecord, cdr' = Append(cdr, r), losses' = losses,
         CreatedIsFirst, r.action = "expired" => Born(r.imsi)
  PROVE  /\ CreatedIsFirst'
         /\ \A i : Born(i) \/ r = CdrOf(i, "created") => Born(i)'
<1> DEFINE n == Len(cdr)
<1>1. /\ n \in Nat /\ Len(cdr') = n + 1
      /\ cdr'[n + 1] = r /\ \A k \in 1..n : cdr'[k] = cdr[k]
  BY AppendProperties, LenProperties DEF RestartTypeOK
<1>2. CreatedIsFirst'
  <2> SUFFICES ASSUME losses = 0, NEW k \in 1..(n + 1), cdr'[k].action = "expired"
               PROVE  \E j \in 1..(k - 1) : cdr'[j] = CdrOf(cdr'[k].imsi, "created")
    BY <1>1 DEF CreatedIsFirst
  <2>1. CASE k \in 1..n
    <3>1. PICK j \in 1..(k - 1) : cdr[j] = CdrOf(cdr[k].imsi, "created")
      BY <1>1, <2>1 DEF CreatedIsFirst
    <3>2. j \in 1..n
      BY <1>1, <2>1
    <3> QED  BY <1>1, <2>1, <3>1, <3>2
  <2>2. CASE k = n + 1
    <3>1. PICK j \in 1..n : cdr[j] = CdrOf(r.imsi, "created")
      BY <1>1, <2>2 DEF Born
    <3> QED  BY <1>1, <2>2, <3>1
  <2> QED  BY <1>1, <2>1, <2>2
<1>3. ASSUME NEW i, Born(i) \/ r = CdrOf(i, "created") PROVE Born(i)'
  <2>1. CASE Born(i)
    <3>1. PICK k \in 1..n : cdr[k] = CdrOf(i, "created")
      BY <2>1 DEF Born
    <3>2. k \in 1..(n + 1) /\ cdr'[k] = cdr[k]
      BY <1>1
    <3> QED  BY <1>1, <3>1, <3>2 DEF Born
  <2>2. CASE r = CdrOf(i, "created")
    <3>1. n + 1 \in 1..(n + 1)
      BY <1>1
    <3> QED  BY <1>1, <2>2, <3>1 DEF Born
  <2> QED  BY <1>3, <2>1, <2>2
<1> QED  BY <1>2, <1>3

LEMMA InitBorn == RestartInit => BornInv
<1> SUFFICES ASSUME RestartInit PROVE BornInv
  OBVIOUS
<1>1. /\ stored = {} /\ listed = {} /\ due = {} /\ cdr = <<>>
      /\ disk = [d \in Database |-> {}]
  BY DEF RestartInit, LifeInit, Log!LogInit
<1>2. \A i : Elsewhere(i) = {}
  BY <1>1 DEF Elsewhere
<1>3. CreatedIsFirst
  BY <1>1 DEF CreatedIsFirst
<1> QED  BY <1>1, <1>2, <1>3 DEF BornInv

LEMMA ServeBorn ==
  ASSUME IInv, BornInv, LifeNext, UNCHANGED <<disk, losses>>
  PROVE  BornInv'
<1> SUFFICES ASSUME losses = 0 PROVE BornInv'
  BY DEF BornInv
<1> USE DEF IInv
<1>1. /\ \A i \in stored : Born(i) \/ CdrOf(i, "created") \in due
      /\ \A i \in Imsi : (i \in listed \/ CdrOf(i, "expired") \in due \/ Elsewhere(i) # {})
                           => Born(i)
      /\ CreatedIsFirst /\ stored \subseteq Imsi /\ due \subseteq CdrRecord
  BY DEF BornInv, RestartTypeOK
<1>2. \A i : Elsewhere(i)' = Elsewhere(i)
  BY DEF Elsewhere
<1>3. ASSUME UNCHANGED cdr PROVE CreatedIsFirst' /\ \A i : Born(i)' <=> Born(i)
  BY <1>1, <1>3 DEF CreatedIsFirst, Born
<1>4. \A i, j : /\ CdrOf(j, "expired") # CdrOf(i, "created")
                /\ CdrOf(j, "expired") = CdrOf(i, "expired") => i = j
                /\ CdrOf(j, "expired").imsi = j /\ CdrOf(j, "created").imsi = j
                /\ CdrOf(j, "created").action # "expired"
  <2>1. "created" # "expired"
    OBVIOUS
  <2> QED  BY <2>1 DEF CdrOf
<1>5. ASSUME NEW i \in Imsi, Create(i) PROVE BornInv'
  <2>1. /\ due = {} /\ stored' = stored \cup {i} /\ due' = {CdrOf(i, "created")}
        /\ UNCHANGED <<listed, cdr>>
    BY <1>5 DEF Create
  <2> QED  BY <1>1, <1>2, <1>3, <1>4, <2>1 DEF BornInv
<1>6. ASSUME NEW i \in Imsi, Prolong(i) \/ Offload(i) PROVE BornInv'
  <2>1. /\ due = {} /\ i \in stored \cup Recorded /\ UNCHANGED <<listed, cdr>>
        /\ \/ stored' = stored \cup {i} /\ due' = {}
           \/ stored' = stored \ {i} /\ due' = {CdrOf(i, "expired")}
    BY <1>6 DEF Prolong, Offload
  <2>2. Born(i)
    BY <1>1, <2>1, RecordedAreBorn
  <2> QED  BY <1>1, <1>2, <1>3, <1>4, <2>1, <2>2 DEF BornInv
<1>7. CASE Remove
  <2>1. listed = {} /\ stored' = stored \ ended /\ UNCHANGED <<listed, due, cdr>>
    BY <1>7 DEF Remove
  <2> QED  BY <1>1, <1>2, <1>3, <2>1 DEF BornInv
<1>8. ASSUME NEW rows \in SUBSET stored, List(rows) PROVE BornInv'
  <2>1. /\ \A r \in due : r.imsi \notin rows
        /\ listed' = rows /\ UNCHANGED <<stored, due, cdr>>
    BY <1>8 DEF List
  <2>2. \A i \in rows : Born(i)
    BY <1>1, <1>4, <2>1
  <2> QED  BY <1>1, <1>2, <1>3, <2>1, <2>2 DEF BornInv
<1>9. CASE WriteDue
  <2>1. PICK r \in due : cdr' = Append(cdr, r)
    BY <1>9 DEF WriteDue
  <2>2. r \in CdrRecord /\ due' = {} /\ UNCHANGED <<stored, listed>>
    BY <1>1, <1>9 DEF WriteDue
  <2>3. r.imsi \in Imsi /\ (r.action = "expired" => r = CdrOf(r.imsi, "expired"))
    BY <2>2 DEF CdrRecord, CdrOf
  <2>4. /\ CreatedIsFirst'
        /\ \A i : Born(i) \/ r = CdrOf(i, "created") => Born(i)'
    BY <1>1, <2>1, <2>2, <2>3, AppendingBorn
  <2>5. \A i \in Imsi : CdrOf(i, "created") \in due => r = CdrOf(i, "created")
    BY <2>1 DEF CountInv, DueInv
  <2> QED  BY <1>1, <1>2, <2>2, <2>4, <2>5 DEF BornInv
<1>10. ASSUME NEW i \in Imsi, Note(i) PROVE BornInv'
  <2>1. /\ i \in listed /\ cdr' = Append(cdr, CdrOf(i, "expired")) /\ listed' = listed \ {i}
        /\ UNCHANGED <<stored, due>>
    BY <1>10 DEF Note
  <2>2. CdrOf(i, "expired") \in CdrRecord
    BY DEF CdrOf, CdrRecord
  <2>3. CreatedIsFirst' /\ \A j : Born(j) => Born(j)'
    BY <1>1, <1>4, <2>1, <2>2, AppendingBorn
  <2> QED  BY <1>1, <1>2, <2>1, <2>3 DEF BornInv
<1> QED  BY <1>5, <1>6, <1>7, <1>8, <1>9, <1>10 DEF LifeNext

(* Sessions come from a database and go back to it, and their records stay *)
(* with them unless the end loses some.                                    *)
LEMMA BootBorn ==
  ASSUME IInv, BornInv, NEW f \in Files, Boot(f)
  PROVE  BornInv'
<1> SUFFICES ASSUME losses = 0 PROVE BornInv'
  BY DEF BornInv, Boot
<1>1. /\ listed' = {} /\ due' = {} /\ UNCHANGED <<cdr, losses>>
  BY DEF Boot, IInv, DownInv
<1>2. /\ disk' = [d \in Database |-> IF d = table' THEN {} ELSE disk[d]]
      /\ stored' = IF table' \in Database THEN disk[table'] ELSE {}
      /\ disk \in [Database -> SUBSET Imsi]
  BY DEF Boot, TableAtStart, IInv, RestartTypeOK
<1>3. CreatedIsFirst' /\ \A i : Born(i)' <=> Born(i)
  BY <1>1 DEF BornInv, CreatedIsFirst, Born
<1>4. \A i \in Imsi : i \in stored' \/ Elsewhere(i)' # {} => Elsewhere(i) # {}
  BY <1>2 DEF Elsewhere
<1>5. stored' \subseteq Imsi
  BY <1>2
<1> QED  BY <1>1, <1>3, <1>4, <1>5 DEF BornInv

LEMMA EndBorn ==
  ASSUME IInv, BornInv, End
  PROVE  BornInv'
<1>1. /\ cdr' = log /\ stored' = {} /\ listed' = {} /\ due' = {}
      /\ disk' = [d \in Database |-> IF d = table THEN stored ELSE disk[d]]
      /\ losses' = losses + (IF Losing THEN 1 ELSE 0)
  BY DEF End, Log!Restart
<1>2. losses \in Nat /\ Len(cdr) \in Nat /\ Len(log) \in Nat /\ Len(log) <= Len(cdr)
  BY LenProperties, LogIsSeq DEF IInv, RestartTypeOK
<1> SUFFICES ASSUME losses = 0, ~Losing PROVE BornInv'
  BY <1>1, <1>2 DEF BornInv
<1>3. Len(log) = Len(cdr) /\ due = {}
  BY <1>2 DEF Losing
<1>4. CreatedIsFirst' /\ \A i : Born(i) => Born(i)'
  <2>1. \A k \in 1..Len(cdr) : cdr'[k] = cdr[k]
    BY <1>1, <1>3, LogIsSeq DEF IInv
  <2>2. \A k \in 1..Len(cdr) : \A j \in 1..(k - 1) : j \in 1..Len(cdr)
    BY <1>2
  <2>3. Len(cdr') = Len(cdr)
    BY <1>1, <1>3
  <2> QED  BY <2>1, <2>2, <2>3 DEF BornInv, CreatedIsFirst, Born
<1>5. \A i \in Imsi : Elsewhere(i)' # {} => i \in stored \/ Elsewhere(i) # {}
  BY <1>1 DEF Elsewhere
<1> QED  BY <1>1, <1>3, <1>4, <1>5 DEF BornInv

LEMMA NextBorn == IInv /\ BornInv /\ [RestartNext]_restartVars => BornInv'
<1> SUFFICES ASSUME IInv, BornInv, [RestartNext]_restartVars PROVE BornInv'
  OBVIOUS
<1>1. ASSUME NEW f \in Files, Boot(f) PROVE BornInv'
  BY <1>1, BootBorn
<1>2. CASE Serve
  BY <1>2, ServeBorn DEF Serve
<1>3. CASE End
  BY <1>3, EndBorn
<1>4. CASE Write \/ UNCHANGED restartVars
  <2>1. UNCHANGED <<stored, listed, due, cdr, disk, losses>>
    BY <1>4 DEF Write, Log!Commit, Log!Fail, restartVars, lifeVars
  <2> QED  BY <2>1 DEF BornInv, Born, CreatedIsFirst, Elsewhere
<1> QED  BY <1>1, <1>2, <1>3, <1>4 DEF RestartNext, Full

LEMMA BornInvariant == RestartSpec => []BornInv
<1>1. IInv /\ BornInv /\ [RestartNext]_restartVars => BornInv'
  BY NextBorn
<1> QED  BY <1>1, InitBorn, IInvariant, PTL DEF RestartSpec

----------------------------------------------------------------------------
(* The theorems.                                                           *)

(* What is in the file is the beginning of what was handed to CdrWriter,   *)
(* and the cleaner deletes only what is stored, whenever the process ends  *)
(* (http_api.cpp:105, session_manager.cpp:131-143).                        *)
THEOREM RestartTypeCorrect == RestartSpec => []RestartTypeOK
BY IInvariant, PTL DEF IInv

(* Each end of the process costs a subscriber at most one "expired",       *)
(* however many records were queued (http_api.cpp:105,                     *)
(* session_manager.cpp:77-78 and 126-127).                                 *)
THEOREM FewAreUnmatched == RestartSpec => []UnmatchedAreFew
BY IInvariant, PTL DEF IInv, CountInv

(* When a session has left the table and its "expired" is written, only    *)
(* earlier ends of the process leave a "created" without partner.          *)
THEOREM GoneOnesAreMatched == RestartSpec => []GoneAreMatched
<1>1. IInv => GoneAreMatched
  <2> SUFFICES ASSUME IInv, NEW i \in Imsi \ stored
               PROVE  Begun(i) <= Over(i) + exits +
                        (IF CdrOf(i, "expired") \in due THEN 1 ELSE 0)
    BY DEF GoneAreMatched, Begun, Over
  <2>1. Pending(i) <=> CdrOf(i, "expired") \in due
    BY DEF Pending
  <2> QED  BY <2>1 DEF IInv, CountInv, BalanceInv, Credits
<1> QED  BY <1>1, IInvariant, PTL

(* Ends that lose nothing cost nothing: a session that SQLite keeps has    *)
(* its "expired" to come, whichever table the server has open meanwhile    *)
(* (config.cpp:40-41, sqlite_session_store.cpp:7-31, http_api.cpp:105).    *)
THEOREM OnlyLossesAreCostly == RestartSpec => []OnlyLossesCost
<1>1. IInv => OnlyLossesCost
  <2> SUFFICES ASSUME IInv, NEW i \in Imsi
               PROVE  Begun(i) <= Over(i) + Cardinality(Elsewhere(i)) + losses
                        + (IF i \in stored \/ CdrOf(i, "expired") \in due THEN 1 ELSE 0)
    BY DEF OnlyLossesCost, Begun, Over
  <2>1. Begun(i) \in Nat /\ Over(i) \in Nat
    BY CountInNat, LenProperties DEF IInv, RestartTypeOK, Begun, Over
  <2>2. Cardinality(Elsewhere(i)) \in Nat /\ losses \in Nat
    BY ElsewhereInNat DEF IInv, RestartTypeOK
  <2>3. Begun(i) <= Over(i) + (Cardinality(Elsewhere(i)) + losses)
                      + (IF Pending(i) THEN 1 ELSE 0)
    BY DEF IInv, CountInv, BalanceInv, Credits
  <2>4. Pending(i) => i \in stored \/ CdrOf(i, "expired") \in due
    BY DEF Pending
  <2> QED  BY <2>1, <2>2, <2>3, <2>4
<1> QED  BY <1>1, IInvariant, PTL

(* Until an end has lost something, no "expired" is written for a          *)
(* subscriber who has no "created" before it, also when the session was    *)
(* found in a database (session_manager.cpp:39-45 and 77-78).              *)
THEOREM CreatedComesFirst == RestartSpec => []CreatedIsFirst
<1>1. IInv /\ BornInv => CreatedIsFirst
  BY DEF BornInv, CreatedIsFirst
<1> QED  BY <1>1, IInvariant, BornInvariant, PTL

====
