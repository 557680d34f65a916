--------------------------- MODULE RecordsProofs ---------------------------
(***************************************************************************)
(* Proofs about Records, for any wallets, names, limits, and numbers of    *)
(* codes and of failing commits, with counters of any width.               *)
(*                                                                         *)
(* The argument about one-time passwords is CodesFrom: since a record was  *)
(* stored its codes are a run of values that starts at some base, wraps at *)
(* most once and ends before the counter in flash, and a code that is      *)
(* due to be shown is the last of the run.  So a value cannot come back    *)
(* before the counter has gone through all its values.  NewInv says what   *)
(* is known of a record between two commits.                               *)
(*                                                                         *)
(* The argument about exported files is by induction over lines: State is  *)
(* what has been read of a file, SignerRead and HeaderRead say what the    *)
(* lines of an exported file add to it, and SignersAfter goes through all  *)
(* signers.  It needs data that the device could have registered, which    *)
(* MultisigInv says of every record: of one that came from a file because  *)
(* of what was checked line by line (LineIsRead, FileIsRead).              *)
(***************************************************************************)
EXTENDS Records, SequenceTheorems, WellFoundedInduction, TLAPS

\* What the main task may be doing with a one-time password.
Tasks == [pc : {"idle", "counter", "erase_counter", "erase_uri", "show"},
          name : Names \cup {None}, value : 0..CounterMod - 1]

\* The tables are tables, the work is on a name, and a stored uri was sent by the user.
Shape ==
  /\ task \in Tasks
  /\ task.pc # "idle" => task.name \in Names
  /\ \A k \in Kinds : DOMAIN records[k] = Names /\ DOMAIN told[k] = Names
  /\ \A n \in Names : records["otp"][n] # None => records["otp"][n].data \in Uris

\* Between two commits nobody has been told of the record, and no code of it was taken; the
\* counter about to be stored is that of the uri.
NewInv ==
  /\ task.pc \in {"counter", "erase_counter", "erase_uri"} =>
       /\ told["otp"][task.name] = None
       /\ codes[task.name] = 0 /\ shown[task.name] = <<>>
  /\ task.pc = "counter" =>
       LET record == records["otp"][task.name]
       IN  record.data.type = "HOTP" /\ record.data.counter = task.value

\* A code of the record was taken and is not on the screen yet.
Due(n) == task.pc = "show" /\ task.name = n

\* The codes taken of a record are the values from base up to the counter in flash.
CodesFrom(n, base) ==
  /\ HotpCounter(n) = (base + codes[n]) % CounterMod
  /\ Due(n) => codes[n] > 0 /\ task.value = (base + (codes[n] - 1)) % CounterMod
  /\ \A i \in DOMAIN shown[n] : \E j \in 0..(codes[n] - 1) :
       shown[n][i] = (base + j) % CounterMod /\ (Due(n) => j # codes[n] - 1)

CodesOK(n) == \E base \in 0..(CounterMod - 1) : CodesFrom(n, base)

CodeInv == \A n \in Names : CodesOK(n)

RecordsInv == TypeOK /\ Shape /\ NewInv /\ CodeInv /\ RegisteredStays /\ CodesNeverRepeat

-----------------------------------------------------------------------------
\* A counter wraps at most once in a run as long as it has values.
LEMMA ModSum ==
  ASSUME NEW M \in Nat \ {0}, NEW b \in 0..(M - 1), NEW i \in 0..M
  PROVE  (b + i) % M = IF b + i < M THEN b + i ELSE b + i - M
<1> DEFINE x == b + i
           q == x \div M
<1>1. q \in Int /\ x = M * q + (x % M) /\ x % M \in Int /\ 0 <= x % M /\ x % M < M
  BY SMT
<1>2. x \in Nat /\ x < M + M
  BY SMT
<1> HIDE DEF q, x
<1>3. q >= 0 /\ q < 2
  BY <1>1, <1>2, SMT
<1>4. q = 0 \/ q = 1
  BY <1>1, <1>3, SMT
<1>5. x % M = IF x < M THEN x ELSE x - M
  <2>1. CASE q = 0
    BY <1>1, <1>2, <2>1, SMT
  <2>2. CASE q = 1
    BY <1>1, <1>2, <2>2, SMT
  <2> QED BY <1>4, <2>1, <2>2
<1> QED BY <1>5 DEF x

\* Two values of such a run differ.
LEMMA ModDiffers ==
  ASSUME NEW M \in Nat \ {0}, NEW b \in 0..(M - 1), NEW i \in 0..(M - 1), NEW j \in 0..(M - 1),
         i # j
  PROVE  (b + i) % M # (b + j) % M
<1>1. i \in 0..M /\ j \in 0..M
  BY SMT
<1>2. (b + i) % M = IF b + i < M THEN b + i ELSE b + i - M
  BY <1>1, ModSum
<1>3. (b + j) % M = IF b + j < M THEN b + j ELSE b + j - M
  BY <1>1, ModSum
<1> QED BY <1>2, <1>3, SMT

\* The value after the i-th of a run is the next of the run.
LEMMA ModNext ==
  ASSUME NEW M \in Nat \ {0}, NEW b \in 0..(M - 1), NEW i \in 0..(M - 1)
  PROVE  /\ (((b + i) % M) + 1) % M = (b + (i + 1)) % M
         /\ (b + i) % M \in 0..(M - 1)
<1>1. i \in 0..M /\ i + 1 \in 0..M /\ 1 \in 0..M
  BY SMT
<1>2. (b + i) % M = IF b + i < M THEN b + i ELSE b + i - M
  BY <1>1, ModSum
<1>3. (b + (i + 1)) % M = IF b + (i + 1) < M THEN b + (i + 1) ELSE b + (i + 1) - M
  BY <1>1, ModSum
<1> DEFINE c == (b + i) % M
<1>4. c \in 0..(M - 1)
  BY <1>2, SMT
<1>5. (c + 1) % M = IF c + 1 < M THEN c + 1 ELSE c + 1 - M
  BY <1>1, <1>4, ModSum
<1>6. c = IF b + i < M THEN b + i ELSE b + i - M
  BY <1>2
<1> HIDE DEF c
<1>7. (c + 1) % M = (b + (i + 1)) % M
  BY <1>3, <1>5, <1>6, SMT
<1> QED BY <1>4, <1>7 DEF c

\* A run starts at its base.
LEMMA ModSame ==
  ASSUME NEW M \in Nat \ {0}, NEW b \in 0..(M - 1)
  PROVE  (b + 0) % M = b
<1>1. 0 \in 0..M
  BY SMT
<1>2. (b + 0) % M = IF b + 0 < M THEN b + 0 ELSE b + 0 - M
  BY <1>1, ModSum
<1> QED BY <1>2, SMT

\* Table s is table r but for one record.
Updated(s, r, kind, name, v) ==
  /\ DOMAIN s = Kinds /\ \A k \in Kinds : DOMAIN s[k] = Names
  /\ \A k \in Kinds, n \in Names : s[k][n] = IF k = kind /\ n = name THEN v ELSE r[k][n]

\* What the assignments of the model do to a table.
LEMMA NamedUpdate ==
  ASSUME NEW r, DOMAIN r = Kinds, \A k \in Kinds : DOMAIN r[k] = Names,
         NEW kind \in Kinds, NEW name, NEW v
  PROVE  /\ Updated([r EXCEPT ![kind][name] = v], r, kind, name, v)
         /\ Updated(r, r, kind, name, r[kind][name])
  BY SMT DEF Updated

\* The tables have all kinds and names.
LEMMA TablesOK ==
  ASSUME RecordsInv
  PROVE  /\ DOMAIN records = Kinds /\ DOMAIN told = Kinds /\ "otp" \in Kinds
         /\ \A k \in Kinds : DOMAIN records[k] = Names /\ DOMAIN told[k] = Names
  BY DEF RecordsInv, TypeOK, Shape, Kinds

\* A record that is not touched keeps its run of codes.
LEMMA CodesStay ==
  ASSUME NEW n \in Names, CodesOK(n), ~Due(n)',
         hotpc'[n] = hotpc[n], codes'[n] = codes[n], shown'[n] = shown[n]
  PROVE  CodesOK(n)'
<1>1. PICK base \in 0..(CounterMod - 1) : CodesFrom(n, base)
  BY DEF CodesOK
<1>2. CodesFrom(n, base)'
  BY <1>1, SMT DEF CodesFrom, HotpCounter
<1> QED BY <1>2, Zenon DEF CodesOK

\* A record of which no code was taken starts a run at whatever the counter is.
LEMMA CodesAnew ==
  ASSUME NEW n \in Names, ~Due(n)', hotpc'[n] \in (0..CounterMod - 1) \cup {None},
         codes'[n] = 0, shown'[n] = <<>>
  PROVE  CodesOK(n)'
<1>1. PICK base \in 0..(CounterMod - 1) : base = HotpCounter(n)'
  BY CounterAssumption, SMT DEF HotpCounter
<1>2. (base + 0) % CounterMod = base
  BY CounterAssumption, ModSame
<1>3. CodesFrom(n, base)'
  BY <1>1, <1>2, SMT DEF CodesFrom
<1> QED BY <1>3, Zenon DEF CodesOK

\* Storing, finding or deleting a multisig or descriptor wallet preserves the invariant.
LEMMA RecordStored ==
  ASSUME RecordsInv, NEW kind \in {"multisig", "descriptor"}, NEW name, NEW v,
         UNCHANGED <<hotpc, task, codes, shown>>,
         loaded' \in Wallets \cup {None}, faults' \in 0..MaxFaults,
         v # None => v.by \in Wallets,
         told' = [told EXCEPT ![kind][name] = v],
         \/ records' = [records EXCEPT ![kind][name] = v]
         \/ records' = records /\ records[kind][name] = v
  PROVE  RecordsInv'
<1> USE DEF RecordsInv
<1>1. kind \in Kinds /\ kind # "otp" /\ "otp" \in Kinds
  BY DEF Kinds
<1>2. Updated(told', told, kind, name, v)
  BY <1>1, TablesOK, NamedUpdate
<1>3. Updated(records', records, kind, name, v)
  <2>1. CASE records' = [records EXCEPT ![kind][name] = v]
    BY <1>1, <2>1, TablesOK, NamedUpdate
  <2>2. CASE records' = records /\ records[kind][name] = v
    BY <2>2, TablesOK DEF Updated
  <2> QED BY <2>1, <2>2
<1>4. TypeOK'
  BY <1>2, <1>3, SMT DEF TypeOK, Updated
<1>5. Shape'
  BY <1>1, <1>2, <1>3, SMT DEF Shape, Updated
<1>6. NewInv'
  BY <1>1, <1>2, <1>3, SMT DEF NewInv, Shape, Updated
<1>7. CodeInv' /\ CodesNeverRepeat'
  <2>1. CodeInv'
    BY ZenonT(60) DEF CodeInv, CodesOK, CodesFrom, Due, HotpCounter
  <2>2. CodesNeverRepeat'
    BY DEF CodesNeverRepeat
  <2> QED BY <2>1, <2>2
<1>8. RegisteredStays'
  BY <1>1, <1>2, <1>3, SMT DEF RegisteredStays, HotpCounter, Updated
<1> QED BY <1>4, <1>5, <1>6, <1>7, <1>8

\* Nothing about the codes of a record changes.
Stays(name) ==
  hotpc'[name] = hotpc[name] /\ codes'[name] = codes[name] /\ shown'[name] = shown[name]

\* The types of what an operation on a one-time password assigns.
TypesKept ==
  /\ loaded' \in Wallets \cup {None} /\ faults' \in 0..MaxFaults /\ task' \in Tasks
  /\ hotpc' \in [Names -> (0..CounterMod - 1) \cup {None}]
  /\ codes' \in [Names -> 0..MaxCodes] /\ shown' \in [Names -> Seq(0..CounterMod - 1)]

\* What an operation may do to the one-time password of one name: r is its record and v what
\* its user has been told, after the step.
OtpChange(name, r, v) ==
  /\ Updated(records', records, "otp", name, r) /\ Updated(told', told, "otp", name, v)
  /\ \A n \in Names \ {name} : Stays(n)
  /\ r # None => r.by \in Wallets /\ r.data \in Uris
  /\ v # None => /\ v = r
                 /\ r.data.type = "HOTP" =>
                      HotpCounter(name)' = (r.data.counter + codes'[name]) % CounterMod
  /\ task'.pc # "idle" => task'.name = name
  /\ task'.pc \in {"counter", "erase_counter", "erase_uri"} =>
       v = None /\ codes'[name] = 0 /\ shown'[name] = <<>>
  /\ task'.pc = "counter" => r.data.type = "HOTP" /\ r.data.counter = task'.value

\* Such an operation preserves the invariant if the codes of that record are as they should be.
LEMMA OtpChanges ==
  ASSUME RecordsInv, TypesKept, NEW name \in Names, NEW r, NEW v, OtpChange(name, r, v),
         CodesOK(name)', IsInjective(shown'[name])
  PROVE  RecordsInv'
<1> USE DEF RecordsInv, OtpChange, TypesKept, Stays
<1>1. TypeOK'
  <2>1. ASSUME NEW k \in Kinds, NEW n \in Names
        PROVE  /\ records'[k][n] # None => records'[k][n].by \in Wallets
               /\ told'[k][n] # None => told'[k][n].by \in Wallets
    <3>1. /\ records[k][n] # None => records[k][n].by \in Wallets
          /\ told[k][n] # None => told[k][n].by \in Wallets
      BY DEF TypeOK
    <3> QED BY <3>1 DEF Updated
  <2>2. /\ task'.pc \in {"idle", "counter", "erase_counter", "erase_uri", "show"}
        /\ task'.name \in Names \cup {None} /\ task'.value \in 0..CounterMod - 1
    BY DEF Tasks
  <2> QED BY <2>1, <2>2, Zenon DEF TypeOK, Updated
<1>2. Shape'
  <2>1. ASSUME NEW n \in Names, records'["otp"][n] # None
        PROVE  records'["otp"][n].data \in Uris
    BY <2>1, TablesOK DEF Shape, Updated
  <2>2. task'.pc # "idle" => task'.name \in Names
    OBVIOUS
  <2> QED BY <2>1, <2>2, Zenon DEF Shape, Updated
<1>3. NewInv'
  <2>1. told'["otp"][name] = v /\ records'["otp"][name] = r
    BY TablesOK DEF Updated
  <2> QED BY <2>1, SMT DEF NewInv
<1>4. CodeInv'
  <2>1. ASSUME NEW n \in Names PROVE CodesOK(n)'
    <3>1. CASE n # name
      <4>1. CodesOK(n) /\ ~Due(n)'
        BY <3>1 DEF CodeInv, Due
      <4>2. hotpc'[n] = hotpc[n] /\ codes'[n] = codes[n] /\ shown'[n] = shown[n]
        BY <3>1
      <4> QED BY <4>1, <4>2, CodesStay
    <3> QED BY <3>1
  <2> QED BY <2>1, Zenon DEF CodeInv
<1>5. RegisteredStays'
  <2>1. ASSUME NEW k \in Kinds, NEW n \in Names, told'[k][n] # None
        PROVE  /\ records'[k][n] = told'[k][n]
               /\ k = "otp" /\ told'[k][n].data.type = "HOTP" =>
                    HotpCounter(n)' = (told'[k][n].data.counter + codes'[n]) % CounterMod
    <3>1. CASE k = "otp" /\ n = name
      BY <2>1, <3>1 DEF Updated
    <3>2. CASE ~(k = "otp" /\ n = name)
      <4>1. told'[k][n] = told[k][n] /\ records'[k][n] = records[k][n]
        BY <3>2 DEF Updated
      <4>2. k = "otp" => codes'[n] = codes[n] /\ HotpCounter(n)' = HotpCounter(n)
        BY <3>2 DEF HotpCounter
      <4> QED BY <2>1, <4>1, <4>2, Zenon DEF RegisteredStays
    <3> QED BY <3>1, <3>2
  <2> QED BY <2>1, Zenon DEF RegisteredStays
<1>6. CodesNeverRepeat'
  <2>1. ASSUME NEW n \in Names PROVE IsInjective(shown'[n])
    BY DEF CodesNeverRepeat
  <2> QED BY <2>1, Zenon DEF CodesNeverRepeat
<1> QED BY <1>1, <1>2, <1>3, <1>4, <1>5, <1>6

\* A commit that fails changes nothing but the count of failures.
LEMMA FailedCommit ==
  ASSUME RecordsInv, UNCHANGED <<loaded, records, hotpc, task, told, codes, shown>>,
         faults' \in 0..MaxFaults
  PROVE  RecordsInv'
<1> USE DEF RecordsInv
<1>1. TypeOK' /\ Shape' /\ NewInv'
  BY DEF TypeOK, Shape, NewInv
<1>2. CodeInv' /\ CodesNeverRepeat'
  <2>1. CodeInv'
    BY ZenonT(60) DEF CodeInv, CodesOK, CodesFrom, Due, HotpCounter
  <2>2. CodesNeverRepeat'
    BY DEF CodesNeverRepeat
  <2> QED BY <2>1, <2>2
<1>3. RegisteredStays'
  BY SMT DEF RegisteredStays, HotpCounter
<1> QED BY <1>1, <1>2, <1>3

\* Failures are bounded.
LEMMA FaultCounted == RecordsInv /\ CommitFails => faults' \in 0..MaxFaults
  BY LimitAssumption DEF RecordsInv, TypeOK, CommitFails

\* register_multisig_process and register_descriptor preserve the invariant.
LEMMA RegisterStep ==
  ASSUME RecordsInv, NEW kind \in {"multisig", "descriptor"}, NEW name, NEW data, Ready,
         Register(kind, name, Registration(data))
  PROVE  RecordsInv'
<1> DEFINE v == Registration(data)
<1>1. v.by \in Wallets
  BY DEF Registration, Ready, RecordsInv, TypeOK
<1>2. UNCHANGED <<loaded, hotpc, task, codes, shown>>
  BY DEF Register
<1>3. loaded' \in Wallets \cup {None} /\ faults \in 0..MaxFaults
  BY <1>2 DEF RecordsInv, TypeOK
<1>4. \/ /\ told' = [told EXCEPT ![kind][name] = v] /\ UNCHANGED faults
         /\ \/ records' = [records EXCEPT ![kind][name] = v]
            \/ records' = records /\ records[kind][name] = v
      \/ CommitFails /\ UNCHANGED <<records, told>>
  BY Zenon DEF Register, Store
<1> HIDE DEF v
<1>5. CASE CommitFails /\ UNCHANGED <<records, told>>
  BY <1>2, <1>5, FailedCommit, FaultCounted
<1>6. CASE /\ told' = [told EXCEPT ![kind][name] = v] /\ UNCHANGED faults
           /\ \/ records' = [records EXCEPT ![kind][name] = v]
              \/ records' = records /\ records[kind][name] = v
  <2>1. faults' \in 0..MaxFaults
    BY <1>3, <1>6
  <2> QED BY <1>1, <1>2, <1>3, <1>6, <2>1, RecordStored, Zenon
<1> QED BY <1>4, <1>5, <1>6

\* offer_delete_registered_wallet preserves the invariant.
LEMMA DeleteStep ==
  ASSUME RecordsInv, NEW kind \in {"multisig", "descriptor"}, NEW name \in Names,
         offer_delete_registered_wallet(kind, name)
  PROVE  RecordsInv'
<1>1. UNCHANGED <<loaded, hotpc, task, codes, shown>>
  BY DEF offer_delete_registered_wallet
<1>2. loaded' \in Wallets \cup {None} /\ faults \in 0..MaxFaults
  BY <1>1 DEF RecordsInv, TypeOK
<1>3. CASE CommitFails /\ UNCHANGED <<records, told>>
  BY <1>1, <1>3, FailedCommit, FaultCounted
<1>4. CASE /\ records' = [records EXCEPT ![kind][name] = None]
           /\ told' = [told EXCEPT ![kind][name] = None]
           /\ UNCHANGED faults
  <2>1. faults' \in 0..MaxFaults
    BY <1>2, <1>4
  <2> QED BY <1>1, <1>2, <1>4, <2>1, RecordStored, Zenon
<1> QED BY <1>3, <1>4, Zenon DEF offer_delete_registered_wallet

\* handle_new_otp_uri until the uri is stored preserves the invariant.
LEMMA NewOtpStep ==
  ASSUME RecordsInv, NEW name \in Names, NEW uri \in Uris, handle_new_otp_uri(name, uri)
  PROVE  RecordsInv'
<1> DEFINE record == [by |-> loaded, data |-> uri]
           kept == IF uri.type = "HOTP" THEN None ELSE record
<1>1. UNCHANGED <<loaded, hotpc>> /\ loaded \in Wallets
  BY DEF handle_new_otp_uri, Ready, RecordsInv, TypeOK
<1>2. CASE CommitFails /\ UNCHANGED <<records, task, told, codes, shown>>
  BY <1>1, <1>2, FailedCommit, FaultCounted
<1>3. CASE /\ records' = [records EXCEPT !["otp"][name] = record]
           /\ codes' = [codes EXCEPT ![name] = 0] /\ shown' = [shown EXCEPT ![name] = <<>>]
           /\ IF uri.type = "HOTP"
                THEN /\ task' = [pc |-> "counter", name |-> name, value |-> uri.counter]
                     /\ told' = [told EXCEPT !["otp"][name] = None]
                ELSE /\ task' = Idle
                     /\ told' = [told EXCEPT !["otp"][name] = record]
           /\ UNCHANGED faults
  <2>1. \/ /\ uri.type = "HOTP" /\ kept = None
           /\ task' = [pc |-> "counter", name |-> name, value |-> uri.counter]
        \/ uri.type # "HOTP" /\ kept = record /\ task' = Idle
    BY <1>3, Zenon
  <2>2. record.by \in Wallets /\ record.data = uri
    BY <1>1
  <2>3. told' = [told EXCEPT !["otp"][name] = kept]
    BY <1>3, Zenon
  <2>4. /\ records' = [records EXCEPT !["otp"][name] = record] /\ UNCHANGED faults
        /\ codes' = [codes EXCEPT ![name] = 0] /\ shown' = [shown EXCEPT ![name] = <<>>]
    BY <1>3, Zenon
  <2> HIDE DEF kept, record
  <2>5. /\ Updated(records', records, "otp", name, record)
        /\ Updated(told', told, "otp", name, kept)
    BY <2>3, <2>4, TablesOK, NamedUpdate
  <2>6. /\ codes' \in [Names -> 0..MaxCodes] /\ shown' \in [Names -> Seq(0..CounterMod - 1)]
        /\ codes'[name] = 0 /\ shown'[name] = <<>>
        /\ \A n \in Names \ {name} : codes'[n] = codes[n] /\ shown'[n] = shown[n]
    BY <2>4, CounterAssumption, SMT DEF RecordsInv, TypeOK
  <2>7. /\ task' \in Tasks
        /\ task'.pc # "idle" => /\ task'.name = name /\ task'.pc = "counter"
                                /\ task'.value = uri.counter /\ uri.type = "HOTP" /\ kept = None
    BY <2>1, UriAssumption, CounterAssumption, SMT DEF Idle, Tasks
  <2>8. /\ hotpc' \in [Names -> (0..CounterMod - 1) \cup {None}]
        /\ \A n \in Names : hotpc'[n] = hotpc[n]
    BY <1>1 DEF RecordsInv, TypeOK
  <2>9. CodesOK(name)'
    <3>1. ~Due(name)'
      BY <2>7 DEF Due
    <3> QED BY <2>6, <2>8, <3>1, CodesAnew
  <2>10. IsInjective(shown'[name])
    BY <2>6, SMT DEF IsInjective
  <2>11. kept # None => kept = record /\ record.data.type # "HOTP"
    BY <2>1, <2>2
  <2>12. loaded' \in Wallets \cup {None} /\ faults' \in 0..MaxFaults
    BY <1>1, <2>4 DEF RecordsInv, TypeOK
  <2>13. TypesKept
    BY <2>6, <2>7, <2>8, <2>12 DEF TypesKept
  <2>14. OtpChange(name, record, kept)
    BY <2>2, <2>5, <2>6, <2>7, <2>8, <2>11, SMT DEF OtpChange, Stays
  <2> QED BY <2>9, <2>10, <2>13, <2>14, OtpChanges
<1> QED BY <1>2, <1>3, Zenon DEF handle_new_otp_uri

\* What the invariant says of one record, and of tables that do not change.
LEMMA Unchanged ==
  ASSUME RecordsInv, NEW name \in Names
  PROVE  /\ records' = records =>
              Updated(records', records, "otp", name, records["otp"][name])
         /\ told' = told => Updated(told', told, "otp", name, told["otp"][name])
         /\ records["otp"][name] # None =>
              records["otp"][name].by \in Wallets /\ records["otp"][name].data \in Uris
         /\ told["otp"][name] # None => told["otp"][name] = records["otp"][name]
         /\ told["otp"][name] # None /\ records["otp"][name].data.type = "HOTP" =>
              HotpCounter(name) = (records["otp"][name].data.counter + codes[name]) % CounterMod
         /\ loaded \in Wallets \cup {None} /\ faults \in 0..MaxFaults
<1>1. records' = records => Updated(records', records, "otp", name, records["otp"][name])
  BY TablesOK, NamedUpdate
<1>2. told' = told => Updated(told', told, "otp", name, told["otp"][name])
  BY TablesOK, NamedUpdate
<1>3. records["otp"][name] # None =>
        records["otp"][name].by \in Wallets /\ records["otp"][name].data \in Uris
  BY TablesOK DEF RecordsInv, TypeOK, Shape
<1>4. /\ told["otp"][name] # None => told["otp"][name] = records["otp"][name]
      /\ told["otp"][name] # None /\ records["otp"][name].data.type = "HOTP" =>
           HotpCounter(name) = (records["otp"][name].data.counter + codes[name]) % CounterMod
  BY TablesOK DEF RecordsInv, RegisteredStays
<1> QED BY <1>1, <1>2, <1>3, <1>4 DEF RecordsInv, TypeOK

\* Storing the first counter, or failing to, preserves the invariant.
LEMMA InitialCounterStep ==
  ASSUME RecordsInv, SetInitialCounter
  PROVE  RecordsInv'
<1>0. PICK name \in Names : name = task.name
  BY DEF SetInitialCounter, RecordsInv, Shape
<1>1. PICK r : r = records["otp"][name]
  BY Zenon
<1>2. /\ task \in Tasks /\ task.pc = "counter" /\ UNCHANGED <<loaded, records, codes, shown>>
  BY DEF SetInitialCounter, RecordsInv, Shape
<1>3. /\ told["otp"][name] = None /\ codes[name] = 0 /\ shown[name] = <<>>
      /\ r.data.type = "HOTP" /\ r.data.counter = task.value
  BY <1>0, <1>1, <1>2 DEF RecordsInv, NewInv
<1>4. /\ codes' \in [Names -> 0..MaxCodes] /\ shown' \in [Names -> Seq(0..CounterMod - 1)]
      /\ hotpc \in [Names -> (0..CounterMod - 1) \cup {None}]
      /\ codes'[name] = 0 /\ shown'[name] = <<>>
  BY <1>2, <1>3 DEF RecordsInv, TypeOK
<1>5. /\ Updated(records', records, "otp", name, r)
      /\ r # None => r.by \in Wallets /\ r.data \in Uris
      /\ loaded' \in Wallets \cup {None} /\ faults \in 0..MaxFaults
  BY <1>1, <1>2, Unchanged
<1>6. IsInjective(shown'[name])
  BY <1>4, SMT DEF IsInjective
<1>7. CASE /\ hotpc' = [hotpc EXCEPT ![task.name] = task.value]
           /\ told' = [told EXCEPT !["otp"][task.name] = records["otp"][task.name]]
           /\ task' = Idle
           /\ UNCHANGED faults
  <2>1. Updated(told', told, "otp", name, r)
    BY <1>0, <1>1, <1>7, TablesOK, NamedUpdate
  <2>2. task.value \in 0..(CounterMod - 1) /\ task' \in Tasks /\ task'.pc = "idle"
    BY <1>2, <1>7, CounterAssumption, SMT DEF Tasks, Idle
  <2>3. /\ hotpc' \in [Names -> (0..CounterMod - 1) \cup {None}] /\ hotpc'[name] = task.value
        /\ \A n \in Names \ {name} : hotpc'[n] = hotpc[n]
    BY <1>0, <1>4, <1>7, <2>2, SMT
  <2>4. CodesOK(name)'
    <3>1. ~Due(name)'
      BY <2>2 DEF Due
    <3> QED BY <1>4, <2>3, <3>1, CodesAnew
  <2>5. HotpCounter(name)' = (r.data.counter + codes'[name]) % CounterMod
    <3>1. HotpCounter(name)' = task.value
      BY <2>2, <2>3, NoneAssumption, SMT DEF HotpCounter
    <3>2. (task.value + 0) % CounterMod = task.value
      BY <2>2, CounterAssumption, ModSame
    <3> QED BY <1>3, <1>4, <3>1, <3>2
  <2>6. TypesKept
    BY <1>4, <1>5, <1>7, <2>2, <2>3 DEF TypesKept
  <2>7. OtpChange(name, r, r)
    BY <1>2, <1>5, <2>1, <2>2, <2>3, <2>5, SMT DEF OtpChange, Stays
  <2> QED BY <1>6, <2>4, <2>6, <2>7, OtpChanges
<1>8. CASE /\ CommitFails
           /\ task' = [task EXCEPT !.pc = "erase_counter"]
           /\ UNCHANGED <<hotpc, told>>
  <2>1. Updated(told', told, "otp", name, None)
    BY <1>3, <1>8, Unchanged
  <2>2. task' \in Tasks /\ task'.pc = "erase_counter" /\ task'.name = name
    BY <1>0, <1>2, <1>8 DEF Tasks
  <2>3. CodesOK(name)'
    <3>1. /\ ~Due(name)' /\ CodesOK(name) /\ hotpc'[name] = hotpc[name]
          /\ codes'[name] = codes[name] /\ shown'[name] = shown[name]
      BY <1>2, <1>8, <2>2 DEF Due, RecordsInv, CodeInv
    <3> QED BY <3>1, CodesStay
  <2>4. TypesKept
    BY <1>4, <1>5, <1>8, <2>2, FaultCounted DEF TypesKept
  <2>5. OtpChange(name, r, None)
    BY <1>2, <1>4, <1>5, <1>8, <2>1, <2>2, SMT DEF OtpChange, Stays
  <2> QED BY <1>6, <2>3, <2>4, <2>5, OtpChanges
<1> QED BY <1>7, <1>8, Zenon DEF SetInitialCounter

\* delete_otp_record preserves the invariant.
LEMMA DeleteOtpStep ==
  ASSUME RecordsInv, NEW name \in Names, delete_otp_record(name)
  PROVE  RecordsInv'
<1>1. /\ UNCHANGED <<loaded, records, hotpc, faults>>
      /\ task' = [pc |-> "erase_counter", name |-> name, value |-> 0]
      /\ told' = [told EXCEPT !["otp"][name] = None]
      /\ codes' = [codes EXCEPT ![name] = 0] /\ shown' = [shown EXCEPT ![name] = <<>>]
  BY DEF delete_otp_record
<1>2. /\ codes' \in [Names -> 0..MaxCodes] /\ shown' \in [Names -> Seq(0..CounterMod - 1)]
      /\ codes'[name] = 0 /\ shown'[name] = <<>>
      /\ \A n \in Names \ {name} : codes'[n] = codes[n] /\ shown'[n] = shown[n]
  BY <1>1, CounterAssumption, SMT DEF RecordsInv, TypeOK
<1>3. /\ hotpc' \in [Names -> (0..CounterMod - 1) \cup {None}]
      /\ \A n \in Names : hotpc'[n] = hotpc[n]
  BY <1>1 DEF RecordsInv, TypeOK
<1>4. task' \in Tasks /\ task'.pc = "erase_counter" /\ task'.name = name
  BY <1>1, CounterAssumption, SMT DEF Tasks
<1>5. CodesOK(name)'
  <2>1. ~Due(name)'
    BY <1>4 DEF Due
  <2> QED BY <1>2, <1>3, <2>1, CodesAnew
<1>6. IsInjective(shown'[name])
  BY <1>2, SMT DEF IsInjective
<1>7. TypesKept
  BY <1>1, <1>2, <1>3, <1>4, Unchanged DEF TypesKept
<1>8. Updated(told', told, "otp", name, None)
  BY <1>1, TablesOK, NamedUpdate
<1>9. OtpChange(name, records["otp"][name], None)
  <2>1. /\ Updated(records', records, "otp", name, records["otp"][name])
        /\ records["otp"][name] # None =>
             records["otp"][name].by \in Wallets /\ records["otp"][name].data \in Uris
    BY <1>1, Unchanged
  <2> QED BY <1>2, <1>3, <1>4, <1>8, <2>1, SMT DEF OtpChange, Stays
<1> QED BY <1>5, <1>6, <1>7, <1>9, OtpChanges

\* storage_erase_otp preserves the invariant, whichever of its commits fails.
LEMMA EraseStep ==
  ASSUME RecordsInv, EraseCounter \/ EraseUri
  PROVE  RecordsInv'
<1>1. PICK name \in Names : name = task.name
  BY DEF EraseCounter, EraseUri, RecordsInv, Shape
<1>2. /\ task.pc \in {"erase_counter", "erase_uri"}
      /\ UNCHANGED <<loaded, told, codes, shown>>
  BY DEF EraseCounter, EraseUri
<1>3. told["otp"][name] = None /\ codes[name] = 0 /\ shown[name] = <<>>
  BY <1>1, <1>2 DEF RecordsInv, NewInv
<1>4. /\ codes' \in [Names -> 0..MaxCodes] /\ shown' \in [Names -> Seq(0..CounterMod - 1)]
      /\ hotpc \in [Names -> (0..CounterMod - 1) \cup {None}]
      /\ codes'[name] = 0 /\ shown'[name] = <<>>
  BY <1>2, <1>3 DEF RecordsInv, TypeOK
<1>5. PICK r : Updated(records', records, "otp", name, r)
               /\ (r # None => r.by \in Wallets /\ r.data \in Uris)
  <2>1. CASE records' = records
    BY <2>1, Unchanged
  <2>2. CASE records' = [records EXCEPT !["otp"][name] = None]
    BY <2>2, TablesOK, NamedUpdate
  <2> QED BY <1>1, <2>1, <2>2, Zenon DEF EraseCounter, EraseUri
<1>6. /\ hotpc' \in [Names -> (0..CounterMod - 1) \cup {None}]
      /\ \A n \in Names \ {name} : hotpc'[n] = hotpc[n]
  <2>1. CASE hotpc' = hotpc
    BY <1>4, <2>1
  <2>2. CASE hotpc' = [hotpc EXCEPT ![name] = None]
    BY <1>4, <2>2
  <2> QED BY <1>1, <2>1, <2>2, Zenon DEF EraseCounter, EraseUri
<1>7. /\ task' \in Tasks /\ task'.pc \in {"idle", "erase_uri"}
      /\ task'.pc # "idle" => task'.name = name
  <2>1. CASE task' = Idle
    BY <2>1, CounterAssumption, SMT DEF Tasks, Idle
  <2>2. CASE task' = [task EXCEPT !.pc = "erase_uri"]
    BY <1>1, <2>2 DEF Tasks, RecordsInv, Shape
  <2> QED BY <2>1, <2>2, Zenon DEF EraseCounter, EraseUri
<1>8. faults' \in 0..MaxFaults
  <2>1. CASE faults' = faults
    BY <2>1 DEF RecordsInv, TypeOK
  <2>2. CASE CommitFails
    BY <2>2, FaultCounted
  <2> QED BY <2>1, <2>2, Zenon DEF EraseCounter, EraseUri
<1>9. CodesOK(name)'
  <2>1. ~Due(name)'
    BY <1>7 DEF Due
  <2> QED BY <1>4, <1>6, <2>1, CodesAnew
<1>10. IsInjective(shown'[name])
  BY <1>4, SMT DEF IsInjective
<1>11. TypesKept
  BY <1>2, <1>4, <1>6, <1>7, <1>8, Unchanged DEF TypesKept
<1>12. Updated(told', told, "otp", name, None)
  BY <1>2, <1>3, Unchanged
<1>13. OtpChange(name, r, None)
  BY <1>2, <1>4, <1>5, <1>6, <1>7, <1>12, SMT DEF OtpChange, Stays
<1> QED BY <1>9, <1>10, <1>11, <1>13, OtpChanges

\* otp_set_default_value preserves the invariant: the next value is stored first.
LEMMA NextCodeStep ==
  ASSUME RecordsInv, NEW name \in Names, otp_set_default_value(name)
  PROVE  RecordsInv'
<1>1. PICK r, v : r = records["otp"][name] /\ v = told["otp"][name]
  BY Zenon
<1>2. PICK value : value = HotpCounter(name)
  BY Zenon
<1>3. /\ UNCHANGED <<loaded, records, told, shown>>
      /\ codes[name] < MaxCodes
  BY DEF otp_set_default_value, CodeAskedFor
<1>4. PICK c : c = codes[name]
  BY Zenon
<1>5. /\ codes \in [Names -> 0..MaxCodes] /\ shown' \in [Names -> Seq(0..CounterMod - 1)]
      /\ hotpc \in [Names -> (0..CounterMod - 1) \cup {None}]
      /\ c \in 0..(CounterMod - 1) /\ c + 1 \in 0..MaxCodes
      /\ value \in 0..(CounterMod - 1)
  BY <1>2, <1>3, <1>4, CounterAssumption, SMT DEF RecordsInv, TypeOK, HotpCounter
<1>6. CASE CommitFails /\ UNCHANGED <<hotpc, task, codes>>
  BY <1>3, <1>6, FailedCommit, FaultCounted
<1>7. CASE /\ hotpc' = [hotpc EXCEPT ![name] = (HotpCounter(name) + 1) % CounterMod]
           /\ task' = [pc |-> "show", name |-> name, value |-> HotpCounter(name)]
           /\ codes' = [codes EXCEPT ![name] = @ + 1]
           /\ UNCHANGED faults
  <2>1. (value + 1) % CounterMod \in 0..(CounterMod - 1)
    BY <1>5, CounterAssumption, SMT
  <2>2. /\ hotpc' \in [Names -> (0..CounterMod - 1) \cup {None}]
        /\ hotpc'[name] = (value + 1) % CounterMod
        /\ \A n \in Names \ {name} : hotpc'[n] = hotpc[n]
    BY <1>2, <1>5, <1>7, <2>1
  <2>3. /\ codes' \in [Names -> 0..MaxCodes] /\ codes'[name] = c + 1
        /\ \A n \in Names \ {name} : codes'[n] = codes[n]
    BY <1>4, <1>5, <1>7
  <2>4. task' \in Tasks /\ task'.pc = "show" /\ task'.name = name /\ task'.value = value
    BY <1>2, <1>5, <1>7 DEF Tasks
  <2>5. HotpCounter(name)' = (value + 1) % CounterMod
    BY <2>1, <2>2, NoneAssumption, SMT DEF HotpCounter
  <2>6. ASSUME NEW base \in 0..(CounterMod - 1), value = (base + c) % CounterMod
        PROVE  HotpCounter(name)' = (base + codes'[name]) % CounterMod
    BY <1>5, <2>3, <2>5, <2>6, CounterAssumption, ModNext
  <2>7. CodesOK(name)'
    <3>1. PICK base \in 0..(CounterMod - 1) : CodesFrom(name, base)
      BY DEF RecordsInv, CodeInv, CodesOK
    <3>2. value = (base + c) % CounterMod
      BY <1>2, <1>4, <3>1 DEF CodesFrom
    <3>3. HotpCounter(name)' = (base + codes'[name]) % CounterMod
      BY <2>6, <3>2
    <3>4. codes'[name] > 0 /\ codes'[name] - 1 = c
      BY <1>5, <2>3, SMT
    <3>5. ASSUME NEW i \in DOMAIN shown'[name]
          PROVE  \E j \in 0..(codes'[name] - 1) :
                   /\ shown'[name][i] = (base + j) % CounterMod
                   /\ Due(name)' => j # codes'[name] - 1
      <4>1. PICK j \in 0..(c - 1) : shown'[name][i] = (base + j) % CounterMod
        BY <1>3, <1>4, <3>1, <3>5, Zenon DEF CodesFrom
      <4>2. j \in 0..(codes'[name] - 1) /\ j # codes'[name] - 1
        BY <1>5, <3>4, <4>1, SMT
      <4> QED BY <4>1, <4>2, Zenon
    <3>6. task'.value = (base + (codes'[name] - 1)) % CounterMod
      BY <2>4, <3>2, <3>4
    <3>7. CodesFrom(name, base)'
      BY <3>3, <3>4, <3>5, <3>6, Zenon DEF CodesFrom
    <3> QED BY <3>7, Zenon DEF CodesOK
  <2>8. IsInjective(shown'[name])
    BY <1>3 DEF RecordsInv, CodesNeverRepeat
  <2>9. TypesKept
    BY <1>3, <1>5, <1>7, <2>2, <2>3, <2>4, Unchanged DEF TypesKept
  <2>10. /\ Updated(records', records, "otp", name, r) /\ Updated(told', told, "otp", name, v)
         /\ r # None => r.by \in Wallets /\ r.data \in Uris
         /\ v # None => v = r
         /\ v # None /\ r.data.type = "HOTP" => value = (r.data.counter + c) % CounterMod
    BY <1>1, <1>2, <1>3, <1>4, Unchanged
  <2>11. ASSUME v # None, r.data.type = "HOTP"
         PROVE  HotpCounter(name)' = (r.data.counter + codes'[name]) % CounterMod
    <3>1. r.data.counter \in 0..(CounterMod - 1)
      BY <2>10, <2>11, UriAssumption
    <3> QED BY <2>6, <2>10, <2>11, <3>1
  <2>12. OtpChange(name, r, v)
    BY <1>3, <2>2, <2>3, <2>4, <2>10, <2>11, SMT DEF OtpChange, Stays
  <2> QED BY <2>7, <2>8, <2>9, <2>12, OtpChanges
<1> QED BY <1>6, <1>7, Zenon DEF otp_set_default_value

\* Showing the code preserves the invariant: it is the last of the run, and was not shown.
LEMMA ShowStep ==
  ASSUME RecordsInv, display_hotp_screen
  PROVE  RecordsInv'
<1>1. PICK name \in Names : name = task.name
  BY DEF display_hotp_screen, RecordsInv, Shape
<1>2. PICK r, v : r = records["otp"][name] /\ v = told["otp"][name]
  BY Zenon
<1>3. PICK s, c : s = shown[name] /\ c = codes[name]
  BY Zenon
<1>4. /\ Due(name) /\ task' = Idle /\ task.value \in 0..CounterMod - 1
      /\ UNCHANGED <<loaded, records, hotpc, faults, told, codes>>
      /\ shown' = [shown EXCEPT ![name] = Append(s, task.value)]
  BY <1>1, <1>3 DEF display_hotp_screen, Due, RecordsInv, TypeOK
<1>5. s \in Seq(0..CounterMod - 1) /\ c \in 0..CounterMod
  BY <1>3, CounterAssumption DEF RecordsInv, TypeOK
<1>6. /\ Append(s, task.value) \in Seq(0..CounterMod - 1)
      /\ DOMAIN Append(s, task.value) = 1..(Len(s) + 1) /\ DOMAIN s = 1..Len(s)
      /\ Len(s) \in Nat
      /\ \A i \in 1..Len(s) : Append(s, task.value)[i] = s[i]
      /\ Append(s, task.value)[Len(s) + 1] = task.value
  BY <1>4, <1>5
<1>7. /\ shown' \in [Names -> Seq(0..CounterMod - 1)] /\ shown'[name] = Append(s, task.value)
      /\ \A n \in Names \ {name} : shown'[n] = shown[n]
  BY <1>4, <1>6 DEF RecordsInv, TypeOK
<1>8. PICK base \in 0..(CounterMod - 1) : CodesFrom(name, base)
  BY DEF RecordsInv, CodeInv, CodesOK
<1>9. c > 0 /\ task.value = (base + (c - 1)) % CounterMod
  BY <1>3, <1>4, <1>8 DEF CodesFrom
<1>10. ASSUME NEW i \in 1..Len(s)
       PROVE  \E j \in 0..(c - 1) : s[i] = (base + j) % CounterMod /\ j # c - 1
  BY <1>3, <1>4, <1>6, <1>8, Zenon DEF CodesFrom
<1>11. CodesOK(name)'
  <2>1. ~Due(name)'
    BY <1>4 DEF Due, Idle
  <2>2. HotpCounter(name)' = (base + codes'[name]) % CounterMod
    BY <1>4, <1>8 DEF CodesFrom, HotpCounter
  <2>3. ASSUME NEW i \in DOMAIN shown'[name]
        PROVE  \E j \in 0..(codes'[name] - 1) : shown'[name][i] = (base + j) % CounterMod
    <3>1. codes'[name] = c /\ c - 1 \in 0..(c - 1)
      BY <1>3, <1>4, <1>5, <1>9
    <3>2. CASE i \in 1..Len(s)
      BY <1>6, <1>7, <1>10, <3>1, <3>2, Zenon
    <3>3. CASE i = Len(s) + 1
      BY <1>6, <1>7, <1>9, <3>1, <3>3, Zenon
    <3>4. i \in 1..Len(s) \/ i = Len(s) + 1
      BY <1>6, <1>7, SMT
    <3> QED BY <3>2, <3>3, <3>4
  <2>4. CodesFrom(name, base)'
    BY <2>1, <2>2, <2>3, Zenon DEF CodesFrom
  <2> QED BY <2>4, Zenon DEF CodesOK
<1>12. ASSUME NEW i \in 1..Len(s) PROVE s[i] # task.value
  <2>1. PICK j \in 0..(c - 1) : s[i] = (base + j) % CounterMod /\ j # c - 1
    BY <1>10
  <2>2. j \in 0..(CounterMod - 1) /\ c - 1 \in 0..(CounterMod - 1)
    BY <1>5, <1>9, <2>1, CounterAssumption, SMT
  <2> QED BY <1>9, <2>1, <2>2, CounterAssumption, ModDiffers
<1>13. IsInjective(shown'[name])
  <2>1. IsInjective(s)
    BY <1>3 DEF RecordsInv, CodesNeverRepeat
  <2> QED BY <1>6, <1>7, <1>12, <2>1, SMT DEF IsInjective
<1>14. TypesKept
  <2>1. Idle \in Tasks
    BY CounterAssumption, SMT DEF Tasks, Idle
  <2> QED BY <1>4, <1>7, <2>1 DEF TypesKept, RecordsInv, TypeOK
<1>15. /\ Updated(records', records, "otp", name, r) /\ Updated(told', told, "otp", name, v)
       /\ r # None => r.by \in Wallets /\ r.data \in Uris
       /\ v # None => v = r
       /\ v # None /\ r.data.type = "HOTP" =>
            HotpCounter(name) = (r.data.counter + codes[name]) % CounterMod
  BY <1>2, <1>4, Unchanged
<1>16. HotpCounter(name)' = HotpCounter(name) /\ codes'[name] = codes[name] /\ task'.pc = "idle"
  BY <1>4 DEF HotpCounter, Idle
<1>17. OtpChange(name, r, v)
  BY <1>4, <1>7, <1>15, <1>16, SMT DEF OtpChange, Stays
<1> QED BY <1>11, <1>13, <1>14, <1>17, OtpChanges

\* Unlocking and restarting preserve the invariant, also between two commits.
LEMMA DeviceStep ==
  ASSUME RecordsInv, (\E w \in Wallets : Unlock(w)) \/ Restart
  PROVE  RecordsInv'
<1> USE DEF RecordsInv
<1>1. /\ UNCHANGED <<records, hotpc, faults, told, codes, shown>>
      /\ loaded' \in Wallets \cup {None} /\ task' \in {task, Idle}
      /\ task'.pc # "idle" => task' = task
      /\ task'.pc # "show"
  BY DEF Unlock, Restart, Idle
<1>2. Idle \in Tasks /\ Idle.pc = "idle"
  BY CounterAssumption, SMT DEF Tasks, Idle
<1>3. TypeOK' /\ Shape'
  BY <1>1, <1>2, SMT DEF TypeOK, Shape, Tasks
<1>4. NewInv'
  BY <1>1, <1>2 DEF NewInv
<1>5. CodeInv'
  <2>1. ASSUME NEW n \in Names PROVE CodesOK(n)'
    <3>1. CodesOK(n) /\ ~Due(n)'
      BY <1>1 DEF CodeInv, Due
    <3> QED BY <1>1, <3>1, CodesStay
  <2> QED BY <2>1, Zenon DEF CodeInv
<1>6. CodesNeverRepeat'
  BY <1>1 DEF CodesNeverRepeat
<1>7. RegisteredStays'
  BY <1>1, SMT DEF RegisteredStays, HotpCounter
<1> QED BY <1>3, <1>4, <1>5, <1>6, <1>7

\* The flash is empty and the main task idle.
Empty ==
  /\ loaded = None /\ records = NoRecords /\ told = NoRecords
  /\ hotpc = [n \in Names |-> None]
  /\ codes = [n \in Names |-> 0] /\ shown = [n \in Names |-> <<>>]
  /\ task \in Tasks /\ task.pc = "idle" /\ faults \in 0..MaxFaults

\* Then the invariant holds.
LEMMA EmptyRecords == Empty => RecordsInv
<1> SUFFICES ASSUME Empty PROVE RecordsInv
  OBVIOUS
<1> USE DEF RecordsInv, Empty
<1>1. /\ DOMAIN records = Kinds /\ DOMAIN told = Kinds
      /\ \A k \in Kinds : DOMAIN records[k] = Names /\ DOMAIN told[k] = Names
      /\ \A k \in Kinds, n \in Names : records[k][n] = None /\ told[k][n] = None
  BY DEF NoRecords
<1>2. /\ hotpc \in [Names -> (0..CounterMod - 1) \cup {None}]
      /\ codes \in [Names -> 0..MaxCodes] /\ shown \in [Names -> Seq(0..CounterMod - 1)]
      /\ \A n \in Names : codes[n] = 0 /\ shown[n] = <<>>
  BY CounterAssumption, SMT
<1>3. TypeOK
  BY <1>1, <1>2, SMT DEF TypeOK, Tasks
<1>4. Shape /\ NewInv
  <2>1. "otp" \in Kinds
    BY DEF Kinds
  <2> QED BY <1>1, <2>1, SMT DEF Shape, NewInv
<1>5. CodeInv
  <2>1. ASSUME NEW n \in Names PROVE CodesOK(n)
    <3>1. 0 \in 0..(CounterMod - 1)
      BY CounterAssumption, SMT
    <3>2. (0 + 0) % CounterMod = 0
      BY <3>1, CounterAssumption, ModSame
    <3>3. HotpCounter(n) = 0
      BY DEF HotpCounter
    <3>4. CodesFrom(n, 0)
      BY <1>2, <3>2, <3>3, SMT DEF CodesFrom, Due
    <3> QED BY <3>1, <3>4, Zenon DEF CodesOK
  <2> QED BY <2>1, Zenon DEF CodeInv
<1>6. RegisteredStays
  BY <1>1 DEF RegisteredStays
<1>7. CodesNeverRepeat
  BY <1>2, SMT DEF CodesNeverRepeat, IsInjective
<1> QED BY <1>3, <1>4, <1>5, <1>6, <1>7

\* A factory reset preserves the invariant.
LEMMA ResetStep == RecordsInv /\ FactoryReset => RecordsInv'
<1>1. RecordsInv /\ FactoryReset => Empty'
  BY DEF RecordsInv, TypeOK, Shape, FactoryReset, Empty
<1> QED BY <1>1, EmptyRecords, PTL

\* What a reset that fails leaves of the flash: any of the records and counters.
LEMMA PartlyErased ==
  ASSUME FactoryResetFails
  PROVE  /\ DOMAIN records' = Kinds /\ \A k \in Kinds : DOMAIN records'[k] = Names
         /\ \A k \in Kinds, n \in Names : records'[k][n] = None \/ records'[k][n] = records[k][n]
         /\ DOMAIN hotpc' = Names
         /\ \A n \in Names : hotpc'[n] = None \/ hotpc'[n] = hotpc[n]
         /\ \A k \in Kinds, n \in Names : told'[k][n] = None
         /\ DOMAIN told' = Kinds /\ \A k \in Kinds : DOMAIN told'[k] = Names
<1>1. PICK gone \in SUBSET {p \in Kinds \X Names : records[p[1]][p[2]] # None} :
        records' = [k \in Kinds |-> [n \in Names |-> IF <<k, n>> \in gone THEN None ELSE records[k][n]]]
  BY Zenon DEF FactoryResetFails
<1>2. PICK erased \in SUBSET {n \in Names : hotpc[n] # None} :
        hotpc' = [n \in Names |-> IF n \in erased THEN None ELSE hotpc[n]]
  BY Zenon DEF FactoryResetFails
<1>3. told' = NoRecords
  BY Zenon DEF FactoryResetFails
<1>4. DOMAIN records' = Kinds /\ \A k \in Kinds : DOMAIN records'[k] = Names
  BY <1>1, Zenon
<1>5. \A k \in Kinds, n \in Names : records'[k][n] = None \/ records'[k][n] = records[k][n]
  BY <1>1
<1>6. DOMAIN hotpc' = Names /\ \A n \in Names : hotpc'[n] = None \/ hotpc'[n] = hotpc[n]
  BY <1>2
<1>7. /\ \A k \in Kinds, n \in Names : told'[k][n] = None
      /\ DOMAIN told' = Kinds /\ \A k \in Kinds : DOMAIN told'[k] = Names
  BY <1>3 DEF NoRecords
<1> QED BY <1>4, <1>5, <1>6, <1>7

\* It preserves the invariant too: nothing is promised of what is left.
LEMMA FailedResetStep ==
  ASSUME RecordsInv, FactoryResetFails
  PROVE  RecordsInv'
<1> USE DEF RecordsInv
<1>1. /\ task.pc = "idle" /\ task' = task /\ loaded' = loaded
      /\ codes' = [n \in Names |-> 0] /\ shown' = [n \in Names |-> <<>>]
      /\ CommitFails
  BY Zenon DEF FactoryResetFails
<1>2. /\ codes' \in [Names -> 0..MaxCodes] /\ shown' \in [Names -> Seq(0..CounterMod - 1)]
      /\ \A n \in Names : codes'[n] = 0 /\ shown'[n] = <<>>
  BY <1>1, CounterAssumption, SMT
<1>3. faults' \in 0..MaxFaults
  BY <1>1, FaultCounted
<1>4. \A n \in Names : hotpc'[n] \in (0..CounterMod - 1) \cup {None}
  BY PartlyErased DEF TypeOK
<1>5. hotpc' \in [Names -> (0..CounterMod - 1) \cup {None}]
  <2>1. hotpc' = [n \in Names |-> hotpc'[n]]
    <3>1. PICK erased \in SUBSET {n \in Names : hotpc[n] # None} :
            hotpc' = [n \in Names |-> IF n \in erased THEN None ELSE hotpc[n]]
      BY Zenon DEF FactoryResetFails
    <3> QED BY <3>1
  <2> QED BY <1>4, <2>1, Zenon
<1>6. \A k \in Kinds, n \in Names :
        /\ records'[k][n] # None => records'[k][n].by \in Wallets
        /\ told'[k][n] # None => told'[k][n].by \in Wallets
  BY PartlyErased, Zenon DEF TypeOK
<1>7. TypeOK'
  BY <1>1, <1>2, <1>3, <1>5, <1>6, PartlyErased, Zenon DEF TypeOK
<1>8. Shape'
  <2>1. "otp" \in Kinds
    BY DEF Kinds
  <2> QED BY <1>1, <2>1, PartlyErased, Zenon DEF Shape
<1>9. NewInv'
  BY <1>1 DEF NewInv
<1>10. CodeInv'
  <2>1. ASSUME NEW n \in Names PROVE CodesOK(n)'
    <3>1. ~Due(n)'
      BY <1>1 DEF Due
    <3> QED BY <1>2, <1>4, <3>1, CodesAnew
  <2> QED BY <2>1, Zenon DEF CodeInv
<1>11. RegisteredStays'
  BY PartlyErased, Zenon DEF RegisteredStays
<1>12. CodesNeverRepeat'
  BY <1>2, SMT DEF CodesNeverRepeat, IsInjective
<1> QED BY <1>7, <1>8, <1>9, <1>10, <1>11, <1>12

\* Every step preserves the invariant.
LEMMA RecordsStep ==
  ASSUME RecordsInv, Next
  PROVE  RecordsInv'
<1>1. CASE register_multisig_process
  <2>1. ASSUME NEW name, NEW data, register_multisig(name, data)
        PROVE  RecordsInv'
    BY <2>1, RegisterStep, Zenon DEF register_multisig
  <2> QED BY <1>1, <2>1, Zenon DEF register_multisig_process
<1>2. ASSUME NEW n \in Names, NEW d \in Descriptors, register_descriptor(n, d)
      PROVE  RecordsInv'
  BY <1>2, RegisterStep, Zenon DEF register_descriptor
<1>3. CASE FactoryReset
  BY <1>3, ResetStep
<1> QED
  BY <1>1, <1>2, <1>3, FailedResetStep, DeleteStep, NewOtpStep, InitialCounterStep, DeleteOtpStep, EraseStep,
     NextCodeStep, ShowStep, DeviceStep, Zenon DEF Next

\* So does a stuttering step.
LEMMA RecordsInductive == RecordsInv /\ [Next]_vars => RecordsInv'
<1> SUFFICES ASSUME RecordsInv, [Next]_vars PROVE RecordsInv'
  OBVIOUS
<1>1. CASE Next
  BY <1>1, RecordsStep
<1>2. CASE UNCHANGED vars
  <2>1. UNCHANGED <<loaded, records, hotpc, task, told, codes, shown>> /\ faults' = faults
    BY <1>2 DEF vars
  <2>2. faults' \in 0..MaxFaults
    BY <2>1 DEF RecordsInv, TypeOK
  <2> QED BY <2>1, <2>2, FailedCommit
<1> QED BY <1>1, <1>2

\* The inductive invariant holds in every reachable state, for any wallets, names and limits.
THEOREM RecordsCorrect == Spec => []RecordsInv
<1>1. Init => Empty
  <2>1. Idle \in Tasks /\ Idle.pc = "idle"
    BY CounterAssumption, SMT DEF Idle, Tasks
  <2> QED BY <2>1, LimitAssumption, SMT DEF Init, Empty
<1> QED BY <1>1, EmptyRecords, RecordsInductive, PTL DEF Spec

\* Every variable has its type; above all no counter leaves its width when it wraps.
THEOREM RecordsTypeCorrect == Spec => []TypeOK
<1>1. RecordsInv => TypeOK
  BY DEF RecordsInv
<1> QED BY <1>1, RecordsCorrect, PTL

\* RegisteredStays for any wallets, names and limits: what the user was told is registered stays
\* in flash with its HOTP counter, whatever fails or is interrupted.
THEOREM RegistrationsStay == Spec => []RegisteredStays
<1>1. RecordsInv => RegisteredStays
  BY DEF RecordsInv
<1> QED BY <1>1, RecordsCorrect, PTL

\* CodesNeverRepeat for counters of any width: no value is shown twice before the counter has gone
\* through all of them, since otp_set_default_value stores the next value first.
THEOREM NoCodeTwice == Spec => []CodesNeverRepeat
<1>1. RecordsInv => CodesNeverRepeat
  BY DEF RecordsInv
<1> QED BY <1>1, RecordsCorrect, PTL

-----------------------------------------------------------------------------
(* Exported multisig wallets *)

\* Every set of numbers has a least one.
LEMMA Least ==
  ASSUME NEW T, T \subseteq Nat, T # {}
  PROVE  \E x \in T : \A y \in T : x <= y
<1> DEFINE R == {ss \in Nat \X Nat : ss[1] < ss[2]}
<1>1. R = OpToRel(<, Nat)
  BY DEF OpToRel
<1>2. IsWellFoundedOn(R, Nat)
  BY NatLessThanWellFounded, <1>1
<1>3. \E x \in T : \A y \in T : ~(<<y, x>> \in R)
  <2> HIDE DEF R
  <2> QED BY <1>2, WFMin
<1>4. ASSUME NEW x \in Nat, NEW y \in Nat, y < x
      PROVE  <<y, x>> \in R
  <2>1. <<y, x>> \in Nat \X Nat /\ <<y, x>>[1] = y /\ <<y, x>>[2] = x
    OBVIOUS
  <2> QED BY <1>4, <2>1, Zenon
<1>5. \E x \in T : \A y \in T : ~(y < x)
  <2> HIDE DEF R
  <2> QED BY <1>3, <1>4, Zenon
<1> QED BY <1>5, SMT

\* Induction over 0..N, for sets: the provers cannot instantiate it for operators.
LEMMA Induction ==
  ASSUME NEW T, NEW N \in Nat, 0 \in T, \A n \in 1..N : n - 1 \in T => n \in T
  PROVE  \A n \in 0..N : n \in T
<1> DEFINE U == {n \in 0..N : n \notin T}
<1> SUFFICES ASSUME U # {} PROVE FALSE
  OBVIOUS
<1>1. U \subseteq Nat
  OBVIOUS
<1>2. PICK x \in U : \A y \in U : x <= y
  <2> HIDE DEF U
  <2> QED BY <1>1, Least
<1>3. x \in 1..N /\ x - 1 \in 0..N /\ ~(x <= x - 1)
  OBVIOUS
<1>4. x - 1 \in T
  BY <1>2, <1>3
<1> QED BY <1>3, <1>4

\* What has been read of a file.
State(ok, seen, name, policy, path, variant, sorted, blinding, signers) ==
  [ok |-> ok, seen |-> seen, name |-> name, policy |-> policy, path |-> path,
   data |-> [variant |-> variant, sorted |-> sorted, blinding |-> blinding, signers |-> signers]]

\* A line is read after s, and t is what has then been read.
ReadsAs(v, s, line, t) == ReadLine(v, s, line) = t

\* A line that is accepted.
LEMMA LineRead ==
  ASSUME NEW v, NEW seen, NEW name, NEW policy, NEW path, NEW variant, NEW sorted, NEW blinding,
         NEW signers, NEW line,
         AcceptsLine(State(TRUE, seen, name, policy, path, variant, sorted, blinding, signers), line)
  PROVE  ReadsAs(v, State(TRUE, seen, name, policy, path, variant, sorted, blinding, signers), line,
             State(TRUE, IF line.field = "Signer" THEN seen ELSE seen \cup {line.field},
                   IF line.field = "Name" THEN line.value ELSE name,
                   IF line.field = "Policy" THEN line.value ELSE policy,
                   IF line.field = "Derivation" THEN line.value ELSE path,
                   IF line.field = "Format" THEN line.value ELSE variant,
                   IF line.field = "Sorted" THEN line.value ELSE sorted,
                   IF line.field = "BlindingKey" THEN line.value ELSE blinding,
                   IF line.field = "Signer" THEN Append(signers, ReadSigner(v, path, line.value))
                     ELSE signers))
<1> DEFINE s == State(TRUE, seen, name, policy, path, variant, sorted, blinding, signers)
<1>1. /\ s.ok = TRUE /\ s.path = path /\ AcceptsLine(s, line) /\ s.seen = seen
  BY DEF State
<1>2. line.field \in {"Name", "Policy", "Format", "Sorted", "BlindingKey", "Derivation", "Signer"}
  BY DEF AcceptsLine
<1>3. CASE line.field = "Name"
  BY <1>1, <1>3 DEF ReadsAs, ReadLine, State
<1>4. CASE line.field = "Policy"
  BY <1>1, <1>4 DEF ReadsAs, ReadLine, State
<1>5. CASE line.field = "Format"
  BY <1>1, <1>5 DEF ReadsAs, ReadLine, State
<1>6. CASE line.field = "Sorted"
  BY <1>1, <1>6 DEF ReadsAs, ReadLine, State
<1>7. CASE line.field = "BlindingKey"
  BY <1>1, <1>7 DEF ReadsAs, ReadLine, State
<1>8. CASE line.field = "Derivation"
  BY <1>1, <1>8 DEF ReadsAs, ReadLine, State
<1>9. CASE line.field = "Signer"
  BY <1>1, <1>9 DEF ReadsAs, ReadLine, State
<1> QED BY <1>2, <1>3, <1>4, <1>5, <1>6, <1>7, <1>8, <1>9

\* A line that is refused.
LEMMA LineRefused ==
  ASSUME NEW v, NEW ok, NEW seen, NEW name, NEW policy, NEW path, NEW variant, NEW sorted,
         NEW blinding, NEW signers, NEW line,
         ~ok \/ ~AcceptsLine(State(ok, seen, name, policy, path, variant, sorted, blinding, signers), line)
  PROVE  ReadsAs(v, State(ok, seen, name, policy, path, variant, sorted, blinding, signers), line,
                 State(FALSE, seen, name, policy, path, variant, sorted, blinding, signers))
BY DEF ReadsAs, ReadLine, State

\* The states of ReadLines, after each of the first n lines.
IsReading(f, v, file, n) ==
  f = [i \in 0..n |-> IF i = 0 THEN NothingRead ELSE ReadLine(v, f[i - 1], file[i])]
Reads(f, v, file, n) ==
  f[0] = NothingRead /\ \A i \in 1..n : f[i] = ReadLine(v, f[i - 1], file[i])

\* ReadLines reads the lines one by one.
LEMMA ReadLinesDef ==
  ASSUME NEW v, NEW file, NEW N \in Nat, N = Len(file)
  PROVE  \E f : Reads(f, v, file, N) /\ ReadLines(v, file) = f[N]
<1> DEFINE T == {k \in 0..N : \E g : IsReading(g, v, file, k)}
<1>1. 0 \in T
  <2> DEFINE h == [i \in 0..0 |-> NothingRead]
  <2>1. h = [i \in 0..0 |-> IF i = 0 THEN NothingRead ELSE ReadLine(v, h[i - 1], file[i])]
    OBVIOUS
  <2>2. IsReading(h, v, file, 0)
    BY <2>1, Zenon DEF IsReading
  <2> HIDE DEF h
  <2>3. 0 \in 0..N
    OBVIOUS
  <2> QED BY <2>2, <2>3, Zenon
<1>2. ASSUME NEW k \in 1..N, k - 1 \in T PROVE k \in T
  <2>1. PICK g : IsReading(g, v, file, k - 1)
    BY <1>2, Zenon
  <2> DEFINE c == ReadLine(v, g[k - 1], file[k])
             h == [i \in 0..k |-> IF i = k THEN c ELSE g[i]]
  <2> HIDE DEF c
  <2>2. ASSUME NEW i \in 0..k
        PROVE  h[i] = IF i = 0 THEN NothingRead ELSE ReadLine(v, h[i - 1], file[i])
    <3>1. CASE i = k
      <4>1. h[k] = c /\ h[k - 1] = g[k - 1] /\ k # 0
        OBVIOUS
      <4> HIDE DEF h
      <4> QED BY <3>1, <4>1, Zenon DEF c
    <3>2. CASE i # k
      <4>1. i \in 0..(k - 1) /\ h[i] = g[i] /\ (i # 0 => i - 1 \in 0..k /\ h[i - 1] = g[i - 1])
        BY <3>2
      <4>2. g[i] = IF i = 0 THEN NothingRead ELSE ReadLine(v, g[i - 1], file[i])
        BY <2>1, <4>1, Zenon DEF IsReading
      <4> HIDE DEF h
      <4> QED BY <4>1, <4>2, Zenon
    <3> QED BY <3>1, <3>2
  <2>3. IsReading(h, v, file, k)
    BY <2>2, Zenon DEF IsReading
  <2> HIDE DEF h
  <2>4. k \in 0..N
    OBVIOUS
  <2> QED BY <2>3, <2>4, Zenon
<1>3. N \in T
  <2> HIDE DEF T
  <2>1. \A k \in 0..N : k \in T
    BY <1>1, <1>2, Induction
  <2> QED BY <2>1
<1>4. PICK g : IsReading(g, v, file, N)
  BY <1>3, Zenon
<1> DEFINE c == CHOOSE f : f = [i \in 0..N |-> IF i = 0 THEN NothingRead ELSE ReadLine(v, f[i - 1], file[i])]
<1>5. c = [i \in 0..N |-> IF i = 0 THEN NothingRead ELSE ReadLine(v, c[i - 1], file[i])]
  BY <1>4, Zenon DEF IsReading
<1>6. ReadLines(v, file) = c[N]
  BY Zenon DEF ReadLines
<1> HIDE DEF c
<1>7. 0 \in 0..N /\ \A i \in 1..N : i \in 0..N /\ i # 0
  OBVIOUS
<1>8. Reads(c, v, file, N)
  BY <1>5, <1>7, Zenon DEF Reads
<1> QED BY <1>6, <1>8, Zenon

\* Nothing has been read of an empty file.
LEMMA ReadEmpty == \A v : ReadLines(v, <<>>) = NothingRead
<1> SUFFICES ASSUME NEW v PROVE ReadLines(v, <<>>) = NothingRead
  OBVIOUS
<1>1. Len(<<>>) = 0
  OBVIOUS
<1>2. PICK f : Reads(f, v, <<>>, 0) /\ ReadLines(v, <<>>) = f[0]
  BY <1>1, ReadLinesDef
<1> QED BY <1>2, Zenon DEF Reads

\* One line more is read after the others.
LEMMA ReadOneMore ==
  ASSUME NEW v, NEW S, NEW file \in Seq(S), NEW line \in S
  PROVE  ReadLines(v, Append(file, line)) = ReadLine(v, ReadLines(v, file), line)
<1> DEFINE N == Len(file)
           all == Append(file, line)
<1>1. /\ N \in Nat /\ N + 1 \in Nat /\ Len(all) = N + 1 /\ all[N + 1] = line
      /\ \A i \in 1..N : all[i] = file[i]
  OBVIOUS
<1> HIDE DEF all
<1>2. PICK f : Reads(f, v, file, N) /\ ReadLines(v, file) = f[N]
  BY <1>1, ReadLinesDef, Zenon
<1> HIDE DEF N
<1>3. PICK g : Reads(g, v, all, N + 1) /\ ReadLines(v, all) = g[N + 1]
  BY <1>1, ReadLinesDef, Zenon
<1> DEFINE T == {k \in 0..N : f[k] = g[k]}
<1>4. 0 \in T
  <2>1. 0 \in 0..N
    BY <1>1
  <2> QED BY <1>2, <1>3, <2>1, Zenon DEF Reads
<1>5. ASSUME NEW k \in 1..N, k - 1 \in T PROVE k \in T
  <2>1. k \in 0..N /\ k \in 1..(N + 1)
    BY <1>1
  <2>2. f[k] = ReadLine(v, f[k - 1], file[k]) /\ g[k] = ReadLine(v, g[k - 1], all[k])
    BY <1>2, <1>3, <2>1, Zenon DEF Reads
  <2> QED BY <1>1, <1>5, <2>1, <2>2, Zenon
<1>6. N \in T
  <2> HIDE DEF T
  <2>1. \A k \in 0..N : k \in T
    BY <1>1, <1>4, <1>5, Induction
  <2>2. N \in 0..N
    BY <1>1
  <2> QED BY <2>1, <2>2, Zenon
<1>7. g[N + 1] = ReadLine(v, g[N], line)
  <2>1. N + 1 \in 1..(N + 1) /\ (N + 1) - 1 = N
    BY <1>1
  <2>2. g[N + 1] = ReadLine(v, g[(N + 1) - 1], all[N + 1])
    BY <1>3, <2>1, Zenon DEF Reads
  <2> QED BY <1>1, <2>1, <2>2, Zenon
<1>8. f[N] = g[N]
  BY <1>6, Zenon
<1>9. ReadLines(v, all) = ReadLine(v, ReadLines(v, file), line)
  BY <1>2, <1>3, <1>7, <1>8, Zenon
<1> QED BY <1>9, Zenon DEF all

\* FlattenSeq appends the sequences one by one.
Joins(f, seqs, n) == f[1] = seqs[1] /\ \A i \in 2..n : f[i] = f[i - 1] \o seqs[i]
IsJoin(f, seqs, n) == f = [i \in 1..n |-> IF i = 1 THEN seqs[i] ELSE f[i - 1] \o seqs[i]]

\* FlattenSeq is the last of such a run.
LEMMA FlattenJoins ==
  ASSUME NEW seqs, NEW N \in Nat \ {0}, N = Len(seqs)
  PROVE  \E f : Joins(f, seqs, N) /\ FlattenSeq(seqs) = f[N]
<1> DEFINE T == {k \in 0..N : k = 0 \/ \E g : IsJoin(g, seqs, k)}
<1>1. 0 \in T
  OBVIOUS
<1>2. ASSUME NEW k \in 1..N, k - 1 \in T PROVE k \in T
  <2>0. k \in 0..N
    OBVIOUS
  <2>1. CASE k = 1
    <3> DEFINE h == [i \in 1..1 |-> seqs[i]]
    <3>1. h = [i \in 1..1 |-> IF i = 1 THEN seqs[i] ELSE h[i - 1] \o seqs[i]]
      OBVIOUS
    <3>2. IsJoin(h, seqs, 1)
      BY <3>1, Zenon DEF IsJoin
    <3> HIDE DEF h
    <3> QED BY <2>0, <2>1, <3>2, Zenon
  <2>2. CASE k # 1
    <3>0. k - 1 # 0
      BY <2>2
    <3>1. PICK g : IsJoin(g, seqs, k - 1)
      BY <1>2, <3>0, Zenon
    <3> DEFINE c == g[k - 1] \o seqs[k]
               h == [i \in 1..k |-> IF i = k THEN c ELSE g[i]]
    <3> HIDE DEF c
    <3>2. ASSUME NEW i \in 1..k
          PROVE  h[i] = IF i = 1 THEN seqs[i] ELSE h[i - 1] \o seqs[i]
      <4>1. CASE i = k
        <5>1. h[k] = c /\ h[k - 1] = g[k - 1]
          BY <2>2
        <5> HIDE DEF h
        <5> QED BY <2>2, <4>1, <5>1, Zenon DEF c
      <4>2. CASE i # k
        <5>1. i \in 1..(k - 1) /\ h[i] = g[i] /\ (i # 1 => i - 1 \in 1..k /\ h[i - 1] = g[i - 1])
          BY <4>2
        <5>2. g[i] = IF i = 1 THEN seqs[i] ELSE g[i - 1] \o seqs[i]
          BY <3>1, <5>1, Zenon DEF IsJoin
        <5> HIDE DEF h
        <5> QED BY <5>1, <5>2, Zenon
      <4> QED BY <4>1, <4>2
    <3>3. IsJoin(h, seqs, k)
      BY <3>2, Zenon DEF IsJoin
    <3> HIDE DEF h
    <3> QED BY <2>0, <3>3, Zenon
  <2> QED BY <2>1, <2>2
<1>3. N \in T
  <2> HIDE DEF T
  <2>1. \A k \in 0..N : k \in T
    BY <1>1, <1>2, Induction
  <2> QED BY <2>1
<1>4. PICK g : IsJoin(g, seqs, N)
  BY <1>3
<1> DEFINE c == CHOOSE f : f = [i \in 1..N |-> IF i = 1 THEN seqs[i] ELSE f[i - 1] \o seqs[i]]
<1>5. c = [i \in 1..N |-> IF i = 1 THEN seqs[i] ELSE c[i - 1] \o seqs[i]]
  BY <1>4, Zenon DEF IsJoin
<1>6. FlattenSeq(seqs) = c[N]
  <2>1. Len(seqs) # 0
    OBVIOUS
  <2> QED BY <2>1, Zenon DEF FlattenSeq
<1> HIDE DEF c
<1>7. 1 \in 1..N /\ \A i \in 2..N : i \in 1..N /\ i # 1
  OBVIOUS
<1>8. Joins(c, seqs, N)
  BY <1>5, <1>7, Zenon DEF Joins
<1> QED BY <1>6, <1>8, Zenon

\* The lines of an exported file, each read after the others: the name,
LEMMA NameRead ==
  ASSUME NEW v, NEW seen, NEW name, NEW policy, NEW path, NEW variant, NEW sorted, NEW blinding,
         NEW signers, NEW x, "Name" \notin seen
  PROVE  ReadsAs(v, State(TRUE, seen, name, policy, path, variant, sorted, blinding, signers), Line("Name", x),
                 State(TRUE, seen \cup {"Name"}, x, policy, path, variant, sorted, blinding, signers))
BY DEF ReadsAs, ReadLine, AcceptsLine, State, Line

\* the policy,
LEMMA PolicyRead ==
  ASSUME NEW v, NEW seen, NEW name, NEW policy, NEW path, NEW variant, NEW sorted, NEW blinding,
         NEW signers, NEW x, "Policy" \notin seen, IsPolicy(x)
  PROVE  ReadsAs(v, State(TRUE, seen, name, policy, path, variant, sorted, blinding, signers), Line("Policy", x),
                 State(TRUE, seen \cup {"Policy"}, name, x, path, variant, sorted, blinding, signers))
BY DEF ReadsAs, ReadLine, AcceptsLine, State, Line

\* the script variant,
LEMMA FormatRead ==
  ASSUME NEW v, NEW seen, NEW name, NEW policy, NEW path, NEW variant, NEW sorted, NEW blinding,
         NEW signers, NEW x \in Variants, "Format" \notin seen
  PROVE  ReadsAs(v, State(TRUE, seen, name, policy, path, variant, sorted, blinding, signers), Line("Format", x),
                 State(TRUE, seen \cup {"Format"}, name, policy, path, x, sorted, blinding, signers))
BY DEF ReadsAs, ReadLine, AcceptsLine, State, Line

\* that the keys are not sorted,
LEMMA SortedRead ==
  ASSUME NEW v, NEW seen, NEW name, NEW policy, NEW path, NEW variant, NEW sorted, NEW blinding,
         NEW signers, "Sorted" \notin seen
  PROVE  ReadsAs(v, State(TRUE, seen, name, policy, path, variant, sorted, blinding, signers), Line("Sorted", FALSE),
                 State(TRUE, seen \cup {"Sorted"}, name, policy, path, variant, FALSE, blinding, signers))
BY DEF ReadsAs, ReadLine, AcceptsLine, State, Line

\* the blinding key,
LEMMA BlindingRead ==
  ASSUME NEW v, NEW seen, NEW name, NEW policy, NEW path, NEW variant, NEW sorted, NEW blinding,
         NEW signers, NEW x, "BlindingKey" \notin seen
  PROVE  ReadsAs(v, State(TRUE, seen, name, policy, path, variant, sorted, blinding, signers), Line("BlindingKey", x),
                 State(TRUE, seen \cup {"BlindingKey"}, name, policy, path, variant, sorted, x, signers))
BY DEF ReadsAs, ReadLine, AcceptsLine, State, Line

\* the derivation of a signer
LEMMA DerivationRead ==
  ASSUME NEW v, NEW seen, NEW name, NEW policy, NEW path, NEW variant, NEW sorted, NEW blinding,
         NEW signers, NEW x, CanReadBack(x)
  PROVE  ReadsAs(v, State(TRUE, seen, name, policy, path, variant, sorted, blinding, signers), DerivationLine(x),
                 State(TRUE, seen \cup {"Derivation"}, name, policy, x, variant, sorted, blinding, signers))
BY DEF ReadsAs, ReadLine, AcceptsLine, State, DerivationLine, CanReadBack

\* and its fingerprint and xpub.
LEMMA XpubRead ==
  ASSUME NEW v, NEW seen, NEW name, NEW policy, NEW path, NEW variant, NEW sorted, NEW blinding,
         NEW signers, NEW x, Mandatory \subseteq seen, Len(signers) < policy[2]
  PROVE  ReadsAs(v, State(TRUE, seen, name, policy, path, variant, sorted, blinding, signers), Line("Signer", x),
                 State(TRUE, seen, name, policy, path, variant, sorted, blinding,
                   Append(signers, ReadSigner(v, path, x))))
BY DEF ReadsAs, ReadLine, AcceptsLine, State, Line

\* A file of lines of S has been read, and s is what has been read.
After(v, S, file, s) == file \in Seq(S) /\ ReadLines(v, file) = s

\* The two lines of a signer give the signer.
LEMMA SignerRead ==
  ASSUME NEW v, NEW seen, NEW name, NEW policy, NEW path, NEW variant, NEW sorted, NEW blinding,
         NEW signers, NEW signer, NEW S, NEW file,
         SignerLines(signer)[1] \in S, SignerLines(signer)[2] \in S,
         After(v, S, file, State(TRUE, seen, name, policy, path, variant, sorted, blinding, signers)),
         {"Name", "Policy", "Format"} \subseteq seen, Len(signers) < policy[2],
         IsSigner(signer), CanReadBack(signer.derivation), signer.version = v, signer.path = "none"
  PROVE  After(v, S, file \o SignerLines(signer),
               State(TRUE, seen \cup {"Derivation"}, name, policy, signer.derivation, variant, sorted,
                     blinding, Append(signers, signer)))
<1> DEFINE d == signer.derivation
           x == [fingerprint |-> signer.fingerprint, key |-> signer.key, version |-> signer.version]
           a == DerivationLine(d)
           b == Line("Signer", x)
<1>0. file \in Seq(S)
  BY Zenon DEF After
<1>1. SignerLines(signer) = <<a, b>> /\ a \in S /\ b \in S
  BY DEF SignerLines
<1>2. ReadSigner(v, d, x) = signer
  BY DEF ReadSigner, IsSigner
<1> HIDE DEF d, x
<1>3. ReadsAs(v, State(TRUE, seen, name, policy, path, variant, sorted, blinding, signers), a,
          State(TRUE, seen \cup {"Derivation"}, name, policy, d, variant, sorted, blinding, signers))
  <2>1. CanReadBack(d)
    BY DEF d
  <2> QED BY <2>1, DerivationRead, Zenon
<1>4. ReadsAs(v, State(TRUE, seen \cup {"Derivation"}, name, policy, d, variant, sorted, blinding,
                        signers), b,
          State(TRUE, seen \cup {"Derivation"}, name, policy, d, variant, sorted, blinding,
                Append(signers, signer)))
  <2>1. Mandatory \subseteq seen \cup {"Derivation"}
    BY DEF Mandatory
  <2>2. ReadsAs(v, State(TRUE, seen \cup {"Derivation"}, name, policy, d, variant, sorted, blinding,
                          signers), b,
          State(TRUE, seen \cup {"Derivation"}, name, policy, d, variant, sorted, blinding,
                  Append(signers, ReadSigner(v, d, x))))
    BY <2>1, XpubRead, Zenon
  <2> QED BY <1>2, <2>2, Zenon
<1> HIDE DEF a, b
<1>5. Append(file, a) \in Seq(S) /\ file \o <<a, b>> = Append(Append(file, a), b)
      /\ file \o <<a, b>> \in Seq(S)
  BY <1>0, <1>1
<1>6. ReadLines(v, Append(file, a))
        = State(TRUE, seen \cup {"Derivation"}, name, policy, d, variant, sorted, blinding, signers)
  <2>1. ReadLines(v, Append(file, a)) = ReadLine(v, ReadLines(v, file), a)
    BY <1>0, <1>1, ReadOneMore, Zenon
  <2> QED BY <1>3, <2>1, Zenon DEF ReadsAs, After
<1>7. ReadLines(v, Append(Append(file, a), b))
        = State(TRUE, seen \cup {"Derivation"}, name, policy, d, variant, sorted, blinding,
                Append(signers, signer))
  <2>1. ReadLines(v, Append(Append(file, a), b)) = ReadLine(v, ReadLines(v, Append(file, a)), b)
    BY <1>1, <1>5, ReadOneMore, Zenon
  <2> QED BY <1>4, <1>6, <2>1, Zenon DEF ReadsAs
<1>8. ReadLines(v, file \o SignerLines(signer)) = ReadLines(v, Append(Append(file, a), b))
  BY <1>1, <1>5
<1>9. file \o SignerLines(signer) \in Seq(S)
  BY <1>1, <1>5
<1> QED BY <1>7, <1>8, <1>9, Zenon DEF After, d

\* What is written before the signers.
FileHeader(name, data) ==
  << Line("Name", [name |-> name, truncated |-> FALSE]),
     Line("Policy", <<data.threshold, Len(data.signers)>>),
     Line("Format", data.variant) >>
  \o SortedLines(data)
  \o (IF data.blinding = "none" THEN <<>> ELSE <<Line("BlindingKey", data.blinding)>>)

\* The state after the header.
HeaderState(seen, name, data) ==
  State(TRUE, seen, [name |-> name, truncated |-> FALSE], <<data.threshold, Len(data.signers)>>, "m",
        data.variant, data.sorted, data.blinding, <<>>)

\* What is known of the data of a registered wallet.
Registered(data) ==
  /\ IsMultisig(data) /\ Len(data.signers) \in 1..MAX_ALLOWED_SIGNERS
  /\ data.threshold \in 1..Len(data.signers)

\* The lines that are written before the signers.
HeaderLines(S, name, data) ==
  /\ Line("Name", [name |-> name, truncated |-> FALSE]) \in S
  /\ Line("Policy", <<data.threshold, Len(data.signers)>>) \in S
  /\ Line("Format", data.variant) \in S /\ Line("Sorted", FALSE) \in S
  /\ Line("BlindingKey", data.blinding) \in S

\* The header has been read.
AfterHeader(v, S, name, data) ==
  \E seen : /\ {"Name", "Policy", "Format"} \subseteq seen
            /\ After(v, S, FileHeader(name, data), HeaderState(seen, name, data))

\* The header of an exported file is read as it was written.
LEMMA HeaderRead ==
  ASSUME NEW v, NEW name, NEW data, Registered(data), NEW S, HeaderLines(S, name, data)
  PROVE  AfterHeader(v, S, name, data)
<1> DEFINE nm == [name |-> name, truncated |-> FALSE]
           pol == <<data.threshold, Len(data.signers)>>
           l1 == Line("Name", nm)
           l2 == Line("Policy", pol)
           l3 == Line("Format", data.variant)
           l4 == Line("Sorted", FALSE)
           l5 == Line("BlindingKey", data.blinding)
           f1 == Append(<<>>, l1)
           f2 == Append(f1, l2)
           f3 == Append(f2, l3)
           f4 == IF data.sorted THEN f3 ELSE Append(f3, l4)
           f5 == IF data.blinding = "none" THEN f4 ELSE Append(f4, l5)
           n0 == [name |-> "", truncated |-> FALSE]
           e3 == {"Name", "Policy", "Format"}
           e4 == IF data.sorted THEN e3 ELSE e3 \cup {"Sorted"}
           e5 == IF data.blinding = "none" THEN e4 ELSE e4 \cup {"BlindingKey"}
<1>a. /\ data.sorted \in BOOLEAN /\ data.variant \in Variants
      /\ Len(data.signers) \in 1..MAX_ALLOWED_SIGNERS /\ data.threshold \in 1..Len(data.signers)
  BY Zenon DEF Registered, IsMultisig
<1>0. l1 \in S /\ l2 \in S /\ l3 \in S /\ l4 \in S /\ l5 \in S
  BY Zenon DEF HeaderLines
<1>1. IsPolicy(pol)
  BY <1>a, SignersAssumption DEF IsPolicy
<1>2. NothingRead = State(TRUE, {}, n0, <<0, 0>>, "m", "GREEN", TRUE, "none", <<>>)
  BY DEF NothingRead, State
<1> HIDE DEF nm, pol, n0
<1>3. /\ ReadsAs(v, State(TRUE, {}, n0, <<0, 0>>, "m", "GREEN", TRUE, "none", <<>>), l1,
          State(TRUE, {} \cup {"Name"}, nm, <<0, 0>>, "m", "GREEN", TRUE, "none", <<>>))
  <2>1. "Name" \notin {}
    OBVIOUS
  <2> QED BY <2>1, NameRead, Zenon
<1>4. ReadsAs(v, State(TRUE, {} \cup {"Name"}, nm, <<0, 0>>, "m", "GREEN", TRUE, "none", <<>>), l2,
          State(TRUE, ({} \cup {"Name"}) \cup {"Policy"}, nm, pol, "m", "GREEN", TRUE, "none", <<>>))
  <2>1. "Policy" \notin ({} \cup {"Name"})
    OBVIOUS
  <2> QED BY <1>1, <2>1, PolicyRead, Zenon
<1>5. ReadsAs(v, State(TRUE, ({} \cup {"Name"}) \cup {"Policy"}, nm, pol, "m", "GREEN", TRUE, "none", <<>>), l3,
          State(TRUE, e3, nm, pol, "m", data.variant, TRUE, "none", <<>>))
  <2>1. "Format" \notin ({} \cup {"Name"}) \cup {"Policy"}
    OBVIOUS
  <2>2. (({} \cup {"Name"}) \cup {"Policy"}) \cup {"Format"} = e3
    OBVIOUS
  <2>3. ReadsAs(v, State(TRUE, ({} \cup {"Name"}) \cup {"Policy"}, nm, pol, "m", "GREEN", TRUE, "none", <<>>), l3,
          State(TRUE, (({} \cup {"Name"}) \cup {"Policy"}) \cup {"Format"}, nm, pol, "m", data.variant,
                  TRUE, "none", <<>>))
    BY <1>a, <2>1, FormatRead, Zenon
  <2> QED BY <2>2, <2>3, Zenon
<1>6. ReadsAs(v, State(TRUE, e3, nm, pol, "m", data.variant, TRUE, "none", <<>>), l4,
          State(TRUE, e3 \cup {"Sorted"}, nm, pol, "m", data.variant, FALSE, "none", <<>>))
  <2>1. "Sorted" \notin e3
    OBVIOUS
  <2> HIDE DEF e3
  <2> QED BY <2>1, SortedRead, Zenon
<1>7. ReadsAs(v, State(TRUE, e4, nm, pol, "m", data.variant, data.sorted, "none", <<>>), l5,
          State(TRUE, e4 \cup {"BlindingKey"}, nm, pol, "m", data.variant, data.sorted, data.blinding, <<>>))
  <2>1. "BlindingKey" \notin e4
    BY <1>a
  <2> HIDE DEF e4
  <2> QED BY <2>1, BlindingRead, Zenon
<1>8. FileHeader(name, data) = f5
  <2> DEFINE h3 == <<l1, l2, l3>>
             p == SortedLines(data)
             q == IF data.blinding = "none" THEN <<>> ELSE <<l5>>
  <2>1. FileHeader(name, data) = (h3 \o p) \o q
    BY Zenon DEF FileHeader, nm, pol
  <2>2. p = IF data.sorted THEN <<>> ELSE <<l4>>
    BY Zenon DEF SortedLines
  <2> HIDE DEF l1, l2, l3, l4, l5, p
  <2>3. h3 = f3 /\ h3 \in Seq(S)
    BY <1>0
  <2> HIDE DEF h3, f3
  <2>4. h3 \o p = f4 /\ f4 \in Seq(S)
    BY <1>0, <2>2, <2>3
  <2> HIDE DEF f4
  <2>5. f4 \o q = f5
    BY <1>0, <2>4
  <2> QED BY <2>1, <2>4, <2>5, Zenon
<1> HIDE DEF l1, l2, l3, l4, l5, e3
<1>9. <<>> \in Seq(S) /\ f1 \in Seq(S) /\ f2 \in Seq(S) /\ f3 \in Seq(S) /\ f4 \in Seq(S) /\ f5 \in Seq(S)
  BY <1>0
<1> HIDE DEF f1, f2, f3
<1>10. ReadLines(v, f1) = State(TRUE, {} \cup {"Name"}, nm, <<0, 0>>, "m", "GREEN", TRUE, "none", <<>>)
  <2>1. ReadLines(v, Append(<<>>, l1)) = ReadLine(v, ReadLines(v, <<>>), l1)
    BY <1>0, <1>9, ReadOneMore, Zenon
  <2> QED BY <1>2, <1>3, ReadEmpty, <2>1, Zenon DEF ReadsAs, f1
<1>11. ReadLines(v, f2)
         = State(TRUE, ({} \cup {"Name"}) \cup {"Policy"}, nm, pol, "m", "GREEN", TRUE, "none", <<>>)
  <2>1. ReadLines(v, Append(f1, l2)) = ReadLine(v, ReadLines(v, f1), l2)
    BY <1>0, <1>9, ReadOneMore, Zenon
  <2> QED BY <1>4, <1>10, <2>1, Zenon DEF ReadsAs, f2
<1>12. ReadLines(v, f3) = State(TRUE, e3, nm, pol, "m", data.variant, TRUE, "none", <<>>)
  <2>1. ReadLines(v, Append(f2, l3)) = ReadLine(v, ReadLines(v, f2), l3)
    BY <1>0, <1>9, ReadOneMore, Zenon
  <2> QED BY <1>5, <1>11, <2>1, Zenon DEF ReadsAs, f3
<1>13. ReadLines(v, f4) = State(TRUE, e4, nm, pol, "m", data.variant, data.sorted, "none", <<>>)
  <2>1. CASE data.sorted = TRUE
    BY <1>12, <2>1, Zenon
  <2>2. CASE data.sorted = FALSE
    <3>1. ReadLines(v, Append(f3, l4)) = ReadLine(v, ReadLines(v, f3), l4)
      BY <1>0, <1>9, ReadOneMore, Zenon
    <3> QED BY <1>6, <1>12, <2>2, <3>1, Zenon DEF ReadsAs
  <2> QED BY <1>a, <2>1, <2>2
<1> HIDE DEF f4, e4
<1>14. ReadLines(v, f5) = State(TRUE, e5, nm, pol, "m", data.variant, data.sorted, data.blinding, <<>>)
  <2>1. CASE data.blinding = "none"
    BY <1>13, <2>1, Zenon
  <2>2. CASE data.blinding # "none"
    <3>1. ReadLines(v, Append(f4, l5)) = ReadLine(v, ReadLines(v, f4), l5)
      BY <1>0, <1>9, ReadOneMore, Zenon
    <3> QED BY <1>7, <1>13, <2>2, <3>1, Zenon DEF ReadsAs
  <2> QED BY <2>1, <2>2
<1>15. {"Name", "Policy", "Format"} \subseteq e5
  BY DEF e3, e4
<1> HIDE DEF e5, f5
<1>16. ReadLines(v, FileHeader(name, data)) = HeaderState(e5, name, data)
  BY <1>8, <1>14, Zenon DEF HeaderState, nm, pol
<1> QED BY <1>8, <1>9, <1>15, <1>16, Zenon DEF AfterHeader, After

\* A signer that an exported file describes in full.
Described(v, signer) ==
  IsSigner(signer) /\ CanReadBack(signer.derivation) /\ signer.version = v /\ signer.path = "none"

\* The two parts of a file make up the whole.
IsJoined(a, b, whole) == whole = a \o b

\* The parts of a file may be joined in any order.
LEMMA JoinedInTurn ==
  ASSUME NEW S, NEW a \in Seq(S), NEW b \in Seq(S), NEW c \in Seq(S),
         NEW start, IsJoined(a, b, start), NEW rest, IsJoined(b, c, rest)
  PROVE  IsJoined(a, rest, start \o c)
BY ConcatAssociative DEF IsJoined

\* All the signers, after the header.
LEMMA SignersAfter ==
  ASSUME NEW v, NEW seen, NEW name, NEW policy, NEW variant, NEW sorted, NEW blinding,
         NEW Q, NEW signers \in Seq(Q), NEW N \in Nat \ {0}, N = Len(signers), N = policy[2],
         NEW S, NEW file, {"Name", "Policy", "Format"} \subseteq seen,
         After(v, S, file, State(TRUE, seen, name, policy, "m", variant, sorted, blinding, <<>>)),
         \A i \in 1..N : Described(v, signers[i]),
         \A i \in 1..N : SignerLines(signers[i])[1] \in S /\ SignerLines(signers[i])[2] \in S
  PROVE  After(v, S, file \o FlattenSeq([i \in DOMAIN signers |-> SignerLines(signers[i])]),
               State(TRUE, seen \cup {"Derivation"}, name, policy, signers[N].derivation, variant, sorted,
                     blinding, signers))
<1> DEFINE seqs == [i \in DOMAIN signers |-> SignerLines(signers[i])]
           all == seen \cup {"Derivation"}
           Read(k) == State(TRUE, all, name, policy, signers[k].derivation, variant, sorted, blinding,
                            SubSeq(signers, 1, k))
<1>1. Len(seqs) = N /\ \A i \in 1..N : seqs[i] = SignerLines(signers[i])
  <2>1. DOMAIN signers = 1..N
    BY LenProperties, Zenon
  <2>2. ASSUME NEW g, g = [i \in 1..N |-> SignerLines(signers[i])]
        PROVE  Len(g) = N /\ \A i \in 1..N : g[i] = SignerLines(signers[i])
    BY <2>2
  <2> QED BY <2>1, <2>2, Zenon
<1>2. file \in Seq(S)
  BY Zenon DEF After
<1>3. \A i \in 1..N : SignerLines(signers[i]) \in Seq(S)
  BY DEF SignerLines
<1> HIDE DEF seqs
<1>4. PICK f : Joins(f, seqs, N) /\ FlattenSeq(seqs) = f[N]
  BY <1>1, FlattenJoins
<1> DEFINE T == {k \in 0..N : k = 0 \/ (f[k] \in Seq(S) /\ After(v, S, file \o f[k], Read(k)))}
<1>5. 0 \in T
  OBVIOUS
<1>6. ASSUME NEW k \in 1..N, k - 1 \in T PROVE k \in T
  <2> DEFINE signer == signers[k]
  <2>1. /\ SignerLines(signer)[1] \in S /\ SignerLines(signer)[2] \in S /\ SignerLines(signer) \in Seq(S)
        /\ IsSigner(signer) /\ CanReadBack(signer.derivation) /\ signer.version = v /\ signer.path = "none"
    BY <1>3, Zenon DEF Described
  <2>2. k \in 0..N
    OBVIOUS
  <2> HIDE DEF signer, all
  <2>3. CASE k = 1
    <3>1. f[k] = SignerLines(signer)
      BY <1>1, <1>4, <2>3 DEF Joins, signer
    <3>2. Len(<<>>) < policy[2]
      OBVIOUS
    <3>3. After(v, S, file \o SignerLines(signer),
                State(TRUE, all, name, policy, signer.derivation, variant, sorted, blinding,
                      Append(<<>>, signer)))
      BY <2>1, <3>2, SignerRead, Zenon DEF all
    <3>4. Append(<<>>, signer) = SubSeq(signers, 1, k)
      BY <2>3 DEF signer
    <3> QED BY <2>1, <2>2, <3>1, <3>3, <3>4, Zenon DEF signer
  <2>4. CASE k # 1
    <3> DEFINE p == SubSeq(signers, 1, k - 1)
    <3>1. k - 1 # 0 /\ k \in 2..N
      BY <2>4
    <3>2. f[k - 1] \in Seq(S) /\ After(v, S, file \o f[k - 1], Read(k - 1))
      BY <1>6, <3>1, Zenon
    <3>3. f[k] = f[k - 1] \o SignerLines(signer)
      BY <1>1, <1>4, <3>1, Zenon DEF Joins, signer
    <3>4. Len(p) < policy[2] /\ Append(p, signer) = SubSeq(signers, 1, k)
      BY <3>1 DEF signer
    <3>5. {"Name", "Policy", "Format"} \subseteq all /\ all \cup {"Derivation"} = all
      BY DEF all
    <3> DEFINE before == file \o f[k - 1]
    <3>6. before = file \o f[k - 1] /\ After(v, S, before, Read(k - 1))
      BY <3>2, Zenon
    <3> HIDE DEF p, before
    <3>7. After(v, S, before \o SignerLines(signer),
                State(TRUE, all \cup {"Derivation"}, name, policy, signer.derivation, variant, sorted, blinding,
                      Append(p, signer)))
      BY <2>1, <3>4, <3>5, <3>6, SignerRead, Zenon DEF p
    <3>8. before \o SignerLines(signer) = file \o f[k]
      <4>1. SignerLines(signer) \in Seq(S) /\ f[k - 1] \in Seq(S)
        BY <2>1, <3>2, Zenon
      <4>2. IsJoined(file, f[k - 1], before) /\ IsJoined(f[k - 1], SignerLines(signer), f[k])
        BY <3>3, <3>6, Zenon DEF IsJoined
      <4>3. IsJoined(file, f[k], before \o SignerLines(signer))
        BY <1>2, <4>1, <4>2, JoinedInTurn, Zenon
      <4> QED BY <4>3, Zenon DEF IsJoined
    <3>9. f[k] \in Seq(S)
      BY <2>1, <3>2, <3>3
    <3> QED BY <2>2, <3>4, <3>5, <3>7, <3>8, <3>9, Zenon DEF signer
  <2> QED BY <2>3, <2>4
<1>7. N \in T
  <2> HIDE DEF T
  <2>1. \A k \in 0..N : k \in T
    BY <1>5, <1>6, Induction
  <2> QED BY <2>1
<1>8. SubSeq(signers, 1, N) = signers /\ N # 0
  BY SubSeqFull
<1>9. After(v, S, file \o f[N], Read(N))
  BY <1>7, <1>8, Zenon
<1> QED BY <1>4, <1>8, <1>9, Zenon DEF seqs

\* What an exported file says is what the record says.
LEMMA ExportReads ==
  ASSUME NEW v, NEW name, NEW data, Registered(data),
         \A i \in DOMAIN data.signers :
           /\ CanReadBack(data.signers[i].derivation) /\ data.signers[i].version = v
           /\ data.signers[i].path = "none"
  PROVE  ReadFile(v, multisig_create_export_file(name, data))
           = [ok |-> TRUE, name |-> name, truncated |-> FALSE, data |-> data]
<1> DEFINE signers == data.signers
           N == Len(signers)
           nm == [name |-> name, truncated |-> FALSE]
           pol == <<data.threshold, N>>
           L == {Line("Name", nm), Line("Policy", pol), Line("Format", data.variant), Line("Sorted", FALSE),
                 Line("BlindingKey", data.blinding)}
           A == {SignerLines(signers[i])[1] : i \in 1..N}
           B == {SignerLines(signers[i])[2] : i \in 1..N}
           S == L \cup (A \cup B)
           head == FileHeader(name, data)
           tail == FlattenSeq([i \in DOMAIN signers |-> SignerLines(signers[i])])
<1>1. /\ signers \in Seq(ToSet(signers)) /\ data.variant \in Variants /\ data.sorted \in BOOLEAN
      /\ \A i \in DOMAIN signers : IsSigner(signers[i])
  BY Zenon DEF Registered, IsMultisig
<1>2. N \in Nat \ {0} /\ DOMAIN signers = 1..N
  <2>1. N \in Nat \ {0}
    BY SignersAssumption DEF Registered
  <2> QED BY <1>1, <2>1, LenProperties, Zenon
<1>3. pol[2] = N /\ pol[1] = data.threshold
  OBVIOUS
<1>4. \A i \in 1..N : Described(v, signers[i])
  BY <1>1, <1>2, Zenon DEF Described
<1> HIDE DEF signers, N, pol, nm
<1>5. /\ Line("Name", nm) \in S /\ Line("Policy", pol) \in S /\ Line("Format", data.variant) \in S
      /\ Line("Sorted", FALSE) \in S /\ Line("BlindingKey", data.blinding) \in S
  BY Zenon
<1>6. \A i \in 1..N : SignerLines(signers[i])[1] \in S /\ SignerLines(signers[i])[2] \in S
  BY Zenon
<1> HIDE DEF S, head, tail
<1>7. PICK seen : /\ {"Name", "Policy", "Format"} \subseteq seen
                  /\ After(v, S, head, HeaderState(seen, name, data))
  <2>1. AfterHeader(v, S, name, data)
    <3>1. HeaderLines(S, name, data)
      BY <1>5, Zenon DEF HeaderLines, nm, pol, N, signers
    <3> QED BY <3>1, HeaderRead, Zenon
  <2> QED BY <2>1, Zenon DEF AfterHeader, head
<1> DEFINE end == State(TRUE, seen \cup {"Derivation"}, nm, pol, signers[N].derivation, data.variant,
                        data.sorted, data.blinding, signers)
<1>8. After(v, S, head, State(TRUE, seen, nm, pol, "m", data.variant, data.sorted, data.blinding, <<>>))
  BY <1>7, Zenon DEF HeaderState, nm, pol, N, signers
<1>9. After(v, S, head \o tail, end)
  BY <1>1, <1>2, <1>3, <1>4, <1>6, <1>7, <1>8, SignersAfter, Zenon DEF tail, N
<1>10. ReadLines(v, multisig_create_export_file(name, data)) = end
  BY <1>9, Zenon DEF After, head, tail, FileHeader, multisig_create_export_file, signers
<1>11. /\ end.ok = TRUE /\ end.seen = seen \cup {"Derivation"} /\ end.data.signers = signers
       /\ end.policy = pol /\ end.name = nm /\ end.data.variant = data.variant
       /\ end.data.sorted = data.sorted /\ end.data.blinding = data.blinding
  BY DEF State
<1>12. nm.name = name /\ nm.truncated = FALSE
  BY DEF nm
<1>13. Mandatory \subseteq end.seen
  BY <1>7, <1>11 DEF Mandatory
<1> HIDE DEF end
<1>14. (end.ok /\ Mandatory \subseteq end.seen /\ Len(end.data.signers) = end.policy[2]) = TRUE
  BY <1>3, <1>11, <1>13 DEF N
<1>15. data = [variant |-> data.variant, sorted |-> data.sorted, blinding |-> data.blinding,
               threshold |-> data.threshold, signers |-> signers]
  BY Zenon DEF Registered, IsMultisig, signers
<1> QED BY <1>3, <1>10, <1>11, <1>12, <1>14, <1>15, Zenon DEF ReadFile

\* What has been read of the fields that are checked.
FieldsRead(ok, seen, variant, sorted, signers) ==
  /\ ok \in BOOLEAN /\ sorted \in BOOLEAN
  /\ "Format" \in seen => variant \in Variants
  /\ \E Q : signers \in Seq(Q) /\ \A signer \in Q : IsSigner(signer)

\* What can have been read of a file.
IsRead(s) ==
  \E ok, seen, name, policy, path, variant, sorted, blinding, signers :
    /\ FieldsRead(ok, seen, variant, sorted, signers)
    /\ s = State(ok, seen, name, policy, path, variant, sorted, blinding, signers)

\* The two ways to say so.
LEMMA StateIsRead ==
  ASSUME NEW ok, NEW seen, NEW name, NEW policy, NEW path, NEW variant, NEW sorted, NEW blinding,
         NEW signers, FieldsRead(ok, seen, variant, sorted, signers)
  PROVE  IsRead(State(ok, seen, name, policy, path, variant, sorted, blinding, signers))
BY Zenon DEF IsRead

\* Before the first line.
LEMMA NothingIsRead == IsRead(NothingRead)
<1> DEFINE n0 == [name |-> "", truncated |-> FALSE]
<1>1. NothingRead = State(TRUE, {}, n0, <<0, 0>>, "m", "GREEN", TRUE, "none", <<>>)
  BY DEF NothingRead, State
<1>2. "Format" \notin {}
  OBVIOUS
<1>3. FieldsRead(TRUE, {}, "GREEN", TRUE, <<>>)
  <2> DEFINE R == {}
  <2>1. <<>> \in Seq(R) /\ \A signer \in R : IsSigner(signer)
    OBVIOUS
  <2> HIDE DEF R
  <2>2. \E Q : <<>> \in Seq(Q) /\ \A signer \in Q : IsSigner(signer)
    BY <2>1, Zenon
  <2>3. TRUE \in BOOLEAN
    OBVIOUS
  <2> QED BY <1>2, <2>2, <2>3, Zenon DEF FieldsRead
<1> QED BY <1>1, <1>3, StateIsRead, Zenon

\* One line more.
LEMMA LineIsRead ==
  ASSUME NEW v, NEW s, IsRead(s), NEW line
  PROVE  IsRead(ReadLine(v, s, line))
<1>1. PICK ok, seen, name, policy, path, variant, sorted, blinding, signers :
        /\ FieldsRead(ok, seen, variant, sorted, signers)
        /\ s = State(ok, seen, name, policy, path, variant, sorted, blinding, signers)
  BY Zenon DEF IsRead
<1>2. CASE ~ok \/ ~AcceptsLine(s, line)
  <2>1. ReadsAs(v, State(ok, seen, name, policy, path, variant, sorted, blinding, signers), line,
                State(FALSE, seen, name, policy, path, variant, sorted, blinding, signers))
    <3>1. ~ok \/ ~AcceptsLine(State(ok, seen, name, policy, path, variant, sorted, blinding, signers), line)
      BY <1>1, <1>2, Zenon
    <3> QED BY <3>1, LineRefused, Zenon
  <2>2. FieldsRead(FALSE, seen, variant, sorted, signers)
    BY <1>1, Zenon DEF FieldsRead
  <2> QED BY <1>1, <2>1, <2>2, StateIsRead, Zenon DEF ReadsAs
<1>3. CASE ok /\ AcceptsLine(s, line)
  <2> DEFINE seen2 == IF line.field = "Signer" THEN seen ELSE seen \cup {line.field}
             name2 == IF line.field = "Name" THEN line.value ELSE name
             policy2 == IF line.field = "Policy" THEN line.value ELSE policy
             path2 == IF line.field = "Derivation" THEN line.value ELSE path
             variant2 == IF line.field = "Format" THEN line.value ELSE variant
             sorted2 == IF line.field = "Sorted" THEN line.value ELSE sorted
             blinding2 == IF line.field = "BlindingKey" THEN line.value ELSE blinding
             signer == ReadSigner(v, path, line.value)
             signers2 == IF line.field = "Signer" THEN Append(signers, signer) ELSE signers
  <2>0. ok = TRUE
    BY <1>1, <1>3, Zenon DEF FieldsRead
  <2>1. ReadsAs(v, State(TRUE, seen, name, policy, path, variant, sorted, blinding, signers), line,
                State(TRUE, seen2, name2, policy2, path2, variant2, sorted2, blinding2, signers2))
    <3>1. AcceptsLine(State(TRUE, seen, name, policy, path, variant, sorted, blinding, signers), line)
      BY <1>1, <1>3, <2>0, Zenon
    <3> QED BY <3>1, LineRead, Zenon
  <2>2. /\ line.field = "Format" => line.value \in Variants
        /\ line.field = "Sorted" => line.value \in BOOLEAN
    BY <1>3 DEF AcceptsLine
  <2>3. IsSigner(signer)
    BY DEF IsSigner, ReadSigner
  <2>4. PICK Q : signers \in Seq(Q) /\ \A e \in Q : IsSigner(e)
    BY <1>1, Zenon DEF FieldsRead
  <2> HIDE DEF signer
  <2>5. Append(signers, signer) \in Seq(Q \cup {signer}) /\ \A e \in Q \cup {signer} : IsSigner(e)
    BY <2>3, <2>4
  <2>6. \E R : signers2 \in Seq(R) /\ \A e \in R : IsSigner(e)
    BY <2>4, <2>5, Zenon
  <2>7. "Format" \in seen2 => variant2 \in Variants
    BY <1>1, <2>2 DEF FieldsRead
  <2>8. sorted2 \in BOOLEAN
    BY <1>1, <2>2, Zenon DEF FieldsRead
  <2> HIDE DEF seen2, name2, policy2, path2, variant2, sorted2, blinding2, signers2
  <2>9. FieldsRead(TRUE, seen2, variant2, sorted2, signers2)
    BY <2>6, <2>7, <2>8, Zenon DEF FieldsRead
  <2> QED BY <1>1, <2>0, <2>1, <2>9, StateIsRead, Zenon DEF ReadsAs
<1> QED BY <1>2, <1>3

\* A whole file.
LEMMA FileIsRead ==
  ASSUME NEW v, NEW file, Len(file) \in Nat
  PROVE  IsRead(ReadLines(v, file))
<1> DEFINE N == Len(file)
<1>1. N \in Nat
  OBVIOUS
<1> HIDE DEF N
<1>2. PICK f : Reads(f, v, file, N) /\ ReadLines(v, file) = f[N]
  BY <1>1, ReadLinesDef DEF N
<1> DEFINE T == {k \in 0..N : IsRead(f[k])}
<1>3. 0 \in T
  <2>1. 0 \in 0..N
    BY <1>1
  <2> QED BY <1>2, <2>1, NothingIsRead, Zenon DEF Reads
<1>4. ASSUME NEW k \in 1..N, k - 1 \in T PROVE k \in T
  <2>1. k \in 0..N
    BY <1>1
  <2>2. f[k] = ReadLine(v, f[k - 1], file[k])
    BY <1>2, Zenon DEF Reads
  <2> QED BY <1>4, <2>1, <2>2, LineIsRead, Zenon
<1>5. N \in T
  <2> HIDE DEF T
  <2>1. \A k \in 0..N : k \in T
    BY <1>1, <1>3, <1>4, Induction
  <2> QED BY <1>1, <2>1
<1> QED BY <1>2, <1>5, Zenon

\* Once a line is refused, so is the file.
LEMMA RefusedForGood ==
  ASSUME NEW v, NEW s, IsRead(s), NEW line, ~s.ok \/ ~AcceptsLine(s, line)
  PROVE  ~ReadLine(v, s, line).ok
<1>1. PICK ok, seen, name, policy, path, variant, sorted, blinding, signers :
        s = State(ok, seen, name, policy, path, variant, sorted, blinding, signers)
  BY Zenon DEF IsRead
<1>2. s.ok = ok
  BY <1>1 DEF State
<1>3. ReadsAs(v, State(ok, seen, name, policy, path, variant, sorted, blinding, signers), line,
              State(FALSE, seen, name, policy, path, variant, sorted, blinding, signers))
  <2>1. ~ok \/ ~AcceptsLine(State(ok, seen, name, policy, path, variant, sorted, blinding, signers), line)
    BY <1>1, <1>2, Zenon
  <2> QED BY <2>1, LineRefused, Zenon
<1>4. State(FALSE, seen, name, policy, path, variant, sorted, blinding, signers).ok = FALSE
  BY DEF State
<1> QED BY <1>1, <1>3, <1>4, Zenon DEF ReadsAs

\* A derivation that is not read, whatever has been read before.
LEMMA DerivationRefused ==
  ASSUME NEW s, NEW x, ~CanReadBack(x)
  PROVE  ~AcceptsLine(s, DerivationLine(x))
<1> DEFINE line == DerivationLine(x)
<1>1. line.field = "Derivation" /\ line.value = x /\ (x \in LongDerivations => line.long)
  BY DEF DerivationLine
<1> HIDE DEF line
<1>2. CASE x \in LongDerivations
  BY <1>1, <1>2, Zenon DEF AcceptsLine, line
<1>3. CASE x = "m"
  <2>1. ASSUME AcceptsLine(s, line) PROVE FALSE
    BY <1>1, <1>3, <2>1 DEF AcceptsLine
  <2> QED BY <2>1, Zenon DEF line
<1> QED BY <1>2, <1>3, Zenon DEF CanReadBack

\* The lines of a signer, after those of a file.
LEMMA SignerRefused ==
  ASSUME NEW v, NEW S, NEW file \in Seq(S), NEW signer,
         SignerLines(signer)[1] \in S, SignerLines(signer)[2] \in S,
         ~ReadLines(v, file).ok \/ ~CanReadBack(signer.derivation)
  PROVE  ~ReadLines(v, file \o SignerLines(signer)).ok
<1> DEFINE a == SignerLines(signer)[1]
           b == SignerLines(signer)[2]
           one == Append(file, a)
<1>1. SignerLines(signer) = <<a, b>> /\ a = DerivationLine(signer.derivation)
  BY DEF SignerLines
<1>2. ~CanReadBack(signer.derivation) => ~AcceptsLine(ReadLines(v, file), a)
  BY <1>1, DerivationRefused, Zenon
<1> HIDE DEF a, b
<1>3. /\ one \in Seq(S) /\ Len(file) \in Nat /\ Len(one) \in Nat
      /\ file \o <<a, b>> = Append(one, b)
  BY DEF a, b
<1> HIDE DEF one
<1>4. IsRead(ReadLines(v, file)) /\ IsRead(ReadLines(v, one))
  BY <1>3, FileIsRead, Zenon
<1>5. ReadLines(v, one) = ReadLine(v, ReadLines(v, file), a)
  BY ReadOneMore, Zenon DEF one, a
<1>6. ReadLines(v, Append(one, b)) = ReadLine(v, ReadLines(v, one), b)
  BY <1>3, ReadOneMore, Zenon DEF b
<1>7. ~ReadLines(v, one).ok
  BY <1>2, <1>4, <1>5, RefusedForGood, Zenon
<1>8. ~ReadLines(v, Append(one, b)).ok
  BY <1>4, <1>6, <1>7, RefusedForGood, Zenon
<1> QED BY <1>1, <1>3, <1>8, Zenon

\* All the signers, one of which has a derivation that is not read.
LEMMA SignersRefused ==
  ASSUME NEW v, NEW S, NEW head \in Seq(S), NEW Q, NEW signers \in Seq(Q), NEW N \in Nat \ {0},
         N = Len(signers), NEW bad \in 1..N, ~CanReadBack(signers[bad].derivation),
         \A i \in 1..N : SignerLines(signers[i])[1] \in S /\ SignerLines(signers[i])[2] \in S
  PROVE  ~ReadLines(v, head \o FlattenSeq([i \in DOMAIN signers |-> SignerLines(signers[i])])).ok
<1> DEFINE seqs == [i \in DOMAIN signers |-> SignerLines(signers[i])]
<1>1. Len(seqs) = N /\ \A i \in 1..N : seqs[i] = SignerLines(signers[i])
  <2>1. DOMAIN signers = 1..N
    BY LenProperties, Zenon
  <2>2. ASSUME NEW g, g = [i \in 1..N |-> SignerLines(signers[i])]
        PROVE  Len(g) = N /\ \A i \in 1..N : g[i] = SignerLines(signers[i])
    BY <2>2
  <2> QED BY <2>1, <2>2, Zenon
<1>2. \A i \in 1..N : SignerLines(signers[i]) \in Seq(S)
  BY DEF SignerLines
<1> HIDE DEF seqs
<1>3. PICK f : Joins(f, seqs, N) /\ FlattenSeq(seqs) = f[N]
  BY <1>1, FlattenJoins
<1> DEFINE T == {k \in 0..N : k = 0 \/ (f[k] \in Seq(S) /\ (bad <= k => ~ReadLines(v, head \o f[k]).ok))}
<1>4. 0 \in T
  OBVIOUS
<1>5. ASSUME NEW k \in 1..N, k - 1 \in T PROVE k \in T
  <2> DEFINE signer == signers[k]
  <2>1. /\ SignerLines(signer)[1] \in S /\ SignerLines(signer)[2] \in S /\ SignerLines(signer) \in Seq(S)
    BY <1>2, Zenon
  <2>2. bad = k => ~CanReadBack(signer.derivation)
    BY Zenon
  <2>3. k \in 0..N
    OBVIOUS
  <2> HIDE DEF signer
  <2>4. CASE k = 1
    <3>1. f[k] = SignerLines(signer)
      BY <1>1, <1>3, <2>4 DEF Joins, signer
    <3>2. bad <= k => bad = k
      BY <2>4
    <3>3. bad <= k => ~ReadLines(v, head \o SignerLines(signer)).ok
      BY <2>1, <2>2, <3>2, SignerRefused, Zenon
    <3> QED BY <2>1, <2>3, <3>1, <3>3, Zenon
  <2>5. CASE k # 1
    <3>1. k - 1 # 0 /\ k \in 2..N /\ (bad <= k => bad = k \/ bad <= k - 1)
      BY <2>5
    <3>2. f[k - 1] \in Seq(S) /\ (bad <= k - 1 => ~ReadLines(v, head \o f[k - 1]).ok)
      BY <1>5, <3>1, Zenon
    <3>3. f[k] = f[k - 1] \o SignerLines(signer)
      BY <1>1, <1>3, <3>1, Zenon DEF Joins, signer
    <3>4. head \o f[k - 1] \in Seq(S) /\ f[k - 1] \o SignerLines(signer) \in Seq(S)
      BY <2>1, <3>2
    <3>5. bad <= k => ~ReadLines(v, (head \o f[k - 1]) \o SignerLines(signer)).ok
      BY <2>1, <2>2, <3>1, <3>2, <3>4, SignerRefused, Zenon
    <3>6. (head \o f[k - 1]) \o SignerLines(signer) = head \o (f[k - 1] \o SignerLines(signer))
      <4> HIDE DEF T
      <4>1. \A a, b, c \in Seq(S) : (a \o b) \o c = a \o (b \o c)
        <5> TAKE a, b, c \in Seq(S)
        <5> QED OBVIOUS
      <4> QED BY <2>1, <3>2, <4>1, Zenon
    <3> QED BY <2>3, <3>3, <3>4, <3>5, <3>6, Zenon
  <2> QED BY <2>4, <2>5
<1>6. N \in T
  <2> HIDE DEF T
  <2>1. \A k \in 0..N : k \in T
    BY <1>4, <1>5, Induction
  <2> QED BY <2>1
<1>7. N # 0 /\ bad <= N
  OBVIOUS
<1>8. ~ReadLines(v, head \o f[N]).ok
  BY <1>6, <1>7, Zenon
<1> QED BY <1>3, <1>8, Zenon DEF seqs

\* A file with such a signer is refused.
LEMMA ExportRefused ==
  ASSUME NEW v, NEW name, NEW data, Registered(data), NEW bad \in DOMAIN data.signers,
         ~CanReadBack(data.signers[bad].derivation)
  PROVE  ~ReadFile(v, multisig_create_export_file(name, data)).ok
<1> DEFINE signers == data.signers
           N == Len(signers)
           head == FileHeader(name, data)
           tail == FlattenSeq([i \in DOMAIN signers |-> SignerLines(signers[i])])
           L == {Line("Name", [name |-> name, truncated |-> FALSE]), Line("Policy", <<data.threshold, N>>),
                 Line("Format", data.variant), Line("Sorted", FALSE), Line("BlindingKey", data.blinding)}
           A == {SignerLines(signers[i])[1] : i \in 1..N}
           B == {SignerLines(signers[i])[2] : i \in 1..N}
           S == L \cup (A \cup B)
<1>1. signers \in Seq(ToSet(signers)) /\ N \in Nat \ {0} /\ DOMAIN signers = 1..N
  <2>1. signers \in Seq(ToSet(signers))
    BY Zenon DEF Registered, IsMultisig
  <2>2. N \in Nat \ {0}
    BY SignersAssumption DEF Registered
  <2> QED BY <2>1, <2>2, LenProperties, Zenon
<1>2. \A i \in 1..N : SignerLines(signers[i])[1] \in S /\ SignerLines(signers[i])[2] \in S
  BY Zenon
<1>3. HeaderLines(S, name, data)
  BY Zenon DEF HeaderLines
<1>4. head \in Seq(S)
  BY <1>3, HeaderRead, Zenon DEF AfterHeader, After
<1> HIDE DEF S, head, tail
<1>5. ~ReadLines(v, head \o tail).ok
  BY <1>1, <1>2, <1>4, SignersRefused, Zenon DEF tail, N
<1>6. multisig_create_export_file(name, data) = head \o tail
  BY Zenon DEF head, tail, FileHeader, multisig_create_export_file, signers
<1> QED BY <1>5, <1>6, Zenon DEF ReadFile

\* The wallet that an accepted file describes.
LEMMA FileGivesMultisig ==
  ASSUME NEW v, NEW file, Len(file) \in Nat, ReadFile(v, file).ok
  PROVE  IsMultisig(ReadFile(v, file).data)
<1> DEFINE end == ReadLines(v, file)
           data == ReadFile(v, file).data
<1>1. IsRead(end)
  BY FileIsRead, Zenon
<1> HIDE DEF end
<1>2. /\ data = [variant |-> end.data.variant, sorted |-> end.data.sorted, blinding |-> end.data.blinding,
                 threshold |-> end.policy[1], signers |-> end.data.signers]
      /\ Mandatory \subseteq end.seen
  BY DEF ReadFile, end
<1>3. PICK ok, seen, name, policy, path, variant, sorted, blinding, signers :
        /\ FieldsRead(ok, seen, variant, sorted, signers)
        /\ end = State(ok, seen, name, policy, path, variant, sorted, blinding, signers)
  BY <1>1, Zenon DEF IsRead
<1>4. /\ end.seen = seen /\ end.data.variant = variant /\ end.data.sorted = sorted
      /\ end.data.signers = signers
  BY <1>3 DEF State
<1> HIDE DEF data
<1>5. /\ data.variant = variant /\ data.sorted = sorted /\ data.signers = signers
      /\ data = [variant |-> data.variant, sorted |-> data.sorted, blinding |-> data.blinding,
                 threshold |-> data.threshold, signers |-> data.signers]
  BY <1>2, <1>4
<1>6. variant \in Variants /\ sorted \in BOOLEAN
  BY <1>2, <1>3, <1>4 DEF FieldsRead, Mandatory
<1>7. PICK Q : signers \in Seq(Q) /\ \A e \in Q : IsSigner(e)
  BY <1>3, Zenon DEF FieldsRead
<1>8. signers \in Seq(ToSet(signers)) /\ \A i \in DOMAIN signers : IsSigner(signers[i])
  <2>1. \A i \in DOMAIN signers : signers[i] \in Q
    BY <1>7
  <2>2. \A i \in DOMAIN signers : signers[i] \in ToSet(signers)
    BY Zenon DEF ToSet
  <2>3. Len(signers) \in Nat /\ DOMAIN signers = 1..Len(signers) /\ signers \in [1..Len(signers) -> Q]
    BY <1>7, LenProperties, Zenon
  <2>4. signers \in [1..Len(signers) -> ToSet(signers)]
    BY <2>2, <2>3, Zenon
  <2> QED BY <1>7, <2>1, <2>3, <2>4
<1>9. IsMultisig(data)
  BY <1>5, <1>6, <1>8, Zenon DEF IsMultisig
<1> QED BY <1>9, Zenon DEF data

-----------------------------------------------------------------------------
\* Every multisig wallet in flash, from a message or from a file, has data that can be
\* exported.
MultisigInv ==
  \A n \in Names : records["multisig"][n] # None => Registered(records["multisig"][n].data)

\* A step that leaves the multisig wallets alone preserves it.
LEMMA MultisigsStay ==
  ASSUME MultisigInv, \A n \in Names : records'["multisig"][n] = records["multisig"][n]
  PROVE  MultisigInv'
BY Zenon DEF MultisigInv

\* Storing or deleting a record preserves it, if a multisig wallet is stored with such data.
LEMMA MultisigStored ==
  ASSUME RecordsInv, MultisigInv, NEW kind \in Kinds, NEW name, NEW v,
         records' = [records EXCEPT ![kind][name] = v],
         kind = "multisig" /\ v # None => Registered(v.data)
  PROVE  MultisigInv'
<1>1. Updated(records', records, kind, name, v)
  BY TablesOK, NamedUpdate
<1>2. "multisig" \in Kinds
  BY DEF Kinds
<1>3. ASSUME NEW n \in Names, records'["multisig"][n] # None
      PROVE  Registered(records'["multisig"][n].data)
  <2>1. records'["multisig"][n] = IF "multisig" = kind /\ n = name THEN v ELSE records["multisig"][n]
    BY <1>1, <1>2, Zenon DEF Updated
  <2> QED BY <1>3, <2>1, Zenon DEF MultisigInv
<1> QED BY <1>3, Zenon DEF MultisigInv

\* register_multisig, from a message or a file.
LEMMA MultisigRegistered ==
  ASSUME RecordsInv, MultisigInv, NEW name, NEW data, IsMultisig(data), register_multisig(name, data)
  PROVE  MultisigInv'
<1> DEFINE v == Registration(data)
<1>1. Registered(data)
  BY Zenon DEF register_multisig, validate_signers, Registered
<1>2. v.data = data
  BY DEF Registration
<1>3. "multisig" \in Kinds
  BY DEF Kinds
<1>4. records' = [records EXCEPT !["multisig"][name] = v] \/ records' = records
  BY Zenon DEF register_multisig, Register, Store
<1> HIDE DEF v
<1>5. CASE records' = [records EXCEPT !["multisig"][name] = v]
  BY <1>1, <1>2, <1>3, <1>5, MultisigStored
<1>6. CASE records' = records
  BY <1>6, MultisigsStay, Zenon
<1> QED BY <1>4, <1>5, <1>6

\* The table of the files read.
LEMMA FilesAreRead ==
  \A v \in {"main", "test"}, i \in DOMAIN Files : FilesRead[v][i] = ReadFile(v, Files[i])
<1> TAKE v \in {"main", "test"}, i \in DOMAIN Files
<1> QED BY Zenon DEF FilesRead

\* Every step of the device preserves it.
LEMMA MultisigStep ==
  ASSUME RecordsInv, MultisigInv, [Next]_vars
  PROVE  MultisigInv'
<1>0. "otp" \in Kinds /\ "descriptor" \in Kinds /\ "multisig" \in Kinds
  BY DEF Kinds
<1>1. ASSUME records' = records PROVE MultisigInv'
  BY <1>1, MultisigsStay, Zenon
<1>2. CASE register_multisig_process
  <2>1. CASE \E name \in Names, data \in Multisigs : register_multisig(name, data)
    BY <2>1, MultisigAssumption, MultisigRegistered, Zenon
  <2>2. ASSUME NEW i \in DOMAIN Files, FilesRead[XpubVersion(loaded)][i].ok,
               register_multisig(FilesRead[XpubVersion(loaded)][i].name,
                                 FilesRead[XpubVersion(loaded)][i].data)
        PROVE  MultisigInv'
    <3>1. FilesRead[XpubVersion(loaded)][i] = ReadFile(XpubVersion(loaded), Files[i])
      <4>1. XpubVersion(loaded) \in {"main", "test"}
        BY DEF XpubVersion
      <4> QED BY <4>1, FilesAreRead, Zenon
    <3>2. IsMultisig(FilesRead[XpubVersion(loaded)][i].data)
      BY <2>2, <3>1, FileAssumption, FileGivesMultisig, Zenon
    <3> QED BY <2>2, <3>2, MultisigRegistered, Zenon
  <2> QED BY <1>2, <2>1, <2>2, Zenon DEF register_multisig_process
<1>3. ASSUME NEW n \in Names, NEW d \in Descriptors, register_descriptor(n, d) PROVE MultisigInv'
  <2> DEFINE v == Registration(d)
  <2>1. records' = [records EXCEPT !["descriptor"][n] = v] \/ records' = records
    BY <1>3, Zenon DEF register_descriptor, Register, Store
  <2> HIDE DEF v
  <2>2. CASE records' = [records EXCEPT !["descriptor"][n] = v]
    BY <1>0, <2>2, MultisigStored
  <2> QED BY <1>1, <2>1, <2>2
<1>4. ASSUME NEW n \in Names, NEW k \in {"multisig", "descriptor"}, offer_delete_registered_wallet(k, n)
      PROVE  MultisigInv'
  <2>1. records' = [records EXCEPT ![k][n] = None] \/ records' = records
    BY <1>4, Zenon DEF offer_delete_registered_wallet
  <2>2. k \in Kinds
    BY DEF Kinds
  <2>3. CASE records' = [records EXCEPT ![k][n] = None]
    BY <2>2, <2>3, MultisigStored
  <2> QED BY <1>1, <2>1, <2>3
<1>5. ASSUME NEW n \in Names, NEW u \in Uris, handle_new_otp_uri(n, u) PROVE MultisigInv'
  <2> DEFINE v == [by |-> loaded, data |-> u]
  <2>1. records' = [records EXCEPT !["otp"][n] = v] \/ records' = records
    BY <1>5, Zenon DEF handle_new_otp_uri
  <2> HIDE DEF v
  <2>2. CASE records' = [records EXCEPT !["otp"][n] = v]
    BY <1>0, <2>2, MultisigStored
  <2> QED BY <1>1, <2>1, <2>2
<1>6. CASE EraseUri
  <2>1. records' = [records EXCEPT !["otp"][task.name] = None] \/ records' = records
    BY <1>6, Zenon DEF EraseUri
  <2>2. CASE records' = [records EXCEPT !["otp"][task.name] = None]
    BY <1>0, <2>2, MultisigStored
  <2> QED BY <1>1, <2>1, <2>2
<1>7. CASE FactoryReset
  <2>1. \A n \in Names : NoRecords["multisig"][n] = None
    BY <1>0 DEF NoRecords
  <2> QED BY <1>7, <2>1, Zenon DEF FactoryReset, MultisigInv
<1>8. CASE SetInitialCounter \/ EraseCounter \/ display_hotp_screen \/ Restart
  BY <1>1, <1>8, Zenon DEF SetInitialCounter, EraseCounter, display_hotp_screen, Restart
<1>9. ASSUME NEW n \in Names, delete_otp_record(n) \/ otp_set_default_value(n) PROVE MultisigInv'
  BY <1>1, <1>9, Zenon DEF delete_otp_record, otp_set_default_value
<1>10. ASSUME NEW w \in Wallets, Unlock(w) PROVE MultisigInv'
  BY <1>1, <1>10, Zenon DEF Unlock
<1>11. CASE UNCHANGED vars
  BY <1>1, <1>11, Zenon DEF vars
<1>12. CASE FactoryResetFails
  <2>1. \A n \in Names : records'["multisig"][n] = None
                        \/ records'["multisig"][n] = records["multisig"][n]
    BY <1>12, PartlyErased DEF Kinds
  <2> QED BY <1>1, <2>1, Zenon DEF MultisigInv
<1> QED BY <1>2, <1>3, <1>4, <1>5, <1>6, <1>7, <1>8, <1>9, <1>10, <1>11, <1>12, Zenon DEF Next

\* The file of an exported wallet reads back as the wallet, or is refused.
LEMMA ExportFromInv == MultisigInv => ExportRoundTrips
<1> SUFFICES ASSUME MultisigInv PROVE ExportRoundTrips
  OBVIOUS
<1>1. ASSUME NEW n \in Names, NEW record, record = records["multisig"][n],
             record # None, CanExport(record.data),
             \A i \in DOMAIN record.data.signers :
               record.data.signers[i].version = XpubVersion(record.by)
      PROVE  LET file == ReadFile(XpubVersion(record.by), multisig_create_export_file(n, record.data)) IN
             IF \A i \in DOMAIN record.data.signers : CanReadBack(record.data.signers[i].derivation)
             THEN file = [ok |-> TRUE, name |-> n, truncated |-> FALSE, data |-> record.data]
             ELSE ~file.ok
  <2> DEFINE data == record.data
             v == XpubVersion(record.by)
  <2>1. Registered(data)
    BY <1>1, Zenon DEF MultisigInv
  <2>2. \A i \in DOMAIN data.signers : data.signers[i].version = v /\ data.signers[i].path = "none"
    BY <1>1, Zenon DEF CanExport
  <2> HIDE DEF data, v
  <2>3. CASE \A i \in DOMAIN data.signers : CanReadBack(data.signers[i].derivation)
    <3>1. ReadFile(v, multisig_create_export_file(n, data))
            = [ok |-> TRUE, name |-> n, truncated |-> FALSE, data |-> data]
      BY <2>1, <2>2, <2>3, ExportReads, Zenon
    <3> QED BY <2>3, <3>1, Zenon DEF data, v
  <2>4. CASE ~(\A i \in DOMAIN data.signers : CanReadBack(data.signers[i].derivation))
    <3>1. PICK i \in DOMAIN data.signers : ~CanReadBack(data.signers[i].derivation)
      BY <2>4, Zenon
    <3>2. ~ReadFile(v, multisig_create_export_file(n, data)).ok
      BY <2>1, <3>1, ExportRefused, Zenon
    <3> QED BY <2>4, <3>2, Zenon DEF data, v
  <2> QED BY <2>3, <2>4, Zenon
<1> QED BY <1>1, Zenon DEF ExportRoundTrips

\* ExportRoundTrips holds: whatever wallet the device has registered, of any number of
\* signers, from a message or from any file it accepted, the file that
\* multisig_create_export_file writes of it is read by register_multisig_file as the
\* same name and the same data, or refused if it has a derivation that is not read back.
THEOREM ExportsReadBack == Spec => []ExportRoundTrips
<1>1. Init => MultisigInv
  <2> SUFFICES ASSUME Init PROVE MultisigInv
    OBVIOUS
  <2>1. \A n \in Names : records["multisig"][n] = None
    BY DEF Init, NoRecords, Kinds
  <2> QED BY <2>1, Zenon DEF MultisigInv
<1>2. RecordsInv /\ MultisigInv /\ [Next]_vars => MultisigInv'
  BY MultisigStep
<1>3. MultisigInv => ExportRoundTrips
  BY ExportFromInv
<1> QED BY <1>1, <1>2, <1>3, RecordsCorrect, PTL DEF Spec

=============================================================================
