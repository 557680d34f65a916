------------------------------ MODULE Records ------------------------------
(***************************************************************************)
(* What a wallet registers with the device: multisig wallets, descriptor   *)
(* wallets and one-time passwords, each under a name in a namespace of its *)
(* own of the flash that all wallets share.  A record of a multisig or     *)
(* descriptor wallet ends with an HMAC, and one of a one-time password is  *)
(* encrypted, with a key of the wallet that was loaded: field "by" is that *)
(* wallet, and the record can be read with no other.                       *)
(*                                                                         *)
(* Every commit to flash is a step, may fail, and may be the last before   *)
(* power is lost.  The rest is done by the main task alone, so that an     *)
(* operation with one commit is one step, the answers of the user included.*)
(***************************************************************************)
EXTENDS MultisigFile, FiniteSets, Functions

CONSTANTS
  Wallets,       \* wallets that may be loaded
  TestWallets,   \* those restricted to test networks
  Names,         \* names of records
  Multisigs,     \* multisig wallets that register_multisig may carry
  Files,         \* a sequence of multisig files
  Descriptors,   \* descriptor wallets, each with the wallets it is valid for
  Uris,          \* one-time passwords: [type, counter]
  MaxRecords,    \* MAX_MULTISIG_REGISTRATIONS, MAX_DESCRIPTOR_REGISTRATIONS, OTP_MAX_RECORDS
  CounterMod,    \* 2^64, the values of a HOTP counter
  MaxCodes,      \* bound on the codes taken of one record
  MaxFaults,     \* bound on the commits that fail
  None

ASSUME WalletAssumption == TestWallets \subseteq Wallets
ASSUME LimitAssumption == MaxRecords \in Nat \ {0} /\ MaxFaults \in Nat
ASSUME CounterAssumption == CounterMod \in Nat \ {0} /\ MaxCodes \in 1..CounterMod
ASSUME UriAssumption ==
  \A u \in Uris : u.type \in {"HOTP", "TOTP"} /\ u.counter \in 0..CounterMod - 1
ASSUME MultisigAssumption == \A data \in Multisigs : IsMultisig(data)
ASSUME FileAssumption == \A i \in DOMAIN Files : Len(Files[i]) \in Nat
ASSUME NoneAssumption == None \notin Wallets /\ None \notin Nat

VARIABLES
  loaded,   \* the wallet in the keychain
  records,  \* MULTISIG_NAMESPACE, DESCRIPTOR_NAMESPACE and OTP_NAMESPACE
  hotpc,    \* HOTP_COUNTERS_NAMESPACE
  task,     \* an operation on a one-time password between two commits
  faults,   \* commits that have failed
  told,     \* history: the record a user was last told is stored, until the user replaces or deletes it
  \* history, since a one-time password was stored or its deletion was last asked for:
  codes,    \* how many codes were taken of it
  shown     \* the values of the codes shown of it

vars == <<loaded, records, hotpc, task, faults, told, codes, shown>>

Kinds == {"multisig", "descriptor", "otp"}
Idle == [pc |-> "idle", name |-> None, value |-> 0]

TypeOK ==
  /\ loaded \in Wallets \cup {None}
  /\ DOMAIN records = Kinds /\ DOMAIN told = Kinds
  /\ \A k \in Kinds, n \in Names :
       /\ records[k][n] # None => records[k][n].by \in Wallets
       /\ told[k][n] # None => told[k][n].by \in Wallets
  /\ hotpc \in [Names -> (0..CounterMod - 1) \cup {None}]
  /\ task.pc \in {"idle", "counter", "erase_counter", "erase_uri", "show"}
  /\ task.name \in Names \cup {None} /\ task.value \in 0..CounterMod - 1
  /\ faults \in 0..MaxFaults
  /\ codes \in [Names -> 0..MaxCodes] /\ shown \in [Names -> Seq(0..CounterMod - 1)]

NoRecords == [k \in Kinds |-> [n \in Names |-> None]]

Init ==
  /\ loaded = None
  /\ records = NoRecords /\ told = NoRecords
  /\ hotpc = [n \in Names |-> None]
  /\ task = Idle /\ faults = 0
  /\ codes = [n \in Names |-> 0] /\ shown = [n \in Names |-> <<>>]

Ready == loaded # None /\ task.pc = "idle"
CommitFails == faults < MaxFaults /\ faults' = faults + 1

-----------------------------------------------------------------------------
(* Multisig and descriptor wallets *)

Stored(kind) == {n \in Names : records[kind][n] # None}
HasSlot(kind, name) == name \in Stored(kind) \/ Cardinality(Stored(kind)) < MaxRecords

\* store_blob: the commit succeeds, and the user is told so, or it fails.
Store(kind, name, record) ==
  \/ /\ records' = [records EXCEPT ![kind][name] = record]
     /\ told' = [told EXCEPT ![kind][name] = record]
     /\ UNCHANGED faults
  \/ CommitFails /\ UNCHANGED <<records, told>>

\* Nothing is asked or stored if the same record is there; else the user has confirmed it.
Register(kind, name, record) ==
  /\ \/ /\ records[kind][name] = record
        /\ told' = [told EXCEPT ![kind][name] = record]
        /\ UNCHANGED <<records, faults>>
     \/ /\ records[kind][name] # record
        /\ HasSlot(kind, name)
        /\ Store(kind, name, record)
  /\ UNCHANGED <<loaded, hotpc, task, codes, shown>>

\* The loaded wallet is one of the signers, and no further path is hardened.
validate_signers(signers) ==
  /\ Len(signers) \in 1..MAX_ALLOWED_SIGNERS
  /\ \A i \in DOMAIN signers : signers[i].path # "hardened"
  /\ \E i \in DOMAIN signers :
       /\ signers[i].fingerprint = loaded
       /\ signers[i].key = <<loaded, signers[i].derivation>>

\* multisig_data_to_bytes: the record ends with an HMAC by the loaded wallet.
Registration(data) == [by |-> loaded, data |-> data]

register_multisig(name, data) ==
  /\ Ready
  /\ data.threshold \in 1..Len(data.signers)
  /\ validate_signers(data.signers)
  /\ Register("multisig", name, Registration(data))

XpubVersion(wallet) == IF wallet \in TestWallets THEN "test" ELSE "main"

\* What the device reads in the files of the host.
FilesRead == [v \in {"main", "test"} |-> [i \in DOMAIN Files |-> ReadFile(v, Files[i])]]

register_multisig_process ==
  \/ \E name \in Names, data \in Multisigs : register_multisig(name, data)
  \/ Ready /\ \E i \in DOMAIN Files :
       LET read == FilesRead[XpubVersion(loaded)][i] IN
       read.ok /\ register_multisig(read.name, read.data)

register_descriptor(name, data) ==
  /\ Ready /\ loaded \in data.valid_for
  /\ Register("descriptor", name, Registration(data))

\* The user deletes the record of any wallet.
offer_delete_registered_wallet(kind, name) ==
  /\ Ready /\ records[kind][name] # None
  /\ \/ /\ records' = [records EXCEPT ![kind][name] = None]
        /\ told' = [told EXCEPT ![kind][name] = None]
        /\ UNCHANGED faults
     \/ CommitFails /\ UNCHANGED <<records, told>>
  /\ UNCHANGED <<loaded, hotpc, task, codes, shown>>

-----------------------------------------------------------------------------
(* One-time passwords *)

\* handle_new_otp_uri until the uri is stored.  Whoever had the record under this name
\* has confirmed that it is replaced, even if it is not.
handle_new_otp_uri(name, uri) ==
  LET record == [by |-> loaded, data |-> uri] IN
  /\ Ready /\ HasSlot("otp", name)
  /\ \/ /\ records' = [records EXCEPT !["otp"][name] = record]
        /\ codes' = [codes EXCEPT ![name] = 0] /\ shown' = [shown EXCEPT ![name] = <<>>]
        /\ IF uri.type = "HOTP"
             THEN /\ task' = [pc |-> "counter", name |-> name, value |-> uri.counter]
                  /\ told' = [told EXCEPT !["otp"][name] = None]
             ELSE /\ task' = Idle
                  /\ told' = [told EXCEPT !["otp"][name] = record]
        /\ UNCHANGED faults
     \/ CommitFails /\ UNCHANGED <<records, task, told, codes, shown>>
  /\ UNCHANGED <<loaded, hotpc>>

\* A failure to store the counter is not noticed.
Mutant_counter_failure_ignored ==
  /\ task.pc = "counter"
  /\ \/ hotpc' = [hotpc EXCEPT ![task.name] = task.value] /\ UNCHANGED faults
     \/ CommitFails /\ UNCHANGED hotpc
  /\ told' = [told EXCEPT !["otp"][task.name] = records["otp"][task.name]]
  /\ task' = Idle
  /\ UNCHANGED <<loaded, records, codes, shown>>

\* The first value of the counter; without it the record is erased again.
SetInitialCounter ==
  /\ task.pc = "counter"
  /\ \/ /\ hotpc' = [hotpc EXCEPT ![task.name] = task.value]
        /\ told' = [told EXCEPT !["otp"][task.name] = records["otp"][task.name]]
        /\ task' = Idle
        /\ UNCHANGED faults
     \/ /\ CommitFails
        /\ task' = [task EXCEPT !.pc = "erase_counter"]
        /\ UNCHANGED <<hotpc, told>>
  /\ UNCHANGED <<loaded, records, codes, shown>>

\* delete_otp_record: the user deletes a record, after a code of it was shown, or because
\* it cannot be read.
delete_otp_record(name) ==
  /\ Ready /\ records["otp"][name] # None
  /\ task' = [pc |-> "erase_counter", name |-> name, value |-> 0]
  /\ told' = [told EXCEPT !["otp"][name] = None]
  /\ codes' = [codes EXCEPT ![name] = 0] /\ shown' = [shown EXCEPT ![name] = <<>>]
  /\ UNCHANGED <<loaded, records, hotpc, faults>>

\* storage_erase_otp: first the counter (a failure is ignored), then the uri.
EraseCounter ==
  /\ task.pc = "erase_counter"
  /\ \/ hotpc' = [hotpc EXCEPT ![task.name] = None] /\ UNCHANGED faults
     \/ CommitFails /\ UNCHANGED hotpc
  /\ task' = [task EXCEPT !.pc = "erase_uri"]
  /\ UNCHANGED <<loaded, records, told, codes, shown>>

EraseUri ==
  /\ task.pc = "erase_uri"
  /\ \/ records' = [records EXCEPT !["otp"][task.name] = None] /\ UNCHANGED faults
     \/ CommitFails /\ UNCHANGED records
  /\ task' = Idle
  /\ UNCHANGED <<loaded, hotpc, told, codes, shown>>

\* otp_load_uri: the record can be decrypted.
otp_load_uri(name) == records["otp"][name] # None /\ records["otp"][name].by = loaded

\* An absent counter reads 0.
HotpCounter(name) == IF hotpc[name] = None THEN 0 ELSE hotpc[name]

\* The host or the user asks for a code of a record that can be read: get_otp_code_process,
\* handle_view_otps.  A TOTP code is made from the time and changes nothing.
CodeAskedFor(name) ==
  /\ Ready /\ otp_load_uri(name) /\ records["otp"][name].data.type = "HOTP"
  /\ codes[name] < MaxCodes

\* The code is used although the next value could not be stored.
Mutant_code_without_commit(name) ==
  LET value == HotpCounter(name) IN
  /\ CodeAskedFor(name)
  /\ \/ /\ hotpc' = [hotpc EXCEPT ![name] = (value + 1) % CounterMod]
        /\ codes' = [codes EXCEPT ![name] = @ + 1]
        /\ UNCHANGED faults
     \/ CommitFails /\ UNCHANGED <<hotpc, codes>>
  /\ task' = [pc |-> "show", name |-> name, value |-> value]
  /\ UNCHANGED <<loaded, records, told, shown>>

\* The next value of the counter is stored before this one is used.
otp_set_default_value(name) ==
  LET value == HotpCounter(name) IN
  /\ CodeAskedFor(name)
  /\ \/ /\ hotpc' = [hotpc EXCEPT ![name] = (value + 1) % CounterMod]
        /\ task' = [pc |-> "show", name |-> name, value |-> value]
        /\ codes' = [codes EXCEPT ![name] = @ + 1]
        /\ UNCHANGED faults
     \/ CommitFails /\ UNCHANGED <<hotpc, task, codes>>
  /\ UNCHANGED <<loaded, records, told, shown>>

\* The code is on the screen; whether the user then sends it to the host does not matter here.
display_hotp_screen ==
  /\ task.pc = "show"
  /\ shown' = [shown EXCEPT ![task.name] = Append(@, task.value)]
  /\ task' = Idle
  /\ UNCHANGED <<loaded, records, hotpc, faults, told, codes>>

-----------------------------------------------------------------------------
(* The rest of the device *)

\* The keychain holds a wallet: Keychain has the detail.
Unlock(wallet) ==
  /\ task.pc = "idle" /\ loaded # wallet
  /\ loaded' = wallet
  /\ UNCHANGED <<records, hotpc, task, faults, told, codes, shown>>

\* Power is lost, or the device restarts.
Restart ==
  /\ loaded # None
  /\ loaded' = None /\ task' = Idle
  /\ UNCHANGED <<records, hotpc, faults, told, codes, shown>>

\* offer_jade_reset erases all of the flash, and restarts.
FactoryReset ==
  /\ task.pc = "idle"
  /\ loaded' = None
  /\ records' = NoRecords /\ told' = NoRecords
  /\ hotpc' = [n \in Names |-> None]
  /\ codes' = [n \in Names |-> 0] /\ shown' = [n \in Names |-> <<>>]
  /\ UNCHANGED <<task, faults>>

\* An erasure that fails may have got anywhere; the user is told, and the unit goes on.
\* What it promised of the records before no longer counts.
FactoryResetFails ==
  /\ task.pc = "idle" /\ CommitFails
  /\ \E erased \in SUBSET {p \in Kinds \X Names : records[p[1]][p[2]] # None} :
       records' = [k \in Kinds |-> [n \in Names |-> IF <<k, n>> \in erased THEN None ELSE records[k][n]]]
  /\ \E erased \in SUBSET {n \in Names : hotpc[n] # None} :
       hotpc' = [n \in Names |-> IF n \in erased THEN None ELSE hotpc[n]]
  /\ told' = NoRecords
  /\ codes' = [n \in Names |-> 0] /\ shown' = [n \in Names |-> <<>>]
  /\ UNCHANGED <<loaded, task>>

Next ==
  \/ register_multisig_process
  \/ \E n \in Names, d \in Descriptors : register_descriptor(n, d)
  \/ \E n \in Names, k \in {"multisig", "descriptor"} : offer_delete_registered_wallet(k, n)
  \/ \E n \in Names, u \in Uris : handle_new_otp_uri(n, u)
  \/ SetInitialCounter
  \/ \E n \in Names : delete_otp_record(n)
  \/ EraseCounter \/ EraseUri
  \/ \E n \in Names : otp_set_default_value(n)
  \/ display_hotp_screen
  \/ \E w \in Wallets : Unlock(w)
  \/ Restart \/ FactoryReset \/ FactoryResetFails

Spec == Init /\ [][Next]_vars

-----------------------------------------------------------------------------
(* Properties *)

\* What the user or the host was told is registered (register_multisig,
\* register_descriptor, handle_new_otp_uri) is in flash and belongs to the wallet that
\* registered it, and the HOTP counter stands where the codes taken so far have left it,
\* whatever fails or is interrupted after, until the user replaces or deletes that record.
RegisteredStays ==
  \A k \in Kinds, n \in Names :
    LET record == told[k][n] IN
    record # None =>
      /\ records[k][n] = record
      /\ k = "otp" /\ record.data.type = "HOTP" =>
           HotpCounter(n) = (record.data.counter + codes[n]) % CounterMod

\* No value of a HOTP counter is shown as a code twice (otp_set_default_value stores the
\* next one first), when power is lost before or after the screen, when commits fail, when
\* other wallets use the device, or when the counter wraps; until the record is registered
\* again or its deletion asked for.
CodesNeverRepeat == \A n \in Names : IsInjective(shown[n])

\* A derivation that register_multisig_file reads when the export has written it.
CanReadBack(derivation) == derivation # "m" /\ derivation \notin LongDerivations

\* A multisig wallet that the device exports is read back as the same record by
\* register_multisig_file, which then finds it identical and asks nothing, whether it was
\* registered from a file or from a message: if every signer has a derivation that the
\* reader admits, neither the master key's nor one too long for its buffer, although the
\* export writes both.  Otherwise the file is refused, and never read as another wallet.
\* The xpubs have to be those of the network the wallet is used on.
ExportRoundTrips ==
  \A n \in Names :
    LET record == records["multisig"][n]
        file == ReadFile(XpubVersion(record.by), multisig_create_export_file(n, record.data))
    IN
    /\ record # None
    /\ CanExport(record.data)
    /\ \A i \in DOMAIN record.data.signers : record.data.signers[i].version = XpubVersion(record.by)
    => IF \A i \in DOMAIN record.data.signers : CanReadBack(record.data.signers[i].derivation)
       THEN file = [ok |-> TRUE, name |-> n, truncated |-> FALSE, data |-> record.data]
       ELSE ~file.ok

=============================================================================
