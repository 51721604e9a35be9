--------------------------- MODULE Configuration ---------------------------
(***************************************************************************)
(* Where the accounts of a command come from: the configuration file that   *)
(* src/src/config/config.c reads, what main.c makes of a failure to read    *)
(* it, and how the account manager takes an account over from it.           *)
(* Operators only; an entry of the file is reduced to what the program      *)
(* decides on: its id, whether username and server are there, its transport *)
(* and whether it is enabled.                                               *)
(***************************************************************************)
EXTENDS Naturals, Sequences, SequencesExt

CONSTANTS
  MaxAccounts,  \* VU_MAX_ACCOUNTS, of the configuration and of the manager
  NoId          \* an "id" that is missing or empty, or an option not given

ASSUME MaxAccountsAssumption == MaxAccounts \in Nat \ {0}

\* A file at some path: it does not exist, cannot be read or parsed, or holds
\* an array of account entries.
FileKinds == {"missing", "broken", "accounts"}

\* What a file that names no transport, or an unknown one, means.
TransportFromString(str) == IF str \in {"tcp", "tls"} THEN str ELSE "udp"

\* parse_account: an entry without id, username or server is refused.
Parses(entry) == entry.id # NoId /\ entry.username /\ entry.server

ParseAccount(entry) ==
  [id |-> entry.id,
   transport |-> TransportFromString(entry.transport),
   enabled |-> entry.enabled]

AtMost(n, seq) == SubSeq(seq, 1, IF Len(seq) < n THEN Len(seq) ELSE n)

\* The entries that parse, in order; those beyond the limit are ignored.
ParseAccounts(entries) ==
  LET valid == SelectSeq(entries, Parses)
  IN  AtMost(MaxAccounts, [i \in DOMAIN valid |-> ParseAccount(valid[i])])

\* vu_config_load tries the path it was given, or else the default locations
\* in turn, and takes the first that exists.
FirstFile(files) ==
  LET there == SelectSeq(files, LAMBDA f : f.kind # "missing")
  IN  IF there = <<>> THEN [kind |-> "missing", entries |-> <<>>] ELSE Head(there)

\* The one path of the -c option, or else the default locations.
Explicit(files) == Len(files) = 1

Load(files) ==
  LET file == FirstFile(files)
  IN  [ok |-> file.kind = "accounts" \/ (file.kind = "missing" /\ ~Explicit(files)),
       accounts |-> IF file.kind = "accounts" THEN ParseAccounts(file.entries)
                    ELSE <<>>]

\* main gives up only on a file that was named on the command line.
Starts(files) == Load(files).ok \/ ~Explicit(files)

\* vu_account_add: a second account of the same id is refused.
AddAccount(accounts, acc) ==
  IF \/ \E i \in DOMAIN accounts : accounts[i].id = acc.id
     \/ Len(accounts) >= MaxAccounts
  THEN accounts
  ELSE Append(accounts, acc)

\* vu_config_find_account and vu_account_find: the first account of that id.
Found(accounts, id) == {i \in DOMAIN accounts : accounts[i].id = id}

IsFirst(accounts, id, i) ==
  i \in Found(accounts, id) /\ \A j \in Found(accounts, id) : i <= j

FirstFound(accounts, id) ==
  CHOOSE i \in Found(accounts, id) : IsFirst(accounts, id, i)
=============================================================================
