----------------------------- MODULE Configuration -----------------------------
(***************************************************************************)
(* Which configuration a start of BloxMiner runs with (src/main.cpp,       *)
(* src/config_manager.cpp): the options, the file, the questions asked     *)
(* when there is neither, and the file they leave for the next start.      *)
(*                                                                         *)
(* A configuration is a function from settings to values.  Options and the *)
(* contents of a file are functions from the settings they name.  A port   *)
(* or a thread count is a number as it was typed; an address is a host and *)
(* a port, which may be missing ("none") or no number ("bad").             *)
(***************************************************************************)
EXTENDS Integers, Sequences

CONSTANTS
  CommandLines,  \* options typed: [wallet, pools, worker, password, threads, api, bind], some
  Contents,      \* what a user writes into a file
  Answers,       \* answers to the questions; a setting left out is an empty line
  Wallets, Hosts, Names,  \* values of wallet; of pools; of worker, password and bind
  Hostname,      \* gethostname()
  Cores,         \* hardware_concurrency(), zero if it cannot tell
  MaxThreads,    \* MinerStats::MAX_THREADS (256)
  UIntWords      \* values of a uint32_t (2^32)

ASSUME NumberAssumption ==
  /\ {Cores, MaxThreads, UIntWords} \subseteq Nat
  /\ Cores < UIntWords /\ MaxThreads < UIntWords /\ 4 < UIntWords

Paths == {"custom", "local", "global"}
Ports == 0 .. 65535
Missing == [exists |-> FALSE, valid |-> FALSE]
Invalid == [exists |-> TRUE, valid |-> FALSE]
Valid(content) == [exists |-> TRUE, valid |-> TRUE, content |-> content]

VARIABLES
  pc,          \* where main() is; "down" while no process runs
  files,       \* the three files
  options,     \* cli_config, the settings that were given
  custom,      \* -c was given
  tty,         \* stdin and stdout are a terminal
  config,      \* config
  loaded,      \* config_loaded
  saved        \* history: the configuration the local file was saved from

launch == <<options, custom, tty>>
vars == <<pc, files, launch, config, loaded, saved>>

NoWallet == ""
DefaultPool == [host |-> "pool.verus.io", port |-> 9999]
None == [wallet |-> NoWallet]  \* saved: no such configuration

(* The settings of f, and of g what f leaves open. *)
Over(f, g) ==
  [s \in DOMAIN f \union DOMAIN g |-> IF s \in DOMAIN f THEN f[s] ELSE g[s]]

(* MinerConfig *)
Defaults ==
  [wallet |-> NoWallet, pools |-> <<>>, worker |-> "bloxminer", password |-> "x",
   threads |-> 0, enabled |-> TRUE, apiPort |-> 4068, bind |-> "127.0.0.1",
   display |-> 10]

Typeable == {"wallet", "pools", "worker", "password", "threads", "api", "bind"}

(* The values a setting has in the miner, and those that may be typed for it.*)
SettingTypes ==
  [wallet |-> Wallets \union {NoWallet}, pools |-> Seq([host : Hosts, port : Ports]),
   worker |-> Names, password |-> Names, threads |-> 0 .. UIntWords - 1,
   enabled |-> BOOLEAN, apiPort |-> Ports, bind |-> Names, display |-> Nat]

Addresses == [host : Hosts, form : {"number"}, port : Int] \union [host : Hosts, form : {"none", "bad"}]

TypedTypes ==
  [s \in DOMAIN SettingTypes \union {"api", "pool"} |->
     CASE s = "pools" -> Seq(Addresses)
       [] s = "pool" -> Addresses
       [] s \in {"threads", "apiPort", "api"} -> Int
       [] OTHER -> SettingTypes[s]]

OfTypes(f, types) == \A s \in DOMAIN f : f[s] \in types[s]

ASSUME InputAssumption ==
  /\ \A typed \in CommandLines : DOMAIN typed \subseteq Typeable /\ OfTypes(typed, TypedTypes)
  /\ \A content \in Contents :
       DOMAIN content \subseteq DOMAIN Defaults /\ OfTypes(content, TypedTypes)
  /\ \A a \in Answers :
       /\ {"wallet"} \subseteq DOMAIN a /\ DOMAIN a \subseteq {"wallet", "pool", "worker", "threads"}
       /\ OfTypes(a, TypedTypes)
  /\ DefaultPool.host \in Hosts
  /\ {Hostname, Defaults.worker, Defaults.password, Defaults.bind} \subseteq Names

Init ==
  /\ pc = "down"
  /\ files \in [Paths -> {Missing, Invalid} \union {Valid(c) : c \in Contents}]
  /\ options = << >>
  /\ custom = FALSE
  /\ tty = FALSE
  /\ config = Defaults
  /\ loaded = FALSE
  /\ saved = None

-------------------------------------------------------------------------------
UInt32(n) == n % UIntWords

Pool(address, default) ==
  [host |-> address.host, port |-> IF address.form = "number" THEN address.port % 65536 ELSE default]

UncheckedPools(addresses) ==  \* mutant of OptionPools: a port is not cut to 16 bits
  [n \in DOMAIN addresses |->
     [host |-> addresses[n].host,
      port |-> IF addresses[n].form = "number" THEN addresses[n].port ELSE 3956]]

(* parse_pool(), for each --pool *)
OptionPools(addresses) == [n \in DOMAIN addresses |-> Pool(addresses[n], 3956)]

(* The options main() ends with an error for. *)
Refused(typed) ==
  \/ "pools" \in DOMAIN typed /\ \E n \in DOMAIN typed.pools : typed.pools[n].form = "bad"
  \/ "threads" \in DOMAIN typed /\ UInt32(typed.threads) > MaxThreads
  \/ "api" \in DOMAIN typed /\ typed.api \notin Ports

Given(setting, typed, value) == IF setting \in DOMAIN typed THEN value ELSE << >>

(* cli_config with its cli_..._set flags; --api-port sets two settings. *)
Parsed(typed) ==
  LET api == Given("api", typed, [enabled |-> typed.api # 0,
                                  apiPort |-> IF typed.api # 0 THEN typed.api ELSE Defaults.apiPort])
      pools == Given("pools", typed, [pools |-> OptionPools(typed.pools)])
      threads == Given("threads", typed, [threads |-> UInt32(typed.threads)])
      rest == [s \in DOMAIN typed \ {"api"} |-> typed[s]]
  IN  Over(api, Over(pools, Over(threads, rest)))

(* getopt_long() and the cases of its options. *)
Launch ==
  /\ pc = "down"
  /\ \E typed \in CommandLines, c, t \in BOOLEAN :
       /\ ~Refused(typed)
       /\ options' = Parsed(typed)
       /\ custom' = c
       /\ tty' = t
  /\ config' = Defaults
  /\ loaded' = FALSE
  /\ pc' = "load"
  /\ UNCHANGED <<files, saved>>

-------------------------------------------------------------------------------
(* load_config(): a file named with -c is the only one tried. *)
ConfigPath ==
  IF custom THEN "custom" ELSE IF files["local"].exists THEN "local" ELSE "global"

(* Worker and pools have defaults of their own when a file is read. *)
FileDefaults ==
  [Defaults EXCEPT !.worker = Hostname, !.pools = <<DefaultPool>>]

FilePools(addresses) == [n \in DOMAIN addresses |-> Pool(addresses[n], 9999)]

(* pool_json.value("port", 9999) throws if the port is no number. *)
Readable(content) ==
  "pools" \in DOMAIN content => \A n \in DOMAIN content.pools : content.pools[n].form # "bad"

(* The settings of a file: what it leaves out has its default. *)
ReadContent(content) ==
  LET read == Over(content, FileDefaults) IN
  [read EXCEPT
    !.threads = UInt32(@),
    !.apiPort = @ % 65536,
    !.pools = IF "pools" \in DOMAIN content /\ content.pools # << >>
                THEN FilePools(content.pools) ELSE <<DefaultPool>>]

(* "Error parsing config file" of any kind leaves no configuration. *)
Load ==
  /\ pc = "load"
  /\ loaded' = (files[ConfigPath].valid /\ Readable(files[ConfigPath].content))
  /\ config' = IF loaded' THEN ReadContent(files[ConfigPath].content) ELSE config
  /\ pc' = "merge"
  /\ UNCHANGED <<files, launch, saved>>

FileDecides == Over(config, options)  \* mutant of Merged: the file is put over the options

Merged == Over(options, config)

(* Steps 3 and 4 of main(): the options come over the file; questions are *)
(* asked if no file was loaded and there is no wallet.                    *)
Merge ==
  /\ pc = "merge"
  /\ config' = Merged
  /\ pc' = IF ~loaded /\ config'.wallet = NoWallet /\ tty THEN "setup" ELSE "start"
  /\ UNCHANGED <<files, launch, loaded, saved>>

-------------------------------------------------------------------------------
SetupPool(address) == Pool(address, DefaultPool.port)

UncappedThreads(n) == UInt32(n)  \* mutant of SetupThreads: the count is not capped

(* stoul(), the cast and the cap. *)
SetupThreads(n) == IF UInt32(n) > MaxThreads THEN MaxThreads ELSE UInt32(n)

(* interactive_setup(), from a configuration of its own: the question for *)
(* the wallet is repeated until it is answered.                           *)
Setup ==
  /\ pc = "setup"
  /\ \E a \in Answers :
       config' = [Defaults EXCEPT
         !.pools = <<IF "pool" \in DOMAIN a THEN SetupPool(a.pool) ELSE DefaultPool>>,
         !.worker = IF "worker" \in DOMAIN a THEN a.worker ELSE Hostname,
         !.wallet = a.wallet,
         !.threads = IF "threads" \in DOMAIN a THEN SetupThreads(a.threads) ELSE @]
  /\ pc' = "save"
  /\ UNCHANGED <<files, launch, loaded, saved>>

AsAddresses(pools) ==
  [n \in DOMAIN pools |-> [host |-> pools[n].host, form |-> "number", port |-> pools[n].port]]

ThreadsForgotten(c) ==  \* mutant of Content: the number of threads is not saved
  [s \in DOMAIN c \ {"display", "threads"} |-> IF s = "pools" THEN AsAddresses(c.pools) ELSE c[s]]

(* The JSON object save_config() builds; the display settings are not in it. *)
Content(c) ==
  [s \in DOMAIN c \ {"display"} |-> IF s = "pools" THEN AsAddresses(c.pools) ELSE c[s]]

(* save_config(), bloxminer.json whatever -c says; main() says it is saved. *)
Save ==
  /\ pc = "save"
  /\ files' = [files EXCEPT !["local"] = Valid(Content(config))]
  /\ saved' = config
  /\ pc' = "saved"
  /\ UNCHANGED <<launch, config, loaded>>

(* The answer is no, or the file cannot be created. *)
NotSaved ==
  /\ pc = "save"
  /\ pc' = "start"
  /\ UNCHANGED <<files, launch, config, loaded, saved>>

(* The disk is full: the file is truncated, nobody tests the stream after    *)
(* the write, and main() says it is saved all the same.                      *)
SaveFails ==
  /\ pc = "save"
  /\ files' = [files EXCEPT !["local"] = Invalid]
  /\ saved' = None
  /\ pc' = "saved"
  /\ UNCHANGED <<launch, config, loaded>>

(* The process is killed between the truncation of the file and the write. *)
KilledWhileSaving ==
  /\ pc = "save"
  /\ files' = [files EXCEPT !["local"] = Invalid]
  /\ saved' = None
  /\ pc' = "down"
  /\ UNCHANGED <<launch, config, loaded>>

-------------------------------------------------------------------------------
(* What is left open is filled in: the pool the settings pool_host and       *)
(* pool_port hold, which are the defaults when pools is empty, and as many   *)
(* threads as there are cores, or 4 (Miner::Miner()).                        *)
Completed(c) ==
  [c EXCEPT
    !.pools = IF @ = << >> THEN <<DefaultPool>> ELSE @,
    !.threads = IF @ # 0 THEN @ ELSE IF Cores # 0 THEN Cores ELSE 4]

Start ==
  /\ pc \in {"start", "saved"}
  /\ config.wallet # NoWallet
  /\ config' = Completed(config)
  /\ pc' = "running"
  /\ UNCHANGED <<files, launch, loaded, saved>>

NoWalletGiven ==
  /\ pc \in {"start", "saved"}
  /\ config.wallet = NoWallet
  /\ pc' = "down"
  /\ UNCHANGED <<files, launch, config, loaded, saved>>

Exit ==
  /\ pc = "running"
  /\ pc' = "down"
  /\ UNCHANGED <<files, launch, config, loaded, saved>>

(* The user writes, spoils or removes a file while no process runs. *)
Edit ==
  /\ pc = "down"
  /\ \E p \in Paths : \E f \in {Missing, Invalid} \union {Valid(c) : c \in Contents} :
       /\ files' = [files EXCEPT ![p] = f]
       /\ saved' = IF p = "local" THEN None ELSE saved
  /\ UNCHANGED <<pc, launch, config, loaded>>

Next ==
  \/ Launch
  \/ Load
  \/ Merge
  \/ Setup
  \/ Save
  \/ SaveFails
  \/ NotSaved
  \/ KilledWhileSaving
  \/ Start
  \/ NoWalletGiven
  \/ Exit
  \/ Edit

Spec == Init /\ [][Next]_vars

-------------------------------------------------------------------------------
TypeOK ==
  /\ pc \in {"down", "load", "merge", "setup", "save", "saved", "start", "running"}
  /\ DOMAIN files = Paths
  /\ \A p \in Paths : files[p].valid => OfTypes(files[p].content, TypedTypes)
  /\ DOMAIN options \subseteq DOMAIN Defaults /\ OfTypes(options, SettingTypes)
  /\ custom \in BOOLEAN /\ tty \in BOOLEAN /\ loaded \in BOOLEAN
  /\ config \in [wallet : Wallets \union {NoWallet}, pools : Seq([host : Hosts, port : Ports]),
                 worker : Names, password : Names, threads : 0 .. UIntWords - 1,
                 enabled : BOOLEAN, apiPort : Ports, bind : Names, display : Nat]
  /\ saved = None \/ DOMAIN saved = DOMAIN Defaults

(* The questions were asked and answered in this start: config.wallet is an *)
(* answer, no wallet having come from the options or a file.                *)
Asked == ~loaded /\ ("wallet" \notin DOMAIN options \/ options.wallet = NoWallet)

Overridden(s) == config[s] = Completed(Over(options, Defaults))[s]

(* "CLI takes precedence" (main.cpp:222): a setting given as an option is the *)
(* one the miner runs with, whatever a file says, unless the questions were   *)
(* asked.                                                                     *)
OptionsDecide ==
  pc = "running" /\ ~Asked => \A s \in DOMAIN options : Overridden(s)

(* ... and when they were asked too. *)
OptionsAlwaysDecide == pc = "running" => \A s \in DOMAIN options : Overridden(s)

(* A configuration that was entered and saved is the one a later start      *)
(* without options runs with, through the writing of the file, its reading  *)
(* with other defaults and the completion of what is left open.             *)
SavedRunsAgain ==
  pc = "running" /\ options = << >> /\ ~custom /\ saved # None => config = Completed(saved)

(* "Configuration saved to bloxminer.json" (main.cpp:251) is said of a       *)
(* configuration that is in the file.                                        *)
SaidIfSaved == pc = "saved" => files["local"] = Valid(Content(config))

(* A number of threads typed as an option or an answer fits the tables that *)
(* have an entry per thread (miner.hpp:21), thread_hashes first of all.     *)
TypedThreadsFit ==
  pc = "running" /\ (~loaded \/ "threads" \in DOMAIN options) => config.threads \in 1 .. MaxThreads

(* ... and one written into a file does.                                    *)
ThreadsFit == pc = "running" => config.threads \in 1 .. MaxThreads

(* "Interactive setup if no config file AND no wallet provided"             *)
(* (main.cpp:240): no file that could have been loaded is replaced.         *)
SetupNeedsNoFile == pc = "setup" => \A p \in {"local", "global"} : ~files[p].exists

-------------------------------------------------------------------------------
(* The inductive invariant, in parts. *)

IsConfig(c) == c = [s \in DOMAIN Defaults |-> c[s]]

(* What the questions may come to: one pool, whose port has been cut to 16   *)
(* bits, and the defaults of whatever nobody is asked for.                   *)
IsAnswered(c) ==
  /\ IsConfig(c)
  /\ c.pools = <<[host |-> c.pools[1].host, port |-> c.pools[1].port]>>
  /\ c.pools[1].port \in Ports
  /\ c.threads \in 0 .. MaxThreads
  /\ c.apiPort = Defaults.apiPort
  /\ c.display = Defaults.display

InputsTyped ==
  /\ DOMAIN options \subseteq DOMAIN Defaults
  /\ "threads" \in DOMAIN options => options.threads \in 0 .. MaxThreads
  /\ DOMAIN files = Paths
  /\ \A p \in Paths : files[p].valid => DOMAIN files[p].content \subseteq DOMAIN Defaults

(* What was saved is in the file that is read unless another is named. *)
SavedIsThere ==
  saved # None => IsAnswered(saved) /\ files["local"] = Valid(Content(saved))

(* The configuration a start without options should come to is the saved one.*)
Resumes == options = << >> /\ ~custom /\ saved # None

LoadedSoFar ==
  /\ pc # "down" => IsConfig(config)
  /\ pc = "load" => config = Defaults
  /\ pc = "merge" /\ ~loaded => config = Defaults
  /\ pc = "merge" /\ ~custom /\ saved # None => loaded /\ config = saved

(* The questions are asked when nothing was loaded, and so when nothing that *)
(* was saved was there.                                                      *)
AskedInOrder ==
  /\ pc \in {"setup", "save"} => Asked /\ (custom \/ saved = None)
  /\ pc = "save" => IsAnswered(config)

ReadyToStart ==
  pc \in {"start", "saved"} =>
    /\ ~Asked => \A s \in DOMAIN options : config[s] = options[s]
    /\ ~loaded \/ "threads" \in DOMAIN options => config.threads \in 0 .. MaxThreads
    /\ Resumes => config = saved

ThreadsChosen ==
  pc = "running" /\ (~loaded \/ "threads" \in DOMAIN options) =>
    config.threads \in (1 .. MaxThreads) \union ({Cores, 4} \ {0})

IInv ==
  /\ InputsTyped
  /\ SavedIsThere
  /\ LoadedSoFar
  /\ AskedInOrder
  /\ ReadyToStart
  /\ ThreadsChosen
  /\ OptionsDecide
  /\ SavedRunsAgain
===============================================================================
