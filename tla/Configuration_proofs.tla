------------------------- MODULE Configuration_proofs -------------------------
(***************************************************************************)
(* Configuration proved for any command lines, files and answers, and any  *)
(* number of starts.                                                       *)
(***************************************************************************)
EXTENDS Configuration, TLAPS

LEMMA OverDomain == ASSUME NEW f, NEW g PROVE DOMAIN Over(f, g) = DOMAIN f \union DOMAIN g
  BY DEF Over

LEMMA OverValue ==
  ASSUME NEW f, NEW g, NEW s \in DOMAIN f \union DOMAIN g
  PROVE Over(f, g)[s] = IF s \in DOMAIN f THEN f[s] ELSE g[s]
  BY DEF Over

LEMMA Settings ==
  DOMAIN Defaults = {"wallet", "pools", "worker", "password", "threads", "enabled",
                     "apiPort", "bind", "display"}
  BY DEF Defaults

LEMMA DefaultsAreConfig == IsConfig(Defaults)
  BY DEF IsConfig, Defaults

(* Options over a configuration give a configuration. *)
LEMMA OverIsConfig ==
  ASSUME NEW f, NEW c, IsConfig(c), DOMAIN f \subseteq DOMAIN Defaults
  PROVE IsConfig(Over(f, c))
  BY DEF Over, IsConfig

(* Completed() decides about a setting from that setting alone. *)
LEMMA CompletedAgree ==
  ASSUME NEW c, NEW d, IsConfig(c), IsConfig(d), NEW s \in DOMAIN Defaults, c[s] = d[s]
  PROVE Completed(c)[s] = Completed(d)[s]
  BY Settings DEF IsConfig, Completed

LEMMA CompletedIsConfig == ASSUME NEW c, IsConfig(c) PROVE IsConfig(Completed(c))
  BY Settings DEF IsConfig, Completed

LEMMA CompletedThreads ==
  ASSUME NEW c, IsConfig(c), c.threads \in 0 .. MaxThreads
  PROVE Completed(c).threads \in (1 .. MaxThreads) \union ({Cores, 4} \ {0})
<1>1. Completed(c).threads = IF c.threads # 0 THEN c.threads ELSE IF Cores # 0 THEN Cores ELSE 4
  BY Settings DEF IsConfig, Completed
<1> QED BY <1>1, NumberAssumption

LEMMA UInt32Fits == ASSUME NEW n \in Int PROVE UInt32(n) \in 0 .. UIntWords - 1
  BY NumberAssumption DEF UInt32

-------------------------------------------------------------------------------
(* What the assumption on the inputs says of the numbers in them. *)
LEMMA Inputs ==
  /\ \A typed \in CommandLines :
       DOMAIN typed \subseteq Typeable /\ ("threads" \in DOMAIN typed => typed.threads \in Int)
  /\ \A a \in Answers :
       /\ "threads" \in DOMAIN a => a.threads \in Int
       /\ "pool" \in DOMAIN a /\ a.pool.form = "number" => a.pool.port \in Int
<1>1. TypedTypes["threads"] = Int /\ TypedTypes["pool"] = Addresses
  BY DEF TypedTypes, SettingTypes
<1>2. \A address \in Addresses : address.form = "number" => address.port \in Int
  BY DEF Addresses
<1> QED
  BY <1>1, <1>2, InputAssumption DEF OfTypes

(* The options of a command line are settings, and a number of threads that  *)
(* main() has let pass fits.                                                 *)
LEMMA ParsedTyped ==
  ASSUME NEW typed \in CommandLines, ~Refused(typed)
  PROVE /\ DOMAIN Parsed(typed) \subseteq DOMAIN Defaults
        /\ "threads" \in DOMAIN Parsed(typed) => Parsed(typed).threads \in 0 .. MaxThreads
<1> DEFINE api == Given("api", typed, [enabled |-> typed.api # 0,
                                       apiPort |-> IF typed.api # 0 THEN typed.api ELSE Defaults.apiPort])
           pools == Given("pools", typed, [pools |-> OptionPools(typed.pools)])
           threads == Given("threads", typed, [threads |-> UInt32(typed.threads)])
           rest == [s \in DOMAIN typed \ {"api"} |-> typed[s]]
<1>1. DOMAIN typed \subseteq Typeable /\ ("threads" \in DOMAIN typed => typed.threads \in Int)
  BY Inputs
<1>2. DOMAIN api \subseteq {"enabled", "apiPort"}
  BY DEF Given
<1>3. DOMAIN pools \subseteq {"pools"}
  BY DEF Given
<1>4. DOMAIN threads = IF "threads" \in DOMAIN typed THEN {"threads"} ELSE {}
  BY DEF Given
<1>5. "threads" \in DOMAIN typed => threads["threads"] \in 0 .. MaxThreads
  <2> SUFFICES ASSUME "threads" \in DOMAIN typed PROVE UInt32(typed.threads) \in 0 .. MaxThreads
    BY DEF Given
  <2>1. UInt32(typed.threads) \in 0 .. UIntWords - 1
    BY <1>1, UInt32Fits
  <2>2. ~(UInt32(typed.threads) > MaxThreads)
    BY DEF Refused
  <2> QED BY <2>1, <2>2, NumberAssumption
<1>6. DOMAIN rest = DOMAIN typed \ {"api"}
  OBVIOUS
<1> DEFINE inner == Over(threads, rest)
           middle == Over(pools, inner)
<1>7. Parsed(typed) = Over(api, middle)
  BY DEF Parsed
<1>8. DOMAIN inner = DOMAIN threads \union DOMAIN rest
  BY OverDomain
<1>9. DOMAIN middle = DOMAIN pools \union DOMAIN inner
  BY OverDomain
<1>10. DOMAIN Parsed(typed) = DOMAIN api \union DOMAIN middle
  BY <1>7, OverDomain
<1> HIDE DEF api, pools, threads, rest, inner, middle
<1>11. DOMAIN Parsed(typed) \subseteq DOMAIN Defaults
  BY <1>1, <1>2, <1>3, <1>4, <1>6, <1>8, <1>9, <1>10, Settings DEF Typeable
<1>12. ASSUME "threads" \in DOMAIN Parsed(typed)
       PROVE Parsed(typed)["threads"] \in 0 .. MaxThreads
  <2>1. "threads" \in DOMAIN typed /\ "threads" \in DOMAIN middle /\ "threads" \notin DOMAIN api
    BY <1>2, <1>3, <1>4, <1>6, <1>8, <1>9, <1>10, <1>12
  <2>2. "threads" \in DOMAIN threads /\ "threads" \in DOMAIN inner /\ "threads" \notin DOMAIN pools
    BY <2>1, <1>3, <1>4, <1>8
  <2>3. Parsed(typed)["threads"] = middle["threads"]
    BY <2>1, <1>7, OverValue
  <2>4. middle["threads"] = inner["threads"]
    BY <2>2, OverValue DEF middle
  <2>5. inner["threads"] = threads["threads"]
    BY <2>2, OverValue DEF inner
  <2> QED BY <2>1, <2>3, <2>4, <2>5, <1>5
<1> QED BY <1>11, <1>12

LEMMA PortIsCut == ASSUME NEW n \in Int PROVE n % 65536 \in Ports
<1>1. n % 65536 \in Int /\ 0 =< n % 65536 /\ n % 65536 =< 65535
  OBVIOUS
<1> QED BY <1>1 DEF Ports

LEMMA PortFits == ASSUME NEW n \in Ports PROVE n % 65536 = n
<1>1. n \in Int /\ 0 =< n /\ n < 65536
  BY DEF Ports
<1> QED BY <1>1

(* ReadContent() converts three of the settings. *)
Converted(c, x, y, z) == [c EXCEPT !.threads = x, !.apiPort = y, !.pools = z]

LEMMA ConvertedThree ==
  ASSUME NEW c, IsConfig(c), NEW x, NEW y, NEW z
  PROVE LET d == Converted(c, x, y, z) IN
        /\ IsConfig(d)
        /\ d["threads"] = x /\ d["apiPort"] = y /\ d["pools"] = z
        /\ \A s \in DOMAIN Defaults \ {"threads", "apiPort", "pools"} : d[s] = c[s]
<1> DEFINE d == Converted(c, x, y, z)
<1>1. DOMAIN c = DOMAIN Defaults
  BY DEF IsConfig
<1>2. d = [s \in DOMAIN Defaults |-> IF s = "pools" THEN z ELSE IF s = "apiPort" THEN y
                                    ELSE IF s = "threads" THEN x ELSE c[s]]
  BY <1>1, Settings DEF IsConfig, Converted
<1> HIDE DEF d
<1>3. /\ IsConfig(d)
      /\ d["threads"] = x /\ d["apiPort"] = y /\ d["pools"] = z
      /\ \A s \in DOMAIN Defaults \ {"threads", "apiPort", "pools"} : d[s] = c[s]
  BY <1>2, Settings DEF IsConfig
<1> QED BY <1>3 DEF d

LEMMA ReadIsConfig ==
  ASSUME NEW content, DOMAIN content \subseteq DOMAIN Defaults PROVE IsConfig(ReadContent(content))
<1> DEFINE read == Over(content, FileDefaults)
           x == UInt32(read.threads)
           y == read.apiPort % 65536
           z == IF "pools" \in DOMAIN content /\ content.pools # << >>
                  THEN FilePools(content.pools) ELSE <<DefaultPool>>
<1>1. IsConfig(FileDefaults)
  BY Settings, DefaultsAreConfig DEF FileDefaults, IsConfig
<1>2. IsConfig(read)
  BY <1>1, OverIsConfig
<1>3. ReadContent(content) = Converted(read, x, y, z)
  BY DEF ReadContent, Converted
<1> HIDE DEF read, x, y, z
<1> QED BY <1>2, <1>3, ConvertedThree

(* A configuration that the questions have led to survives its writing into  *)
(* the file and its reading, which has other defaults.                       *)
LEMMA ReadsBack == ASSUME NEW c, IsAnswered(c) PROVE ReadContent(Content(c)) = c
<1> DEFINE content == Content(c)
           read == Over(content, FileDefaults)
           back == ReadContent(content)
           pool == [host |-> c.pools[1].host, port |-> c.pools[1].port]
<1>1. IsConfig(c) /\ c.pools = <<pool>> /\ pool.port \in Ports
  BY DEF IsAnswered
<1>2. DOMAIN c = DOMAIN Defaults
  BY <1>1 DEF IsConfig
<1>3. DOMAIN content = DOMAIN Defaults \ {"display"}
  BY <1>2 DEF Content
<1>4. content.pools = <<[host |-> pool.host, form |-> "number", port |-> pool.port]>>
  <2>1. content.pools = AsAddresses(c.pools)
    BY <1>2, Settings DEF Content
  <2>2. AsAddresses(<<pool>>) = <<[host |-> pool.host, form |-> "number", port |-> pool.port]>>
    BY DEF AsAddresses
  <2> QED BY <1>1, <2>1, <2>2
<1>5. \A s \in DOMAIN Defaults \ {"display", "pools"} : content[s] = c[s]
  BY <1>2 DEF Content
<1>6. IsConfig(FileDefaults) /\ FileDefaults.display = Defaults.display
  BY Settings, DefaultsAreConfig DEF FileDefaults, IsConfig
<1>7. IsConfig(read)
  BY <1>3, <1>6, OverIsConfig
<1>8. \A s \in DOMAIN Defaults \ {"display", "pools"} : read[s] = c[s]
  BY <1>3, <1>5, OverValue
<1>9. read["display"] = Defaults.display
  BY <1>3, <1>6, OverValue, Settings DEF IsConfig
<1>10. FilePools(content.pools) = <<pool>>
  <2> DEFINE address == [host |-> pool.host, form |-> "number", port |-> pool.port]
  <2>1. pool.port % 65536 = pool.port
    BY <1>1, PortFits
  <2>2. address.host = pool.host /\ address.form = "number" /\ address.port = pool.port
    OBVIOUS
  <2>3. Pool(address, 9999) = [host |-> pool.host, port |-> pool.port]
    BY <2>1, <2>2 DEF Pool
  <2>4. FilePools(<<address>>) = <<Pool(address, 9999)>>
    BY DEF FilePools
  <2> QED BY <2>3, <2>4, <1>4
<1>11. "pools" \in DOMAIN content /\ content.pools # << >>
  BY <1>3, <1>4, Settings
<1> DEFINE x == UInt32(read.threads)
           y == read.apiPort % 65536
<1>12. back = Converted(read, x, y, <<pool>>)
  BY <1>10, <1>11 DEF ReadContent, Converted
<1> HIDE DEF content, read, back, pool
<1>13. read.threads = c.threads /\ read.apiPort = c.apiPort
  BY <1>8, Settings
<1>14. x = c.threads
  BY <1>13, NumberAssumption DEF IsAnswered, UInt32
<1>15. y = c.apiPort
  <2>1. c.apiPort = 4068
    BY DEF IsAnswered, Defaults
  <2>2. 4068 % 65536 = 4068
    OBVIOUS
  <2> QED BY <1>13, <2>1, <2>2
<1> HIDE DEF x, y
<1>16. /\ IsConfig(back)
       /\ back["threads"] = x /\ back["apiPort"] = y /\ back["pools"] = <<pool>>
       /\ \A s \in DOMAIN Defaults \ {"threads", "apiPort", "pools"} : back[s] = read[s]
  BY <1>7, <1>12, ConvertedThree
<1>17. back["display"] = c.display
  BY <1>9, <1>16, Settings DEF IsAnswered
<1>18. \A s \in DOMAIN Defaults : back[s] = c[s]
  <2> SUFFICES ASSUME NEW s \in DOMAIN Defaults PROVE back[s] = c[s]
    OBVIOUS
  <2>1. CASE s \in {"threads", "apiPort", "pools", "display"}
    BY <2>1, <1>1, <1>14, <1>15, <1>16, <1>17
  <2>2. CASE s \notin {"threads", "apiPort", "pools", "display"}
    BY <2>2, <1>8, <1>16
  <2> QED BY <2>1, <2>2
<1> QED BY <1>1, <1>16, <1>18 DEF IsConfig, back, content

LEMMA SavedReadable == ASSUME NEW c, IsAnswered(c) PROVE Readable(Content(c))
<1>1. c.pools = <<[host |-> c.pools[1].host, port |-> c.pools[1].port]>> /\ DOMAIN c = DOMAIN Defaults
  BY DEF IsAnswered, IsConfig
<1>2. Content(c).pools = AsAddresses(c.pools)
  BY <1>1, Settings DEF Content
<1>3. \A n \in DOMAIN Content(c).pools : Content(c).pools[n].form = "number"
  BY <1>2 DEF AsAddresses
<1> QED BY <1>3 DEF Readable

(* interactive_setup() sets four of the settings. *)
Answered(c, pool, worker, wallet, threads) ==
  [c EXCEPT !.pools = <<pool>>, !.worker = worker, !.wallet = wallet, !.threads = threads]

LEMMA AnsweredFour ==
  ASSUME NEW c, IsConfig(c), NEW p, NEW w, NEW a, NEW t
  PROVE LET d == Answered(c, p, w, a, t) IN
        /\ IsConfig(d)
        /\ d["pools"] = <<p>> /\ d["threads"] = t
        /\ \A s \in DOMAIN Defaults \ {"pools", "worker", "wallet", "threads"} : d[s] = c[s]
<1> DEFINE d == Answered(c, p, w, a, t)
<1>1. DOMAIN c = DOMAIN Defaults
  BY DEF IsConfig
<1>2. d = [s \in DOMAIN Defaults |-> IF s = "threads" THEN t ELSE IF s = "wallet" THEN a
             ELSE IF s = "worker" THEN w ELSE IF s = "pools" THEN <<p>> ELSE c[s]]
  BY <1>1, Settings DEF IsConfig, Answered
<1> HIDE DEF d
<1>3. /\ IsConfig(d)
      /\ d["pools"] = <<p>> /\ d["threads"] = t
      /\ \A s \in DOMAIN Defaults \ {"pools", "worker", "wallet", "threads"} : d[s] = c[s]
  BY <1>2, Settings DEF IsConfig
<1> QED BY <1>3 DEF d

(* Whatever is answered, the questions lead to a configuration of the kind   *)
(* that survives.                                                            *)
LEMMA SetupAnswered ==
  ASSUME Setup PROVE IsAnswered(config')
<1>1. PICK a \in Answers :
       config' = [Defaults EXCEPT
         !.pools = <<IF "pool" \in DOMAIN a THEN SetupPool(a.pool) ELSE DefaultPool>>,
         !.worker = IF "worker" \in DOMAIN a THEN a.worker ELSE Hostname,
         !.wallet = a.wallet,
         !.threads = IF "threads" \in DOMAIN a THEN SetupThreads(a.threads) ELSE @]
  BY DEF Setup
<1> DEFINE pool == IF "pool" \in DOMAIN a THEN SetupPool(a.pool) ELSE DefaultPool
           worker == IF "worker" \in DOMAIN a THEN a.worker ELSE Hostname
           threads == IF "threads" \in DOMAIN a THEN SetupThreads(a.threads) ELSE 0
<1>2. pool = [host |-> pool.host, port |-> pool.port] /\ pool.port \in Ports
  <2>1. CASE "pool" \notin DOMAIN a
    BY <2>1 DEF DefaultPool, Ports
  <2>2. CASE "pool" \in DOMAIN a
    <3>1. pool = Pool(a.pool, 9999)
      BY <2>2 DEF SetupPool, DefaultPool
    <3>2. a.pool.form = "number" => a.pool.port \in Int
      BY <2>2, Inputs
    <3>3. CASE a.pool.form = "number"
      <4>1. PICK n \in Int : n = a.pool.port
        BY <3>2, <3>3
      <4>2. n % 65536 \in Ports
        BY PortIsCut
      <4>3. Pool(a.pool, 9999) = [host |-> a.pool.host, port |-> n % 65536]
        BY <3>3, <4>1 DEF Pool
      <4> QED BY <2>2, <3>1, <4>2, <4>3
    <3>4. CASE a.pool.form # "number"
      <4>1. 9999 \in Ports
        BY DEF Ports
      <4>2. Pool(a.pool, 9999) = [host |-> a.pool.host, port |-> 9999]
        BY <3>4 DEF Pool
      <4> QED BY <2>2, <3>1, <4>1, <4>2
    <3> QED BY <3>3, <3>4
  <2> QED BY <2>1, <2>2
<1>3. threads \in 0 .. MaxThreads
  <2>1. CASE "threads" \notin DOMAIN a
    BY <2>1, NumberAssumption
  <2>2. CASE "threads" \in DOMAIN a
    <3>1. UInt32(a.threads) \in 0 .. UIntWords - 1
      BY <2>2, Inputs, UInt32Fits
    <3> QED BY <2>2, <3>1, NumberAssumption DEF SetupThreads
  <2> QED BY <2>1, <2>2
<1>4. config' = Answered(Defaults, pool, worker, a.wallet, threads)
  BY <1>1 DEF Answered, Defaults
<1> HIDE DEF pool, worker, threads
<1>5. /\ IsConfig(config')
      /\ config'["pools"] = <<pool>> /\ config'["threads"] = threads
      /\ \A s \in DOMAIN Defaults \ {"pools", "worker", "wallet", "threads"} :
           config'[s] = Defaults[s]
  BY <1>4, AnsweredFour, DefaultsAreConfig
<1>6. config'.apiPort = Defaults.apiPort /\ config'.display = Defaults.display
  BY <1>5, Settings
<1>7. config'.pools[1] = pool
  BY <1>5
<1> QED BY <1>2, <1>3, <1>5, <1>6, <1>7 DEF IsAnswered

-------------------------------------------------------------------------------
LEMMA InitHolds == Init => IInv
<1> SUFFICES ASSUME Init PROVE IInv
  OBVIOUS
<1>1. InputsTyped
  <2>1. \A p \in Paths : files[p].valid => DOMAIN files[p].content \subseteq DOMAIN Defaults
    <3> SUFFICES ASSUME NEW p \in Paths, files[p].valid
                 PROVE DOMAIN files[p].content \subseteq DOMAIN Defaults
      OBVIOUS
    <3>1. PICK c \in Contents : files[p] = Valid(c)
      BY DEF Init, Missing, Invalid
    <3> QED BY <3>1, InputAssumption DEF Valid
  <2> QED BY <2>1 DEF Init, InputsTyped
<1> QED BY <1>1 DEF Init, IInv, SavedIsThere, LoadedSoFar, AskedInOrder, ReadyToStart,
                    ThreadsChosen, OptionsDecide, SavedRunsAgain

(* A start begins with the options that main() lets pass. *)
LEMMA LaunchKeeps == IInv /\ Launch => IInv'
<1> SUFFICES ASSUME IInv, Launch PROVE IInv'
  OBVIOUS
<1> USE DEF IInv, Launch
<1>1. InputsTyped'
  BY ParsedTyped DEF InputsTyped
<1>2. SavedIsThere'
  BY DEF SavedIsThere
<1>3. LoadedSoFar'
  BY DefaultsAreConfig DEF LoadedSoFar
<1> QED BY <1>1, <1>2, <1>3 DEF AskedInOrder, ReadyToStart, ThreadsChosen, OptionsDecide,
                                SavedRunsAgain

(* The file is read: it is a configuration, and the saved one if it is there.*)
LEMMA LoadKeeps == IInv /\ Load => IInv'
<1> SUFFICES ASSUME IInv, Load PROVE IInv'
  OBVIOUS
<1> USE DEF IInv, Load
<1>1. InputsTyped'
  BY DEF InputsTyped, launch
<1>2. SavedIsThere'
  BY DEF SavedIsThere
<1>3. ConfigPath \in Paths
  BY DEF ConfigPath, Paths
<1>4. IsConfig(config')
  <2>1. CASE loaded'
    BY <2>1, <1>3, ReadIsConfig DEF InputsTyped
  <2>2. CASE ~loaded'
    BY <2>2, DefaultsAreConfig DEF LoadedSoFar
  <2> QED BY <2>1, <2>2
<1>5. ~loaded' => config' = Defaults
  BY DEF LoadedSoFar
<1>6. ~custom /\ saved # None => loaded' /\ config' = saved
  <2> SUFFICES ASSUME ~custom, saved # None PROVE loaded' /\ config' = saved
    OBVIOUS
  <2>1. IsAnswered(saved) /\ files["local"] = Valid(Content(saved))
    BY DEF SavedIsThere
  <2>2. /\ files["local"].exists /\ files["local"].valid
        /\ files["local"].content = Content(saved)
    BY <2>1 DEF Valid
  <2>3. ConfigPath = "local"
    BY <2>2 DEF ConfigPath
  <2>4. ReadContent(Content(saved)) = saved
    BY <2>1, ReadsBack
  <2>5. Readable(Content(saved))
    BY <2>1, SavedReadable
  <2> QED BY <2>2, <2>3, <2>4, <2>5
<1>7. LoadedSoFar'
  BY <1>4, <1>5, <1>6 DEF LoadedSoFar, launch
<1> QED BY <1>1, <1>2, <1>7 DEF AskedInOrder, ReadyToStart, ThreadsChosen, OptionsDecide,
                                SavedRunsAgain

(* The options come over what was loaded. *)
LEMMA MergeKeeps == IInv /\ Merge => IInv'
<1> SUFFICES ASSUME IInv, Merge PROVE IInv'
  OBVIOUS
<1> USE DEF IInv, Merge, launch
<1>1. InputsTyped'
  BY DEF InputsTyped
<1>2. SavedIsThere'
  BY DEF SavedIsThere
<1>3. IsConfig(config) /\ DOMAIN config = DOMAIN Defaults
  BY DEF LoadedSoFar, IsConfig
<1>4. IsConfig(config')
  BY <1>3, OverIsConfig DEF InputsTyped, Merged
<1>5. \A s \in DOMAIN options : config'[s] = options[s]
  BY OverValue DEF Merged
<1>6. LoadedSoFar'
  BY <1>4 DEF LoadedSoFar
<1>7. pc' = "setup" => Asked' /\ (custom' \/ saved' = None)
  <2> SUFFICES ASSUME pc' = "setup" PROVE Asked' /\ (custom' \/ saved' = None)
    OBVIOUS
  <2>1. ~loaded /\ config'.wallet = NoWallet
    OBVIOUS
  <2>2. "wallet" \in DOMAIN options => options["wallet"] = NoWallet
    BY <2>1, <1>5
  <2> QED BY <2>1, <2>2 DEF Asked, LoadedSoFar
<1>8. AskedInOrder'
  BY <1>7 DEF AskedInOrder
<1>9. ~loaded \/ "threads" \in DOMAIN options => config'["threads"] \in 0 .. MaxThreads
  <2>1. CASE "threads" \in DOMAIN options
    BY <2>1, <1>5 DEF InputsTyped
  <2>2. CASE "threads" \notin DOMAIN options /\ ~loaded
    <3>1. config = Defaults
      BY <2>2 DEF LoadedSoFar
    <3>2. config'["threads"] = Defaults["threads"]
      BY <2>2, <3>1, OverValue, Settings DEF Merged
    <3> QED BY <3>2, NumberAssumption DEF Defaults
  <2> QED BY <2>1, <2>2
<1>10. Resumes => config' = saved
  <2> SUFFICES ASSUME Resumes PROVE config' = saved
    OBVIOUS
  <2>1. config = saved /\ options = << >>
    BY DEF Resumes, LoadedSoFar
  <2>2. \A s \in DOMAIN Defaults : config'[s] = config[s]
    BY <2>1, <1>3, OverValue DEF Merged
  <2> QED BY <2>1, <2>2, <1>3, <1>4 DEF IsConfig
<1>11. ReadyToStart'
  BY <1>5, <1>9, <1>10 DEF ReadyToStart, Resumes
<1> QED BY <1>1, <1>2, <1>6, <1>8, <1>11 DEF ThreadsChosen, OptionsDecide, SavedRunsAgain

LEMMA SetupKeeps == IInv /\ Setup => IInv'
<1> SUFFICES ASSUME IInv, Setup PROVE IInv'
  OBVIOUS
<1>1. IsAnswered(config')
  BY SetupAnswered
<1> USE DEF IInv, Setup, launch
<1>2. InputsTyped'
  BY DEF InputsTyped
<1>3. SavedIsThere'
  BY DEF SavedIsThere
<1>4. LoadedSoFar'
  BY <1>1 DEF LoadedSoFar, IsAnswered
<1>5. AskedInOrder'
  BY <1>1 DEF AskedInOrder, Asked
<1> QED BY <1>2, <1>3, <1>4, <1>5 DEF ReadyToStart, ThreadsChosen, OptionsDecide, SavedRunsAgain

(* The file that is written is the one of the configuration it is saved as. *)
LEMMA SaveKeeps == IInv /\ Save => IInv'
<1> SUFFICES ASSUME IInv, Save PROVE IInv'
  OBVIOUS
<1> USE DEF IInv, Save, launch
<1>1. IsAnswered(config) /\ Asked
  BY DEF AskedInOrder
<1>2. DOMAIN Content(config) \subseteq DOMAIN Defaults
  <2>1. DOMAIN config = DOMAIN Defaults
    BY <1>1 DEF IsAnswered, IsConfig
  <2> QED BY <2>1 DEF Content
<1>3. InputsTyped'
  <2>1. DOMAIN files' = Paths
    BY DEF InputsTyped
  <2>2. ASSUME NEW p \in Paths, files'[p].valid
        PROVE DOMAIN files'[p].content \subseteq DOMAIN Defaults
    <3>1. CASE p = "local"
      <4>1. files'[p] = Valid(Content(config))
        BY <3>1 DEF InputsTyped
      <4> QED BY <4>1, <1>2 DEF Valid
    <3>2. CASE p # "local"
      <4>1. files'[p] = files[p]
        BY <3>2 DEF InputsTyped
      <4> QED BY <4>1, <2>2 DEF InputsTyped
    <3> QED BY <3>1, <3>2
  <2> QED BY <2>1, <2>2 DEF InputsTyped
<1>4. SavedIsThere'
  BY <1>1 DEF SavedIsThere, InputsTyped, Paths
<1>5. LoadedSoFar'
  BY <1>1 DEF LoadedSoFar, IsAnswered
<1>6. ReadyToStart'
  <2>1. Asked'
    BY <1>1 DEF Asked
  <2>2. config'.threads \in 0 .. MaxThreads
    BY <1>1 DEF IsAnswered
  <2> QED BY <2>1, <2>2 DEF ReadyToStart
<1> QED BY <1>3, <1>4, <1>5, <1>6 DEF AskedInOrder, ThreadsChosen, OptionsDecide, SavedRunsAgain

LEMMA SaveFailsKeeps == IInv /\ SaveFails => IInv'
<1> SUFFICES ASSUME IInv, SaveFails PROVE IInv'
  OBVIOUS
<1> USE DEF IInv, SaveFails, launch
<1>1. IsAnswered(config) /\ Asked
  BY DEF AskedInOrder
<1>2. InputsTyped'
  BY DEF InputsTyped, Invalid
<1>3. SavedIsThere'
  BY DEF SavedIsThere
<1>4. LoadedSoFar'
  BY <1>1 DEF LoadedSoFar, IsAnswered
<1>5. ReadyToStart'
  <2>1. Asked' /\ ~Resumes'
    BY <1>1 DEF Asked, Resumes
  <2>2. config'.threads \in 0 .. MaxThreads
    BY <1>1 DEF IsAnswered
  <2> QED BY <2>1, <2>2 DEF ReadyToStart
<1> QED BY <1>2, <1>3, <1>4, <1>5 DEF AskedInOrder, ThreadsChosen, OptionsDecide, SavedRunsAgain

LEMMA NotSavedKeeps == IInv /\ NotSaved => IInv'
<1> SUFFICES ASSUME IInv, NotSaved PROVE IInv'
  OBVIOUS
<1> USE DEF IInv, NotSaved, launch
<1>1. IsAnswered(config) /\ Asked /\ (custom \/ saved = None)
  BY DEF AskedInOrder
<1>2. InputsTyped'
  BY DEF InputsTyped
<1>3. SavedIsThere'
  BY DEF SavedIsThere
<1>4. LoadedSoFar'
  BY <1>1 DEF LoadedSoFar, IsAnswered
<1>5. ReadyToStart'
  <2>1. Asked' /\ ~Resumes'
    BY <1>1 DEF Asked, Resumes
  <2>2. config'.threads \in 0 .. MaxThreads
    BY <1>1 DEF IsAnswered
  <2> QED BY <2>1, <2>2 DEF ReadyToStart
<1> QED BY <1>2, <1>3, <1>4, <1>5 DEF AskedInOrder, ThreadsChosen, OptionsDecide, SavedRunsAgain

LEMMA KilledKeeps == IInv /\ KilledWhileSaving => IInv'
<1> SUFFICES ASSUME IInv, KilledWhileSaving PROVE IInv'
  OBVIOUS
<1> USE DEF IInv, KilledWhileSaving, launch
<1>1. InputsTyped'
  BY DEF InputsTyped, Invalid
<1>2. SavedIsThere'
  BY DEF SavedIsThere
<1> QED BY <1>1, <1>2 DEF LoadedSoFar, AskedInOrder, ReadyToStart, ThreadsChosen, OptionsDecide,
                          SavedRunsAgain

(* What is left open is filled in; what was given stays as it is. *)
LEMMA StartKeeps == IInv /\ Start => IInv'
<1> SUFFICES ASSUME IInv, Start PROVE IInv'
  OBVIOUS
<1> USE DEF IInv, Start, launch
<1>1. IsConfig(config)
  BY DEF LoadedSoFar
<1>2. InputsTyped'
  BY DEF InputsTyped
<1>3. SavedIsThere'
  BY DEF SavedIsThere
<1>4. LoadedSoFar'
  BY <1>1, CompletedIsConfig DEF LoadedSoFar
<1>5. ThreadsChosen'
  BY <1>1, CompletedThreads DEF ThreadsChosen, ReadyToStart
<1>6. OptionsDecide'
  <2> SUFFICES ASSUME ~Asked, NEW s \in DOMAIN options PROVE Overridden(s)'
    BY DEF OptionsDecide, Asked
  <2>1. s \in DOMAIN Defaults /\ config[s] = options[s]
    BY DEF InputsTyped, ReadyToStart
  <2>2. IsConfig(Over(options, Defaults))
    BY DefaultsAreConfig, OverIsConfig DEF InputsTyped
  <2>3. Over(options, Defaults)[s] = options[s]
    BY OverValue
  <2>4. Completed(config)[s] = Completed(Over(options, Defaults))[s]
    BY <1>1, <2>1, <2>2, <2>3, CompletedAgree
  <2> QED BY <2>4 DEF Overridden
<1>7. SavedRunsAgain'
  BY DEF SavedRunsAgain, ReadyToStart, Resumes
<1> QED BY <1>2, <1>3, <1>4, <1>5, <1>6, <1>7 DEF AskedInOrder, ReadyToStart

(* The process ends, and the configuration with it. *)
LEMMA EndKeeps == IInv /\ (NoWalletGiven \/ Exit) => IInv'
<1> SUFFICES ASSUME IInv, NoWalletGiven \/ Exit PROVE IInv'
  OBVIOUS
<1>1. pc' = "down" /\ UNCHANGED <<files, launch, config, loaded, saved>>
  BY DEF NoWalletGiven, Exit
<1> USE <1>1 DEF IInv, launch
<1>2. InputsTyped'
  BY DEF InputsTyped
<1>3. SavedIsThere'
  BY DEF SavedIsThere
<1> QED BY <1>2, <1>3 DEF LoadedSoFar, AskedInOrder, ReadyToStart, ThreadsChosen, OptionsDecide,
                          SavedRunsAgain

(* A user who writes the local file takes what was saved from it. *)
LEMMA EditKeeps == IInv /\ Edit => IInv'
<1> SUFFICES ASSUME IInv, Edit PROVE IInv'
  OBVIOUS
<1> USE DEF IInv, launch
<1>1. pc = "down" /\ UNCHANGED <<pc, options, custom, tty, config, loaded>>
  BY DEF Edit
<1>2. PICK p \in Paths, f \in {Missing, Invalid} \union {Valid(c) : c \in Contents} :
        /\ files' = [files EXCEPT ![p] = f]
        /\ saved' = IF p = "local" THEN None ELSE saved
  BY DEF Edit
<1>3. f.valid => DOMAIN f.content \subseteq DOMAIN Defaults
  <2>1. CASE f \in {Missing, Invalid}
    BY <2>1 DEF Missing, Invalid
  <2>2. CASE f \in {Valid(c) : c \in Contents}
    BY <2>2, InputAssumption DEF Valid
  <2> QED BY <2>1, <2>2
<1>4. InputsTyped'
  BY <1>1, <1>2, <1>3 DEF InputsTyped
<1>5. SavedIsThere'
  BY <1>2 DEF SavedIsThere, InputsTyped, Paths
<1> QED BY <1>1, <1>4, <1>5 DEF LoadedSoFar, AskedInOrder, ReadyToStart, ThreadsChosen,
                                OptionsDecide, SavedRunsAgain

LEMMA StutterKeeps == IInv /\ UNCHANGED vars => IInv'
  BY DEF IInv, InputsTyped, SavedIsThere, LoadedSoFar, AskedInOrder, ReadyToStart, ThreadsChosen,
         OptionsDecide, SavedRunsAgain, Asked, Overridden, Resumes, vars, launch

(* The parts of IInv hold together in every reachable state. *)
THEOREM StartsAreOrderly == Spec => []IInv
<1>1. IInv /\ [Next]_vars => IInv'
  BY LaunchKeeps, LoadKeeps, MergeKeeps, SetupKeeps, SaveKeeps, SaveFailsKeeps, NotSavedKeeps,
     KilledKeeps, StartKeeps, EndKeeps, EditKeeps, StutterKeeps DEF Next
<1> QED BY <1>1, InitHolds, PTL DEF Spec

(* An option the user gave is the setting the miner runs with, whatever the  *)
(* files of any earlier start say, unless the questions were asked           *)
(* (main.cpp:222).                                                           *)
THEOREM OptionsWin == Spec => []OptionsDecide
<1>1. IInv => OptionsDecide
  BY DEF IInv
<1> QED BY <1>1, StartsAreOrderly, PTL

(* What was entered and saved is what a later start without options runs     *)
(* with (save_config(), load_config()): nothing is lost in the file between, *)
(* however many starts and failed starts lie between the two.                *)
THEOREM SavedConfigurationReturns == Spec => []SavedRunsAgain
<1>1. IInv => SavedRunsAgain
  BY DEF IInv
<1> QED BY <1>1, StartsAreOrderly, PTL

(* A number of threads somebody typed fits the tables with an entry per      *)
(* thread (miner.hpp:21), if the machine has no more cores than they have    *)
(* entries: main() and interactive_setup() check the number, and nothing     *)
(* checks the number of cores that stands for zero.                          *)
THEOREM ThreadCountsFit ==
  ASSUME Cores =< MaxThreads, 4 =< MaxThreads PROVE Spec => []TypedThreadsFit
<1>1. IInv => TypedThreadsFit
  <2>1. {Cores, 4} \ {0} \subseteq 1 .. MaxThreads
    BY NumberAssumption
  <2> QED BY <2>1 DEF IInv, ThreadsChosen, TypedThreadsFit
<1> QED BY <1>1, StartsAreOrderly, PTL
-------------------------------------------------------------------------------
(* Every setting keeps its type, from what is typed to what is started with. *)

PoolTypes == [host : Hosts, port : Ports]

LEMMA Types ==
  /\ DOMAIN SettingTypes = DOMAIN Defaults
  /\ SettingTypes["pools"] = Seq(PoolTypes) /\ SettingTypes["threads"] = 0 .. UIntWords - 1
  /\ SettingTypes["apiPort"] = Ports /\ SettingTypes["enabled"] = BOOLEAN
  /\ SettingTypes["display"] = Nat
  /\ SettingTypes["wallet"] = Wallets \union {NoWallet}
  /\ SettingTypes["worker"] = Names /\ SettingTypes["password"] = Names
  /\ SettingTypes["bind"] = Names
  BY DEF SettingTypes, Defaults, PoolTypes

LEMMA TypesTyped ==
  /\ TypedTypes["pools"] = Seq(Addresses) /\ TypedTypes["pool"] = Addresses
  /\ TypedTypes["threads"] = Int /\ TypedTypes["apiPort"] = Int /\ TypedTypes["api"] = Int
  /\ \A s \in DOMAIN Defaults \ {"pools", "threads", "apiPort"} : TypedTypes[s] = SettingTypes[s]
<1>1. \A s \in DOMAIN Defaults : s # "api" /\ s # "pool"
  BY Settings
<1> QED
  BY <1>1, Types, Settings DEF TypedTypes

LEMMA OverTyped ==
  ASSUME NEW f, NEW g, NEW types, OfTypes(f, types), OfTypes(g, types)
  PROVE  OfTypes(Over(f, g), types)
<1> SUFFICES ASSUME NEW s \in DOMAIN f \union DOMAIN g PROVE Over(f, g)[s] \in types[s]
  BY OverDomain DEF OfTypes
<1>1. Over(f, g)[s] = IF s \in DOMAIN f THEN f[s] ELSE g[s]
  BY OverValue
<1> QED
  BY <1>1 DEF OfTypes

LEMMA PoolTyped ==
  ASSUME NEW address \in Addresses, NEW default \in Ports PROVE Pool(address, default) \in PoolTypes
<1>1. address.host \in Hosts /\ (address.form = "number" => address.port \in Int)
  BY DEF Addresses
<1>2. CASE address.form = "number"
  <2>1. address.port % 65536 \in Ports
    BY <1>1, <1>2, PortIsCut
  <2> QED
    BY <1>1, <1>2, <2>1 DEF Pool, PoolTypes
<1>3. CASE address.form # "number"
  BY <1>1, <1>3 DEF Pool, PoolTypes
<1> QED
  BY <1>2, <1>3

LEMMA PoolsTyped ==
  ASSUME NEW addresses \in Seq(Addresses), NEW default \in Ports
  PROVE  [n \in DOMAIN addresses |-> Pool(addresses[n], default)] \in Seq(PoolTypes)
<1>1. \A n \in DOMAIN addresses : Pool(addresses[n], default) \in PoolTypes
  BY PoolTyped
<1>2. Len(addresses) \in Nat /\ DOMAIN addresses = 1 .. Len(addresses)
  OBVIOUS
<1> HIDE DEF PoolTypes
<1> QED
  BY <1>1, <1>2

LEMMA DefaultsTyped == OfTypes(Defaults, SettingTypes) /\ OfTypes(FileDefaults, SettingTypes)
<1>1. DefaultPool \in PoolTypes
  BY InputAssumption DEF DefaultPool, PoolTypes, Ports
<1>2. << >> \in Seq(PoolTypes) /\ <<DefaultPool>> \in Seq(PoolTypes)
  BY <1>1
<1>3. 0 \in 0 .. UIntWords - 1 /\ 4068 \in Ports /\ 10 \in Nat
  BY NumberAssumption DEF Ports
<1>4. {Hostname, Defaults["worker"], Defaults["password"], Defaults["bind"]} \subseteq Names
  BY InputAssumption
<1>5. /\ Defaults["wallet"] = NoWallet /\ Defaults["pools"] = << >> /\ Defaults["threads"] = 0
      /\ Defaults["apiPort"] = 4068 /\ Defaults["display"] = 10
  BY DEF Defaults
<1>6. OfTypes(Defaults, SettingTypes)
  <2> SUFFICES ASSUME NEW s \in DOMAIN Defaults PROVE Defaults[s] \in SettingTypes[s]
    BY DEF OfTypes
  <2>1. CASE s \in {"worker", "password", "bind"}
    BY <2>1, <1>4, Types
  <2>2. /\ Defaults["wallet"] \in SettingTypes["wallet"]
        /\ Defaults["pools"] \in SettingTypes["pools"]
        /\ Defaults["enabled"] \in SettingTypes["enabled"]
    <3>1. Defaults["wallet"] \in SettingTypes["wallet"]
      BY <1>5, Types
    <3>2. Defaults["pools"] \in SettingTypes["pools"]
      BY <1>2, <1>5, Types
    <3>3. Defaults["enabled"] \in SettingTypes["enabled"]
      BY DEF Defaults, SettingTypes
    <3> QED
      BY <3>1, <3>2, <3>3
  <2>3. /\ Defaults["threads"] \in SettingTypes["threads"]
        /\ Defaults["apiPort"] \in SettingTypes["apiPort"]
        /\ Defaults["display"] \in SettingTypes["display"]
    <3>1. Defaults["threads"] \in SettingTypes["threads"]
      BY <1>3, <1>5, Types
    <3>2. Defaults["apiPort"] \in SettingTypes["apiPort"]
      BY <1>3, <1>5, Types
    <3>3. Defaults["display"] \in SettingTypes["display"]
      BY <1>5, Types
    <3> QED
      BY <3>1, <3>2, <3>3
  <2> QED
    BY <2>1, <2>2, <2>3, Settings
<1>7. /\ DOMAIN FileDefaults = DOMAIN Defaults
      /\ FileDefaults["worker"] = Hostname /\ FileDefaults["pools"] = <<DefaultPool>>
      /\ \A s \in DOMAIN Defaults \ {"worker", "pools"} : FileDefaults[s] = Defaults[s]
  BY Settings DEF FileDefaults
<1>8. OfTypes(FileDefaults, SettingTypes)
  BY <1>2, <1>4, <1>6, <1>7, Types DEF OfTypes
<1> QED
  BY <1>6, <1>8

(* What main() has let pass is of the type of the setting. *)
LEMMA OptionsTyped ==
  ASSUME NEW typed \in CommandLines, ~Refused(typed)
  PROVE  OfTypes(Parsed(typed), SettingTypes)
<1> DEFINE api == Given("api", typed, [enabled |-> typed.api # 0,
                                       apiPort |-> IF typed.api # 0 THEN typed.api ELSE Defaults.apiPort])
           pools == Given("pools", typed, [pools |-> OptionPools(typed.pools)])
           threads == Given("threads", typed, [threads |-> UInt32(typed.threads)])
           rest == [s \in DOMAIN typed \ {"api"} |-> typed[s]]
           inner == Over(threads, rest)
           middle == Over(pools, inner)
<1>1. DOMAIN typed \subseteq Typeable /\ OfTypes(typed, TypedTypes)
  BY InputAssumption
<1>2. OfTypes(api, SettingTypes) /\ (DOMAIN api = {} \/ DOMAIN api = {"enabled", "apiPort"})
  <2>1. CASE "api" \notin DOMAIN typed
    BY <2>1 DEF Given, OfTypes
  <2>2. CASE "api" \in DOMAIN typed
    <3>1. typed["api"] \in Ports
      BY <2>2 DEF Refused
    <3>2. Defaults.apiPort \in Ports
      BY DEF Defaults, Ports
    <3>3. api = [enabled |-> typed.api # 0,
                 apiPort |-> IF typed.api # 0 THEN typed.api ELSE Defaults.apiPort]
      BY <2>2 DEF Given
    <3>4. api["enabled"] \in BOOLEAN /\ api["apiPort"] \in Ports /\ DOMAIN api = {"enabled", "apiPort"}
      <4>1. PICK b \in BOOLEAN : b = (typed.api # 0)
        OBVIOUS
      <4>2. PICK n \in Ports : n = IF typed.api # 0 THEN typed.api ELSE Defaults.apiPort
        BY <3>1, <3>2
      <4>3. api = [enabled |-> b, apiPort |-> n]
        BY <3>3, <4>1, <4>2
      <4> HIDE DEF api
      <4> QED
        BY <4>3
    <3> QED
      BY <3>4, Types DEF OfTypes
  <2> QED
    BY <2>1, <2>2
<1>3. /\ OfTypes(pools, SettingTypes)
      /\ DOMAIN pools = IF "pools" \in DOMAIN typed THEN {"pools"} ELSE {}
  <2>1. CASE "pools" \notin DOMAIN typed
    BY <2>1 DEF Given, OfTypes
  <2>2. CASE "pools" \in DOMAIN typed
    <3>1. typed["pools"] \in Seq(Addresses)
      BY <1>1, <2>2, TypesTyped DEF OfTypes
    <3>2. OptionPools(typed["pools"]) \in Seq(PoolTypes)
      <4>1. 3956 \in Ports
        BY DEF Ports
      <4> QED
        BY <3>1, <4>1, PoolsTyped DEF OptionPools
    <3>3. DOMAIN pools = {"pools"} /\ pools["pools"] = OptionPools(typed["pools"])
      BY <2>2 DEF Given
    <3> QED
      BY <2>2, <3>2, <3>3, Types DEF OfTypes
  <2> QED
    BY <2>1, <2>2
<1>4. /\ OfTypes(threads, SettingTypes)
      /\ DOMAIN threads = IF "threads" \in DOMAIN typed THEN {"threads"} ELSE {}
  <2>1. CASE "threads" \notin DOMAIN typed
    BY <2>1 DEF Given, OfTypes
  <2>2. CASE "threads" \in DOMAIN typed
    <3>1. UInt32(typed["threads"]) \in 0 .. UIntWords - 1
      BY <2>2, Inputs, UInt32Fits
    <3>2. DOMAIN threads = {"threads"} /\ threads["threads"] = UInt32(typed["threads"])
      BY <2>2 DEF Given
    <3> QED
      BY <2>2, <3>1, <3>2, Types DEF OfTypes
  <2> QED
    BY <2>1, <2>2
<1>5. /\ DOMAIN rest \subseteq {"wallet", "pools", "worker", "password", "threads", "bind"}
      /\ \A s \in DOMAIN rest \ {"pools", "threads"} : rest[s] \in SettingTypes[s]
      /\ DOMAIN rest = DOMAIN typed \ {"api"}
  <2>1. DOMAIN rest \subseteq {"wallet", "pools", "worker", "password", "threads", "bind"}
    BY <1>1 DEF Typeable
  <2>2. \A s \in DOMAIN rest : s \in DOMAIN typed /\ rest[s] = typed[s] /\ typed[s] \in TypedTypes[s]
    BY <1>1 DEF OfTypes
  <2>3. \A s \in {"wallet", "worker", "password", "bind"} : TypedTypes[s] = SettingTypes[s]
    BY Settings, TypesTyped
  <2>4. DOMAIN rest = DOMAIN typed \ {"api"}
    OBVIOUS
  <2> HIDE DEF rest
  <2> QED
    BY <2>1, <2>2, <2>3, <2>4
<1>6. Parsed(typed) = Over(api, middle)
  BY DEF Parsed
<1> HIDE DEF api, pools, threads, rest
<1>7. \A s \in DOMAIN inner : s # "pools" => inner[s] \in SettingTypes[s]
  <2> SUFFICES ASSUME NEW s \in DOMAIN threads \union DOMAIN rest, s # "pools"
               PROVE  inner[s] \in SettingTypes[s]
    BY OverDomain
  <2>1. inner[s] = IF s \in DOMAIN threads THEN threads[s] ELSE rest[s]
    BY OverValue
  <2>2. CASE s \in DOMAIN threads
    BY <1>4, <2>1, <2>2 DEF OfTypes
  <2>3. CASE s \notin DOMAIN threads
    <3>1. s \in DOMAIN rest /\ s # "threads"
      BY <1>4, <1>5, <2>3
    <3> QED
      BY <1>5, <2>1, <2>3, <3>1
  <2> QED
    BY <2>2, <2>3
<1>8. "pools" \in DOMAIN inner => "pools" \in DOMAIN pools
  BY <1>3, <1>4, <1>5, OverDomain
<1> HIDE DEF inner
<1>9. OfTypes(middle, SettingTypes)
  <2> SUFFICES ASSUME NEW s \in DOMAIN pools \union DOMAIN inner
               PROVE  middle[s] \in SettingTypes[s]
    BY OverDomain DEF OfTypes
  <2>1. middle[s] = IF s \in DOMAIN pools THEN pools[s] ELSE inner[s]
    BY OverValue
  <2> QED
    BY <1>3, <1>7, <1>8, <2>1 DEF OfTypes
<1> HIDE DEF middle
<1> QED
  BY <1>2, <1>6, <1>9, OverTyped

(* What is read from a file is, whatever is written in it. *)
LEMMA ReadTyped ==
  ASSUME NEW content, DOMAIN content \subseteq DOMAIN Defaults, OfTypes(content, TypedTypes)
  PROVE  OfTypes(ReadContent(content), SettingTypes)
<1> DEFINE read == Over(content, FileDefaults)
           x == UInt32(read.threads)
           y == read.apiPort % 65536
           z == IF "pools" \in DOMAIN content /\ content.pools # << >>
                  THEN FilePools(content.pools) ELSE <<DefaultPool>>
<1>1. IsConfig(FileDefaults) /\ DOMAIN FileDefaults = DOMAIN Defaults
  BY Settings, DefaultsAreConfig DEF FileDefaults, IsConfig
<1>2. IsConfig(read)
  BY <1>1, OverIsConfig
<1>3. \A s \in DOMAIN Defaults :
        read[s] = IF s \in DOMAIN content THEN content[s] ELSE FileDefaults[s]
  BY <1>1, OverValue
<1>4. \A s \in DOMAIN Defaults : FileDefaults[s] \in SettingTypes[s]
  BY <1>1, DefaultsTyped DEF OfTypes
<1>5. read["threads"] \in Int /\ read["apiPort"] \in Int
  <2>1. FileDefaults["threads"] \in Int /\ FileDefaults["apiPort"] \in Int
    <3>1. /\ FileDefaults["threads"] \in 0 .. UIntWords - 1
          /\ FileDefaults["apiPort"] \in Ports
      BY <1>4, Settings, Types
    <3>2. 0 .. UIntWords - 1 \subseteq Int /\ Ports \subseteq Int
      BY DEF Ports
    <3> QED
      BY <3>1, <3>2
  <2> QED
    BY <1>3, <2>1, Settings, TypesTyped DEF OfTypes
<1>6. \A s \in DOMAIN Defaults \ {"threads", "apiPort", "pools"} : read[s] \in SettingTypes[s]
  BY <1>3, <1>4, TypesTyped DEF OfTypes
<1>7. x \in 0 .. UIntWords - 1 /\ y \in Ports
  BY <1>5, UInt32Fits, PortIsCut
<1>8. z \in Seq(PoolTypes)
  <2>1. CASE "pools" \in DOMAIN content /\ content.pools # << >>
    <3>1. content["pools"] \in Seq(Addresses)
      BY <2>1, TypesTyped DEF OfTypes
    <3>2. FilePools(content["pools"]) \in Seq(PoolTypes)
      <4>1. 9999 \in Ports
        BY DEF Ports
      <4> QED
        BY <3>1, <4>1, PoolsTyped DEF FilePools
    <3> QED
      BY <2>1, <3>2
  <2>2. CASE ~("pools" \in DOMAIN content /\ content.pools # << >>)
    <3>1. DefaultPool \in PoolTypes
      BY InputAssumption DEF DefaultPool, PoolTypes, Ports
    <3> QED
      BY <2>2, <3>1
  <2> QED
    BY <2>1, <2>2
<1>9. ReadContent(content) = Converted(read, x, y, z)
  BY DEF ReadContent, Converted
<1> HIDE DEF read, x, y, z
<1> DEFINE back == Converted(read, x, y, z)
<1>10. /\ IsConfig(back)
       /\ back["threads"] = x /\ back["apiPort"] = y /\ back["pools"] = z
       /\ \A s \in DOMAIN Defaults \ {"threads", "apiPort", "pools"} : back[s] = read[s]
  BY <1>2, ConvertedThree
<1> HIDE DEF back
<1>11. DOMAIN back = DOMAIN Defaults
  BY <1>10 DEF IsConfig
<1>12. \A s \in DOMAIN Defaults : back[s] \in SettingTypes[s]
  BY <1>6, <1>7, <1>8, <1>10, Types
<1>13. OfTypes(back, SettingTypes)
  BY <1>11, <1>12 DEF OfTypes
<1> QED
  BY <1>9, <1>13 DEF back
(* What the questions lead to is typed too. *)
LEMMA SetupTyped ==
  ASSUME Setup PROVE OfTypes(config', SettingTypes)
<1>1. PICK a \in Answers :
       config' = [Defaults EXCEPT
         !.pools = <<IF "pool" \in DOMAIN a THEN SetupPool(a.pool) ELSE DefaultPool>>,
         !.worker = IF "worker" \in DOMAIN a THEN a.worker ELSE Hostname,
         !.wallet = a.wallet,
         !.threads = IF "threads" \in DOMAIN a THEN SetupThreads(a.threads) ELSE @]
  BY DEF Setup
<1> DEFINE pool == IF "pool" \in DOMAIN a THEN SetupPool(a.pool) ELSE DefaultPool
           worker == IF "worker" \in DOMAIN a THEN a.worker ELSE Hostname
           threads == IF "threads" \in DOMAIN a THEN SetupThreads(a.threads) ELSE 0
<1>2. "wallet" \in DOMAIN a /\ OfTypes(a, TypedTypes) /\ a \in Answers
  BY InputAssumption
<1>3. TypedTypes["worker"] = Names /\ TypedTypes["wallet"] = Wallets \union {NoWallet}
  BY TypesTyped, Types, Settings
<1>4. <<pool>> \in Seq(PoolTypes)
  <2>1. pool \in PoolTypes
    <3>1. CASE "pool" \in DOMAIN a
      <4>1. a["pool"] \in Addresses
        BY <1>2, <3>1, TypesTyped DEF OfTypes
      <4>2. DefaultPool.port \in Ports
        BY DEF DefaultPool, Ports
      <4> QED
        BY <3>1, <4>1, <4>2, PoolTyped DEF SetupPool
    <3>2. CASE "pool" \notin DOMAIN a
      BY <3>2, InputAssumption DEF DefaultPool, PoolTypes, Ports
    <3> QED
      BY <3>1, <3>2
  <2> HIDE DEF pool
  <2> QED
    BY <2>1
<1>5. worker \in Names
  <2>1. "worker" \in DOMAIN a => a["worker"] \in Names
    BY <1>2, <1>3 DEF OfTypes
  <2> QED
    BY <2>1, InputAssumption
<1>6. a["wallet"] \in Wallets \union {NoWallet}
  BY <1>2, <1>3 DEF OfTypes
<1>7. threads \in 0 .. UIntWords - 1
  <2>1. CASE "threads" \notin DOMAIN a
    BY <2>1, NumberAssumption
  <2>2. CASE "threads" \in DOMAIN a
    <3>1. UInt32(a.threads) \in 0 .. UIntWords - 1
      BY <2>2, Inputs, UInt32Fits
    <3> QED
      BY <2>2, <3>1, NumberAssumption DEF SetupThreads
  <2> QED
    BY <2>1, <2>2
<1>8. config' = [Defaults EXCEPT !.pools = <<pool>>, !.worker = worker, !.wallet = a.wallet,
                                 !.threads = threads]
  BY <1>1 DEF Defaults
<1> HIDE DEF pool, worker, threads
<1>9. /\ DOMAIN config' = DOMAIN Defaults
      /\ config'["pools"] = <<pool>> /\ config'["worker"] = worker
      /\ config'["wallet"] = a["wallet"] /\ config'["threads"] = threads
      /\ \A s \in DOMAIN Defaults \ {"pools", "worker", "wallet", "threads"} :
           config'[s] = Defaults[s]
  BY <1>8, Settings
<1>10. \A s \in DOMAIN Defaults : config'[s] \in SettingTypes[s]
  BY <1>4, <1>5, <1>6, <1>7, <1>9, Types, DefaultsTyped DEF OfTypes
<1> QED
  BY <1>9, <1>10 DEF OfTypes

(* What save_config() writes may be read. *)
LEMMA ContentTyped ==
  ASSUME NEW c, IsConfig(c), OfTypes(c, SettingTypes)
  PROVE  OfTypes(Content(c), TypedTypes)
<1>1. DOMAIN c = DOMAIN Defaults
  BY DEF IsConfig
<1>2. \A s \in DOMAIN Defaults : c[s] \in SettingTypes[s]
  BY <1>1 DEF OfTypes
<1>3. /\ DOMAIN Content(c) = DOMAIN Defaults \ {"display"}
      /\ Content(c)["pools"] = AsAddresses(c["pools"])
      /\ \A s \in DOMAIN Defaults \ {"display", "pools"} : Content(c)[s] = c[s]
  BY <1>1, Settings DEF Content
<1>4. AsAddresses(c["pools"]) \in Seq(Addresses)
  <2>1. PICK pools \in Seq(PoolTypes) : pools = c["pools"]
    BY <1>2, Settings, Types
  <2>2. ASSUME NEW n \in DOMAIN pools
        PROVE  [host |-> pools[n].host, form |-> "number", port |-> pools[n].port] \in Addresses
    <3>1. pools[n] \in PoolTypes
      OBVIOUS
    <3>2. pools[n].host \in Hosts /\ pools[n].port \in Ports
      BY <3>1 DEF PoolTypes
    <3>3. Ports \subseteq Int
      BY DEF Ports
    <3> QED
      BY <3>2, <3>3 DEF Addresses
  <2>3. DOMAIN pools = 1 .. Len(pools) /\ Len(pools) \in Nat
    OBVIOUS
  <2>4. AsAddresses(pools) \in Seq(Addresses)
    <3> HIDE DEF PoolTypes, Addresses
    <3> QED
      BY <2>2, <2>3 DEF AsAddresses
  <2> QED
    BY <2>1, <2>4
<1>5. c["threads"] \in Int /\ c["apiPort"] \in Int
  <2>1. c["threads"] \in 0 .. UIntWords - 1 /\ c["apiPort"] \in Ports
    BY <1>2, Settings, Types
  <2>2. 0 .. UIntWords - 1 \subseteq Int /\ Ports \subseteq Int
    BY DEF Ports
  <2> QED
    BY <2>1, <2>2
<1> SUFFICES ASSUME NEW s \in DOMAIN Defaults \ {"display"} PROVE Content(c)[s] \in TypedTypes[s]
  BY <1>3 DEF OfTypes
<1>6. CASE s = "pools"
  BY <1>3, <1>4, <1>6, TypesTyped
<1>7. CASE s \in {"threads", "apiPort"}
  BY <1>3, <1>5, <1>7, TypesTyped
<1>8. CASE s \notin {"pools", "threads", "apiPort"}
  BY <1>2, <1>3, <1>8, TypesTyped
<1> QED
  BY <1>6, <1>7, <1>8

LEMMA CompletedTyped ==
  ASSUME NEW c, IsConfig(c), OfTypes(c, SettingTypes)
  PROVE  OfTypes(Completed(c), SettingTypes)
<1> DEFINE pools == IF c["pools"] = << >> THEN <<DefaultPool>> ELSE c["pools"]
           threads == IF c["threads"] # 0 THEN c["threads"] ELSE IF Cores # 0 THEN Cores ELSE 4
           d == Completed(c)
<1>1. DOMAIN c = DOMAIN Defaults /\ \A s \in DOMAIN Defaults : c[s] \in SettingTypes[s]
  BY DEF IsConfig, OfTypes
<1>2. /\ DOMAIN d = DOMAIN Defaults /\ d["pools"] = pools /\ d["threads"] = threads
      /\ \A s \in DOMAIN Defaults \ {"pools", "threads"} : d[s] = c[s]
  BY <1>1, Settings DEF Completed
<1>3. pools \in Seq(PoolTypes)
  <2>1. DefaultPool \in PoolTypes
    BY InputAssumption DEF DefaultPool, PoolTypes, Ports
  <2>2. <<DefaultPool>> \in Seq(PoolTypes)
    BY <2>1
  <2>3. c["pools"] \in Seq(PoolTypes)
    BY <1>1, Settings, Types
  <2> QED
    BY <2>2, <2>3
<1>4. threads \in 0 .. UIntWords - 1
  <2>1. c["threads"] \in 0 .. UIntWords - 1
    BY <1>1, Settings, Types
  <2> QED
    BY <2>1, NumberAssumption
<1> HIDE DEF pools, threads, d
<1>5. \A s \in DOMAIN Defaults : d[s] \in SettingTypes[s]
  BY <1>1, <1>2, <1>3, <1>4, Types
<1> QED
  BY <1>2, <1>5 DEF OfTypes, d

-------------------------------------------------------------------------------
FileTyped(f) == f.valid \in BOOLEAN /\ (f.valid => OfTypes(f.content, TypedTypes))

FilesTyped == \A p \in Paths : FileTyped(files[p])

LEMMA InputFile ==
  ASSUME NEW f \in {Missing, Invalid} \union {Valid(c) : c \in Contents} PROVE FileTyped(f)
<1>1. CASE f \in {Missing, Invalid}
  <2>1. Missing.valid = FALSE /\ Invalid.valid = FALSE
    BY DEF Missing, Invalid
  <2> QED
    BY <1>1, <2>1 DEF FileTyped
<1>2. CASE f \in {Valid(c) : c \in Contents}
  <2>1. PICK c \in Contents : f = Valid(c)
    BY <1>2
  <2>2. f.valid = TRUE /\ f.content = c
    BY <2>1 DEF Valid
  <2> QED
    BY <2>2, InputAssumption DEF FileTyped
<1> QED
  BY <1>1, <1>2

AllTyped ==
  /\ pc \in {"down", "load", "merge", "setup", "save", "saved", "start", "running"}
  /\ custom \in BOOLEAN /\ tty \in BOOLEAN /\ loaded \in BOOLEAN
  /\ OfTypes(options, SettingTypes)
  /\ FilesTyped
  /\ IsConfig(config) /\ OfTypes(config, SettingTypes)

LEMMA ConfigInTypes ==
  ASSUME NEW c, IsConfig(c), OfTypes(c, SettingTypes)
  PROVE  c \in [wallet : Wallets \union {NoWallet}, pools : Seq([host : Hosts, port : Ports]),
                 worker : Names, password : Names, threads : 0 .. UIntWords - 1,
                 enabled : BOOLEAN, apiPort : Ports, bind : Names, display : Nat]
<1>1. DOMAIN c = DOMAIN Defaults
  BY DEF IsConfig
<1>2. \A s \in DOMAIN Defaults : c[s] \in SettingTypes[s]
  BY <1>1 DEF OfTypes
<1>3. c = [wallet |-> c["wallet"], pools |-> c["pools"], worker |-> c["worker"],
           password |-> c["password"], threads |-> c["threads"], enabled |-> c["enabled"],
           apiPort |-> c["apiPort"], bind |-> c["bind"], display |-> c["display"]]
  BY Settings DEF IsConfig
<1>4. /\ c["wallet"] \in Wallets \union {NoWallet} /\ c["pools"] \in Seq([host : Hosts, port : Ports])
      /\ c["worker"] \in Names /\ c["password"] \in Names /\ c["threads"] \in 0 .. UIntWords - 1
      /\ c["enabled"] \in BOOLEAN /\ c["apiPort"] \in Ports /\ c["bind"] \in Names
      /\ c["display"] \in Nat
  BY <1>2, Settings, Types DEF PoolTypes
<1> QED
  BY <1>3, <1>4

LEMMA InitTyped == Init => AllTyped
<1> SUFFICES ASSUME Init PROVE AllTyped
  OBVIOUS
<1>1. FilesTyped
  <2>1. \A p \in Paths : files[p] \in {Missing, Invalid} \union {Valid(c) : c \in Contents}
    BY DEF Init
  <2> QED
    BY <2>1, InputFile DEF FilesTyped
<1>2. OfTypes(<< >>, SettingTypes)
  BY DEF OfTypes
<1> QED
  BY <1>1, <1>2, DefaultsTyped, DefaultsAreConfig DEF Init, AllTyped

LEMMA FilesStay == FilesTyped /\ UNCHANGED files => FilesTyped'
  BY DEF FilesTyped, FileTyped

(* A file that is written or edited is typed if what is put into it is. *)
LEMMA FilePut ==
  ASSUME IInv, FilesTyped, NEW p \in Paths, NEW f, files' = [files EXCEPT ![p] = f],
         FileTyped(f)
  PROVE  FilesTyped'
<1> SUFFICES ASSUME NEW q \in Paths PROVE FileTyped(files'[q])
  BY DEF FilesTyped, FileTyped
<1>1. files'[q] = IF q = p THEN f ELSE files[q]
  BY DEF IInv, InputsTyped
<1> QED
  BY <1>1 DEF FilesTyped

LEMMA NextTyped == IInv /\ AllTyped /\ [Next]_vars => AllTyped'
<1> SUFFICES ASSUME IInv, AllTyped, [Next]_vars PROVE AllTyped'
  OBVIOUS
<1> USE DEF AllTyped, launch
<1>1. CASE Launch
  BY <1>1, OptionsTyped, DefaultsTyped, DefaultsAreConfig, FilesStay DEF Launch
<1>2. CASE Load
  <2>1. ConfigPath \in Paths
    BY DEF ConfigPath, Paths
  <2>2. FilesTyped' /\ loaded' \in BOOLEAN
    BY <1>2, FilesStay DEF Load
  <2>3. IsConfig(config') /\ OfTypes(config', SettingTypes)
    <3>1. CASE loaded'
      BY <1>2, <2>1, <3>1, ReadIsConfig, ReadTyped
         DEF Load, IInv, InputsTyped, FilesTyped, FileTyped
    <3>2. CASE ~loaded'
      BY <1>2, <3>2 DEF Load
    <3> QED
      BY <3>1, <3>2
  <2> QED
    BY <1>2, <2>2, <2>3 DEF Load
<1>3. CASE Merge
  <2>1. IsConfig(config') /\ OfTypes(config', SettingTypes)
    BY <1>3, OverIsConfig, OverTyped DEF Merge, Merged, IInv, InputsTyped
  <2>2. pc' \in {"setup", "start"}
    BY <1>3 DEF Merge
  <2> QED
    BY <1>3, <2>1, <2>2, FilesStay DEF Merge
<1>4. CASE Setup
  <2>1. IsConfig(config') /\ OfTypes(config', SettingTypes)
    BY <1>4, SetupAnswered, SetupTyped DEF IsAnswered
  <2> QED
    BY <1>4, <2>1, FilesStay DEF Setup
<1>5. CASE Save
  <2>1. FilesTyped'
    <3>1. FileTyped(Valid(Content(config)))
      BY ContentTyped DEF Valid, FileTyped
    <3> QED
      BY <1>5, <3>1, FilePut DEF Save, Paths
  <2> QED
    BY <1>5, <2>1 DEF Save
<1>6. CASE NotSaved
  BY <1>6, FilesStay DEF NotSaved
<1>7. CASE SaveFails \/ KilledWhileSaving
  <2>1. FilesTyped'
    <3>1. FileTyped(Invalid)
      BY InputFile
    <3> QED
      BY <1>7, <3>1, FilePut DEF SaveFails, KilledWhileSaving, Paths
  <2> QED
    BY <1>7, <2>1 DEF SaveFails, KilledWhileSaving
<1>8. CASE Start
  BY <1>8, CompletedIsConfig, CompletedTyped, FilesStay DEF Start
<1>9. CASE NoWalletGiven \/ Exit
  BY <1>9, FilesStay DEF NoWalletGiven, Exit
<1>10. CASE Edit
  <2>1. PICK p \in Paths, f \in {Missing, Invalid} \union {Valid(c) : c \in Contents} :
          files' = [files EXCEPT ![p] = f]
    BY <1>10 DEF Edit
  <2>2. FileTyped(f)
    BY InputFile
  <2>3. FilesTyped'
    BY <2>1, <2>2, FilePut
  <2> QED
    BY <1>10, <2>3 DEF Edit
<1>11. CASE UNCHANGED vars
  BY <1>11, FilesStay DEF vars
<1> QED
  BY <1>1, <1>2, <1>3, <1>4, <1>5, <1>6, <1>7, <1>8, <1>9, <1>10, <1>11 DEF Next

(* Every setting has its type at every moment of every start, whatever was   *)
(* typed, written or answered: ports are cut to 16 bits and numbers of       *)
(* threads to 32 on each of the three ways they come in by (parse_pool(),    *)
(* load_config(), interactive_setup()).                                      *)
THEOREM TypeCorrect == Spec => []TypeOK
<1>1. IInv /\ AllTyped => TypeOK
  <2> SUFFICES ASSUME IInv, AllTyped PROVE TypeOK
    OBVIOUS
  <2>1. saved = None \/ DOMAIN saved = DOMAIN Defaults
    BY DEF IInv, SavedIsThere, IsAnswered, IsConfig
  <2>2. DOMAIN files = Paths /\ DOMAIN options \subseteq DOMAIN Defaults
    BY DEF IInv, InputsTyped
  <2> QED
    BY <2>1, <2>2, ConfigInTypes DEF AllTyped, FilesTyped, FileTyped, TypeOK
<1> QED
  BY <1>1, InitTyped, NextTyped, StartsAreOrderly, PTL DEF Spec
===============================================================================
