--------------------------- MODULE Session_proofs ---------------------------
(***************************************************************************)
(* Theorems about Session, for any command lines, names and addresses and  *)
(* any lists of usual ports: which ports are scanned, what a profile       *)
(* restores, and that every host a discovery lists is reported.            *)
(***************************************************************************)
\* The constants Ports and Texts of TargetResults come along and are not used.
EXTENDS Session, TargetResults_proofs

-----------------------------------------------------------------------------
(* The ports *)

LEMMA UpToHolds ==
  ASSUME NEW a \in Nat, NEW b \in Nat
  PROVE  /\ UpTo(a, b) \in Seq(a..b)
         /\ ToSet(UpTo(a, b)) = a..b
<1> DEFINE n == IF b < a THEN 0 ELSE b - a + 1
<1>1. n \in Nat /\ UpTo(a, b) = [i \in 1..n |-> a + i - 1]
  BY DEF UpTo
<1>2. \A i \in 1..n : a + i - 1 \in a..b
  OBVIOUS
<1>3. \A x \in a..b : x - a + 1 \in 1..n /\ a + (x - a + 1) - 1 = x
  OBVIOUS
<1> HIDE DEF n
<1>4. UpTo(a, b) \in Seq(a..b)
  BY <1>1, <1>2
<1>5. ToSet(UpTo(a, b)) = a..b
  <2>1. ASSUME NEW x \in ToSet(UpTo(a, b)) PROVE x \in a..b
    BY <1>1, <1>2 DEF ToSet
  <2>2. ASSUME NEW x \in a..b PROVE x \in ToSet(UpTo(a, b))
    BY <1>1, <1>3 DEF ToSet
  <2> QED
    BY <2>1, <2>2
<1> QED
  BY <1>4, <1>5

\* The ports the valid items of a list name.
MeantPorts(spec) ==
  {p \in 1..MaxPort : \E i \in DOMAIN spec :
     /\ spec[i].hi <= MaxPort /\ 1 <= spec[i].lo
     /\ p \in spec[i].lo .. spec[i].hi}

LEMMA ParsedPorts ==
  ASSUME NEW spec \in Seq(PortItems)
  PROVE  /\ _parse_int_list(spec) \in Seq(1..MaxPort)
         /\ ToSet(_parse_int_list(spec)) = MeantPorts(spec)
<1> DEFINE n == Len(spec)
           parts == [ i \in DOMAIN spec |->
                        IF ValidPorts(spec[i]) THEN UpTo(spec[i].lo, spec[i].hi) ELSE <<>> ]
<1>1. /\ n \in Nat /\ DOMAIN spec = 1..n /\ MaxPort \in Nat
      /\ \A i \in 1..n : spec[i].lo \in Nat /\ spec[i].hi \in Nat
  <2>1. \A i \in 1..n : spec[i] \in PortItems
    OBVIOUS
  <2>2. MaxPort \in Nat
    BY ParserAssumption
  <2> QED
    BY <2>1, <2>2 DEF PortItems
<1>2. _parse_int_list(spec) = FlattenSeq(parts)
  BY DEF _parse_int_list
<1>3. DOMAIN parts = 1..n /\ Len(parts) = n /\ (n = 0 => parts = <<>>)
  BY <1>1
<1>4. ASSUME NEW i \in 1..n
      PROVE  /\ parts[i] \in Seq(1..MaxPort)
             /\ \A p : p \in ToSet(parts[i]) <=>
                         /\ p \in 1..MaxPort
                         /\ spec[i].hi <= MaxPort /\ 1 <= spec[i].lo
                         /\ p \in spec[i].lo .. spec[i].hi
  <2>1. CASE ValidPorts(spec[i])
    <3>1. parts[i] = UpTo(spec[i].lo, spec[i].hi)
      BY <1>1, <2>1
    <3>2. /\ parts[i] \in Seq(spec[i].lo .. spec[i].hi)
          /\ ToSet(parts[i]) = spec[i].lo .. spec[i].hi
      <4>1. /\ UpTo(spec[i].lo, spec[i].hi) \in Seq(spec[i].lo .. spec[i].hi)
            /\ ToSet(UpTo(spec[i].lo, spec[i].hi)) = spec[i].lo .. spec[i].hi
        BY <1>1, UpToHolds
      <4> HIDE DEF parts
      <4> QED
        BY <3>1, <4>1
    <3>3. /\ spec[i].hi <= MaxPort /\ 1 <= spec[i].lo
          /\ spec[i].lo .. spec[i].hi \subseteq 1..MaxPort
      BY <1>1, <2>1 DEF ValidPorts
    <3> HIDE DEF parts
    <3>4. parts[i] \in Seq(1..MaxPort)
      <4> DEFINE q == parts[i]
                 A == spec[i].lo .. spec[i].hi
                 B == 1..MaxPort
      <4>1. q \in Seq(A) /\ A \subseteq B
        BY <3>2, <3>3
      <4> HIDE DEF q, A, B
      <4>2. q \in Seq(B)
        BY <4>1
      <4> QED
        BY <4>2 DEF q, B
    <3>5. \A p : p \in spec[i].lo .. spec[i].hi => p \in 1..MaxPort
      BY <3>3
    <3> QED
      BY <3>2, <3>3, <3>4, <3>5
  <2>2. CASE ~ValidPorts(spec[i])
    <3>1. parts[i] = <<>>
      BY <1>1, <2>2
    <3>2. ~(spec[i].hi <= MaxPort /\ 1 <= spec[i].lo) \/ spec[i].lo .. spec[i].hi = {}
      BY <1>1, <2>2 DEF ValidPorts
    <3>3. ToSet(<<>>) = {}
      BY DEF ToSet
    <3> HIDE DEF parts
    <3> QED
      BY <3>1, <3>2, <3>3
  <2> QED
    BY <2>1, <2>2
<1> HIDE DEF parts, n
<1>5. /\ FlattenSeq(parts) \in Seq(1..MaxPort)
      /\ ToSet(FlattenSeq(parts)) = UNION {ToSet(parts[i]) : i \in 1..n}
  BY <1>1, <1>3, <1>4, FlattenElements
<1>6. ASSUME NEW p \in ToSet(FlattenSeq(parts)) PROVE p \in MeantPorts(spec)
  <2>1. PICK i \in 1..n : p \in ToSet(parts[i])
    BY <1>5, <1>6
  <2> QED
    BY <1>1, <1>4, <2>1 DEF MeantPorts
<1>7. ASSUME NEW p \in MeantPorts(spec) PROVE p \in ToSet(FlattenSeq(parts))
  <2>1. PICK i \in 1..n : p \in ToSet(parts[i])
    BY <1>1, <1>4, <1>7 DEF MeantPorts
  <2> QED
    BY <1>5, <2>1
<1> QED
  BY <1>2, <1>5, <1>6, <1>7

LEMMA PortsMeant ==
  ASSUME NEW spec \in Seq(PortItems), NEW F \in BOOLEAN
  PROVE  /\ PortsOf(spec, F) \in Seq(1..MaxPort)
         /\ ~F => ToSet(PortsOf(spec, F)) =
                    IF MeantPorts(spec) = {} THEN ToSet(top_1000_ports) ELSE MeantPorts(spec)
<1> DEFINE s == _parse_int_list(spec)
<1>1. s \in Seq(1..MaxPort) /\ ToSet(s) = MeantPorts(spec)
  BY ParsedPorts
<1>2. PortsOf(spec, F) = IF F THEN top_100_ports ELSE IF s = <<>> THEN top_1000_ports ELSE s
  BY DEF PortsOf
<1> HIDE DEF s
<1>3. s = <<>> <=> ToSet(s) = {}
  <2>1. ToSet(<<>>) = {}
    BY DEF ToSet
  <2>2. ASSUME s # <<>> PROVE s[1] \in ToSet(s)
    BY <1>1, <2>2 DEF ToSet
  <2> QED
    BY <2>1, <2>2
<1> QED
  BY <1>1, <1>2, <1>3, ParserAssumption

-----------------------------------------------------------------------------
(* Profiles *)

OPTIONS == PROFILE_FIELDS \cup {"agressive", "shuffle", "rff", "rffp", "load", "save", "until"}

\* The options are all there, and those for the ports have their types.
Complete(a) ==
  /\ DOMAIN a = OPTIONS
  /\ a.port \in Seq(PortItems) /\ a.rffp \in Seq(Seq(PortItems)) /\ a.F \in BOOLEAN

LEMMA ArgsComplete ==
  ASSUME NEW a \in ArgsType
  PROVE  Complete(a)
BY DEF ArgsType, PROFILE_FIELDS, OPTIONS, Complete

LEMMA SettingsAre ==
  ASSUME NEW b
  PROVE  /\ DOMAIN Settings(b) = {f \in PROFILE_FIELDS : ~IsUnset(f, b[f])}
         /\ \A f \in DOMAIN Settings(b) : Settings(b)[f] = b[f]
BY DEF Settings

\* A profile adds no option and takes none away.
LEMMA LoadComplete ==
  ASSUME NEW a, Complete(a), NEW b, Complete(b)
  PROVE  /\ Complete(load_profile(a, Settings(b)))
         /\ \A f \in OPTIONS \ PROFILE_FIELDS : load_profile(a, Settings(b))[f] = a[f]
<1> DEFINE c == load_profile(a, Settings(b))
<1>1. DOMAIN Settings(b) \subseteq PROFILE_FIELDS /\ \A f \in DOMAIN Settings(b) : Settings(b)[f] = b[f]
  BY SettingsAre
<1>2. DOMAIN c = OPTIONS
  BY DEF Complete, load_profile
<1>3. \A f \in OPTIONS : c[f] \in {a[f], b[f]} /\ (f \notin PROFILE_FIELDS => c[f] = a[f])
  BY <1>1 DEF Complete, load_profile
<1> HIDE DEF c
<1>4. c.port \in {a.port, b.port} /\ c.rffp \in {a.rffp, b.rffp} /\ c.F \in {a.F, b.F}
  BY <1>3 DEF OPTIONS, PROFILE_FIELDS
<1>5. c.port \in Seq(PortItems) /\ c.rffp \in Seq(Seq(PortItems)) /\ c.F \in BOOLEAN
  BY <1>4 DEF Complete
<1>6. Complete(c)
  BY <1>2, <1>5 DEF Complete
<1> QED
  BY <1>3, <1>6 DEF c

\* Where the user gave nothing, loading restores what was saved, but for max_retries.
LEMMA LoadRestores ==
  ASSUME NEW a, Complete(a), NEW b, Complete(b),
         a.scan_type = "TCP", a.speed = "normal", \A f \in DOMAIN Unset : IsUnset(f, a[f])
  PROVE  \A f \in PROFILE_FIELDS \ {"max_retries"} : load_profile(a, Settings(b))[f] = b[f]
<1> SUFFICES ASSUME NEW f \in PROFILE_FIELDS \ {"max_retries"}
             PROVE  load_profile(a, Settings(b))[f] = b[f]
  OBVIOUS
<1>1. f \in DOMAIN a
  BY DEF Complete, OPTIONS
<1>2. _profile_attr_is_default(f, a[f])
  BY DEF _profile_attr_is_default, Unset, PROFILE_FIELDS
<1>3. load_profile(a, Settings(b))[f] = IF f \in DOMAIN Settings(b) THEN Settings(b)[f] ELSE a[f]
  BY <1>1, <1>2 DEF load_profile
<1>4. CASE IsUnset(f, b[f])
  <2>1. f \in DOMAIN Unset /\ b[f] = Unset[f]
    BY <1>4 DEF IsUnset
  <2>2. a[f] = Unset[f]
    BY <2>1 DEF IsUnset
  <2> QED
    BY <1>3, <1>4, <2>1, <2>2, SettingsAre
<1>5. CASE ~IsUnset(f, b[f])
  BY <1>3, <1>5, SettingsAre
<1> QED
  BY <1>4, <1>5

-----------------------------------------------------------------------------
(* The options of a run *)

\* What the run works with is a whole command line, and the file is what the first run left
\* until the second saves its own.
OptionsInv ==
  /\ run \in {1, 2} /\ pc \in Labels
  /\ Complete(command) /\ Complete(args)
  /\ pc = "profile" => args = command
  /\ first # NoFile => Complete(first.args)
  /\ run = 1 \/ pc \in {"profile", "targets", "ports", "save"} =>
       profile = IF first = NoFile THEN NoFile ELSE Settings(first.args)

LEMMA InitOptions == Init => OptionsInv
<1> SUFFICES ASSUME Init PROVE OptionsInv
  OBVIOUS
<1>1. command \in ArgsType /\ args = command
  BY SessionAssumption DEF Init
<1> QED
  BY <1>1, ArgsComplete DEF Init, OptionsInv, Labels

\* A record is no empty function.
LEMMA SavedIsSomething ==
  ASSUME NEW a, NEW t, NEW p
  PROVE  [args |-> a, targets |-> t, ports |-> p] # NoFile
<1> DEFINE r == [args |-> a, targets |-> t, ports |-> p]
<1>1. "args" \in DOMAIN r
  OBVIOUS
<1>2. DOMAIN NoFile = {}
  BY DEF NoFile
<1> HIDE DEF r
<1>3. r # NoFile
  BY <1>1, <1>2
<1> QED
  BY <1>3 DEF r

\* The options after loading and the aggressive ones.
LEMMA AppliedComplete ==
  ASSUME OptionsInv, ApplyProfile
  PROVE  /\ Complete(args')
         /\ args'.rff = command.rff /\ args'.rffp = command.rffp
<1> DEFINE loaded == IF args.load THEN load_profile(args, profile) ELSE args
<1>1. pc = "profile" /\ args = command /\ Complete(args)
  BY DEF OptionsInv, ApplyProfile
<1>2. profile = NoFile \/ (first # NoFile /\ profile = Settings(first.args) /\ Complete(first.args))
  BY <1>1 DEF OptionsInv
<1>3. Complete(loaded) /\ \A f \in OPTIONS \ PROFILE_FIELDS : loaded[f] = args[f]
  <2>1. CASE profile = NoFile
    <3>1. \A f \in OPTIONS : load_profile(args, profile)[f] = args[f]
      BY <1>1, <2>1 DEF load_profile, NoFile, Complete
    <3>2. DOMAIN load_profile(args, profile) = OPTIONS
      BY <1>1 DEF load_profile, Complete
    <3>3. {"port", "rffp", "F"} \subseteq OPTIONS
      BY DEF OPTIONS, PROFILE_FIELDS
    <3> QED
      BY <1>1, <3>1, <3>2, <3>3 DEF Complete
  <2>2. CASE profile # NoFile
    BY <1>1, <1>2, <2>2, LoadComplete
  <2> QED
    BY <2>1, <2>2
<1>4. args' = IF args.agressive
              THEN [loaded EXCEPT !.speed = "insane", !.scan_type = "SYN", !.F = TRUE]
              ELSE loaded
  BY DEF ApplyProfile
<1> HIDE DEF loaded
<1>5. {"port", "rff", "rffp", "F"} \subseteq OPTIONS /\ {"rff", "rffp"} \cap PROFILE_FIELDS = {}
  BY DEF OPTIONS, PROFILE_FIELDS
<1>6. DOMAIN args' = OPTIONS
  BY <1>3, <1>4 DEF Complete
<1>7. args'.port = loaded.port /\ args'.rffp = loaded.rffp /\ args'.rff = loaded.rff
      /\ args'.F \in {TRUE, loaded.F}
  BY <1>3, <1>4, <1>5 DEF Complete
<1> QED
  BY <1>1, <1>3, <1>5, <1>6, <1>7 DEF Complete

\* The ports of -p and of the file are a list of ports again.
LEMMA JoinedPorts ==
  ASSUME Complete(args), ParsePorts
  PROVE  /\ Complete(args')
         /\ \A f \in OPTIONS \ {"port"} : args'[f] = args[f]
         /\ args.rffp = <<>> => args'.port = args.port
<1>1. args' = [args EXCEPT !.port = @ \o FlattenSeq(args.rffp)]
  BY DEF ParsePorts
<1>2. {"port", "rffp", "F"} \subseteq OPTIONS
  BY DEF OPTIONS, PROFILE_FIELDS
<1>3. /\ DOMAIN args' = OPTIONS /\ args'.port = args.port \o FlattenSeq(args.rffp)
      /\ \A f \in OPTIONS \ {"port"} : args'[f] = args[f]
  BY <1>1, <1>2 DEF Complete
<1>4. FlattenSeq(args.rffp) \in Seq(PortItems)
  <2> DEFINE r == args.rffp
             n == Len(r)
  <2>1. r \in Seq(Seq(PortItems))
    BY DEF Complete
  <2> HIDE DEF r
  <2>2. n \in Nat /\ DOMAIN r = 1..n /\ Len(r) = n /\ (n = 0 => r = <<>>)
        /\ \A i \in 1..n : r[i] \in Seq(PortItems)
    BY <2>1
  <2> HIDE DEF n
  <2>3. FlattenSeq(r) \in Seq(PortItems)
    BY <2>2, FlattenElements
  <2> QED
    BY <2>3 DEF r
<1>5. args'.port \in Seq(PortItems)
  BY <1>3, <1>4 DEF Complete
<1>6. ASSUME args.rffp = <<>> PROVE args'.port = args.port
  <2>1. FlattenSeq(args.rffp) = <<>>
    BY <1>6 DEF FlattenSeq
  <2> QED
    BY <1>3, <2>1 DEF Complete
<1> QED
  BY <1>2, <1>3, <1>5, <1>6 DEF Complete

LEMMA NextOptions == OptionsInv /\ [Next]_vars => OptionsInv'
<1> SUFFICES ASSUME OptionsInv, [Next]_vars PROVE OptionsInv'
  OBVIOUS
<1> USE DEF Labels
<1>1. CASE ApplyProfile
  BY <1>1, AppliedComplete DEF ApplyProfile, OptionsInv
<1>2. CASE ParsePorts
  BY <1>2, JoinedPorts DEF ParsePorts, OptionsInv
<1>3. CASE SaveProfile
  <2>1. CASE args.save /\ run = 1
    <3>1. /\ first' = [args |-> args, targets |-> ToSet(targets), ports |-> ToSet(ports_to_scan)]
          /\ profile' = Settings(args)
      BY <1>3, <2>1 DEF SaveProfile
    <3>2. first' # NoFile /\ first'.args = args
      BY <3>1, SavedIsSomething
    <3> QED
      BY <1>3, <3>1, <3>2 DEF SaveProfile, OptionsInv
  <2>2. CASE ~(args.save /\ run = 1)
    BY <1>3, <2>2 DEF SaveProfile, OptionsInv
  <2> QED
    BY <2>1, <2>2
<1>4. CASE NextRun
  <2>1. command' \in ArgsType /\ args' = command'
    BY <1>4, SessionAssumption DEF NextRun
  <2> QED
    BY <1>4, <2>1, ArgsComplete DEF NextRun, OptionsInv
<1>5. CASE ParseTargets \/ Discover \/ InitializeResults \/ ScanPorts \/ Report
  BY <1>5 DEF ParseTargets, Discover, InitializeResults, ScanPorts, Report, OptionsInv
<1>6. CASE Terminated \/ UNCHANGED vars
  BY <1>6 DEF Terminated, vars, OptionsInv
<1> QED
  BY <1>1, <1>2, <1>3, <1>4, <1>5, <1>6 DEF Next

-----------------------------------------------------------------------------
(* The lists of a run, and what the first run saved *)

LinesOf(a)   == IF a.rff # <<>> THEN a.rff ELSE <<a.target>>
TargetsIn(a) == ToSet(TargetsOf(LinesOf(a), a.exclude))
PortsIn(a)   == ToSet(PortsOf(a.port, a.F))

\* The lists are those of the options, and so are those the first run noted when it saved.
ListsInv ==
  /\ pc \in Labels \ {"profile", "targets", "exit"} => ToSet(targets) = TargetsIn(args)
  /\ pc \in Labels \ {"profile", "targets", "ports", "exit"} => ToSet(ports_to_scan) = PortsIn(args)
  /\ first # NoFile => first.targets = TargetsIn(first.args) /\ first.ports = PortsIn(first.args)

LEMMA InitLists == Init => ListsInv
BY DEF Init, ListsInv

LEMMA ScannedPorts ==
  ASSUME OptionsInv, ParsePorts
  PROVE  ToSet(ports_to_scan') = PortsIn(args')
<1> DEFINE ports == PortsOf(args'.port, args'.F)
<1>1. Complete(args')
  BY JoinedPorts DEF OptionsInv
<1>2. ports \in Seq(1..MaxPort)
  BY <1>1, PortsMeant DEF Complete
<1>3. \/ ports_to_scan' = ports
      \/ \E order \in SetToSeqs(DOMAIN ports) :
           ports_to_scan' = [i \in DOMAIN ports |-> ports[order[i]]]
  <2>1. args'.F = args.F
    BY JoinedPorts DEF OptionsInv, OPTIONS, PROFILE_FIELDS
  <2> QED
    BY <2>1 DEF ParsePorts
<1> HIDE DEF ports
<1>4. ToSet(ports_to_scan') = ToSet(ports)
  BY <1>2, <1>3, ShuffleElements
<1> QED
  BY <1>4 DEF PortsIn, ports

LEMMA NextLists == OptionsInv /\ ListsInv /\ [Next]_vars => ListsInv'
<1> SUFFICES ASSUME OptionsInv, ListsInv, [Next]_vars PROVE ListsInv'
  OBVIOUS
<1> USE DEF Labels
<1>1. CASE ApplyProfile
  BY <1>1 DEF ApplyProfile, ListsInv, lists
<1>2. CASE ParseTargets
  <2>1. ToSet(targets') = TargetsIn(args) /\ args' = args
    BY <1>2 DEF ParseTargets, TargetsIn, LinesOf
  <2> QED
    BY <1>2, <2>1 DEF ParseTargets, ListsInv
<1>3. CASE ParsePorts
  <2>1. \A f \in {"rff", "target", "exclude"} : args'[f] = args[f]
    BY <1>3, JoinedPorts DEF OptionsInv, OPTIONS, PROFILE_FIELDS
  <2>2. TargetsIn(args') = TargetsIn(args)
    BY <2>1 DEF TargetsIn, LinesOf
  <2> QED
    BY <1>3, <2>2, ScannedPorts DEF ParsePorts, ListsInv
<1>4. CASE SaveProfile
  <2>1. CASE args.save /\ run = 1
    <3>1. first' = [args |-> args, targets |-> ToSet(targets), ports |-> ToSet(ports_to_scan)]
      BY <1>4, <2>1 DEF SaveProfile
    <3>2. first'.args = args /\ first'.targets = ToSet(targets) /\ first'.ports = ToSet(ports_to_scan)
      BY <3>1
    <3> QED
      BY <1>4, <3>2 DEF SaveProfile, ListsInv, lists
  <2>2. CASE ~(args.save /\ run = 1)
    BY <1>4, <2>2 DEF SaveProfile, ListsInv, lists
  <2> QED
    BY <2>1, <2>2
<1>5. CASE Discover \/ InitializeResults \/ ScanPorts \/ Report
  BY <1>5 DEF Discover, InitializeResults, ScanPorts, Report, ListsInv, lists
<1>6. CASE NextRun
  BY <1>6 DEF NextRun, ListsInv
<1>7. CASE Terminated \/ UNCHANGED vars
  BY <1>7 DEF Terminated, vars, ListsInv, lists
<1> QED
  BY <1>1, <1>2, <1>3, <1>4, <1>5, <1>6, <1>7 DEF Next

\* The ports scanned are those of the valid items of -p and of the file of ports, in any
\* order, and the usual ones only if there are none; for any list of items, however they
\* overlap, and any limit of ports.
THEOREM PortsAreMeantHolds == Spec => []PortsAreMeant
<1>1. OptionsInv /\ ListsInv => PortsAreMeant
  <2> SUFFICES ASSUME OptionsInv, ListsInv, ~args.F,
                      pc \in {"save", "discovery", "records", "scan", "report"}
               PROVE  ToSet(ports_to_scan) =
                        IF MeantPorts(args.port) = {} THEN ToSet(top_1000_ports)
                        ELSE MeantPorts(args.port)
    BY DEF PortsAreMeant, MeantPorts
  <2>1. ToSet(ports_to_scan) = ToSet(PortsOf(args.port, args.F))
    BY DEF ListsInv, Labels, PortsIn
  <2>2. args.port \in Seq(PortItems) /\ args.F \in BOOLEAN
    BY DEF OptionsInv, Complete
  <2> QED
    BY <2>1, <2>2, PortsMeant
<1> QED
  BY <1>1, InitOptions, NextOptions, InitLists, NextLists, PTL DEF Spec

-----------------------------------------------------------------------------
(* What a profile restores *)

\* A run that gave no option and loaded a profile works with the options of the first.
Restored ==
  run = 2 /\ pc \in Labels \ {"profile", "exit"} /\ NoOptions(command) =>
    /\ first # NoFile
    /\ \A f \in PROFILE_FIELDS \ {"max_retries"} : args[f] = first.args[f]
    /\ args.rff = <<>> /\ args.rffp = <<>>

LEMMA NextRestored == OptionsInv /\ Restored /\ [Next]_vars => Restored'
<1> SUFFICES ASSUME OptionsInv, Restored, [Next]_vars, run' = 2,
                    pc' \in Labels \ {"profile", "exit"}, NoOptions(command)'
             PROVE  /\ first' # NoFile
                    /\ \A f \in PROFILE_FIELDS \ {"max_retries"} : args'[f] = first'.args[f]
                    /\ args'.rff = <<>> /\ args'.rffp = <<>>
  BY DEF Restored
<1> USE DEF Labels
<1>1. CASE ApplyProfile
  <2>1. /\ pc = "profile" /\ run = 2 /\ command' = command /\ first' = first
        /\ args = command /\ Complete(command) /\ NoOptions(command)
    BY <1>1 DEF ApplyProfile, OptionsInv, NoOptions
  <2>2. command.load /\ ~command.agressive /\ profile # NoFile
    BY <1>1, <2>1 DEF ApplyProfile, NoOptions
  <2>3. first # NoFile /\ profile = Settings(first.args) /\ Complete(first.args)
    BY <2>1, <2>2 DEF OptionsInv
  <2>4. args' = load_profile(command, Settings(first.args))
    BY <1>1, <2>1, <2>2, <2>3 DEF ApplyProfile
  <2>5. \A f \in PROFILE_FIELDS \ {"max_retries"} : args'[f] = first.args[f]
    BY <2>1, <2>3, <2>4, LoadRestores DEF NoOptions
  <2>6. args'.rff = command.rff /\ args'.rffp = command.rffp
    BY <1>1, AppliedComplete
  <2> QED
    BY <2>1, <2>3, <2>5, <2>6 DEF NoOptions
<1>2. CASE ParsePorts
  <2>1. /\ Restored /\ run = 2 /\ pc = "ports" /\ command' = command /\ first' = first
        /\ NoOptions(command) /\ Complete(args)
    BY <1>2 DEF ParsePorts, OptionsInv, NoOptions
  <2>2. /\ first # NoFile /\ args.rff = <<>> /\ args.rffp = <<>>
        /\ \A f \in PROFILE_FIELDS \ {"max_retries"} : args[f] = first.args[f]
    BY <2>1 DEF Restored
  <2>3. \A f \in OPTIONS : args'[f] = args[f]
    BY <1>2, <2>1, <2>2, JoinedPorts
  <2>4. PROFILE_FIELDS \cup {"rff", "rffp"} \subseteq OPTIONS
    BY DEF OPTIONS
  <2> QED
    BY <2>1, <2>2, <2>3, <2>4
<1>3. CASE SaveProfile
  <2>1. run = 2 /\ UNCHANGED <<command, args, first>> /\ pc = "save" /\ NoOptions(command)
    BY <1>3 DEF SaveProfile, NoOptions
  <2> QED
    BY <2>1 DEF Restored
<1>4. CASE ParseTargets \/ Discover \/ InitializeResults \/ ScanPorts \/ Report
  <2>1. /\ UNCHANGED <<run, command, args, first>> /\ NoOptions(command)
        /\ pc \in Labels \ {"profile", "exit"}
    BY <1>4 DEF ParseTargets, Discover, InitializeResults, ScanPorts, Report, NoOptions
  <2> QED
    BY <2>1 DEF Restored
<1>5. CASE NextRun
  BY <1>5 DEF NextRun
<1>6. CASE Terminated \/ UNCHANGED vars
  <2>1. UNCHANGED <<run, pc, command, args, first>>
    BY <1>6 DEF Terminated, vars
  <2> QED
    BY <2>1 DEF Restored, NoOptions
<1> QED
  BY <1>1, <1>2, <1>3, <1>4, <1>5, <1>6 DEF Next

\* A run that loads what the first saved, and gives no option of its own, scans the same
\* targets for the same ports in the same way, whatever options the first run had: the
\* options that are not written are those whose default means "not given", and the ports of
\* a file were saved with those of -p.  Only max_retries is not restored.
THEOREM ProfileRestoresHolds == Spec => []ProfileRestores
<1>1. OptionsInv /\ ListsInv /\ Restored => ProfileRestores
  <2> SUFFICES ASSUME OptionsInv, ListsInv, Restored, run = 2, pc = "discovery",
                      NoOptions(command), first.args.rff = <<>>
               PROVE  /\ \A f \in PROFILE_FIELDS \ {"max_retries"} : args[f] = first.args[f]
                      /\ ToSet(targets) = first.targets
                      /\ ToSet(ports_to_scan) = first.ports
    BY DEF ProfileRestores
  <2>1. /\ first # NoFile /\ args.rff = <<>>
        /\ \A f \in PROFILE_FIELDS \ {"max_retries"} : args[f] = first.args[f]
    BY DEF Restored, Labels
  <2>2. \A f \in {"target", "exclude", "port", "F"} : args[f] = first.args[f]
    BY <2>1 DEF PROFILE_FIELDS
  <2>3. TargetsIn(args) = TargetsIn(first.args) /\ PortsIn(args) = PortsIn(first.args)
    BY <2>1, <2>2 DEF TargetsIn, PortsIn, LinesOf
  <2>4. /\ ToSet(targets) = TargetsIn(args) /\ ToSet(ports_to_scan) = PortsIn(args)
        /\ first.targets = TargetsIn(first.args) /\ first.ports = PortsIn(first.args)
    BY <2>1 DEF ListsInv, Labels
  <2> QED
    BY <2>1, <2>3, <2>4
<1>2. Init => Restored
  BY DEF Init, Restored
<1> QED
  BY <1>1, <1>2, InitOptions, NextOptions, InitLists, NextLists, NextRestored, PTL DEF Spec

-----------------------------------------------------------------------------
(* From discovery to the report *)

\* What the discovery listed has a fresh record before the scan and is judged after it,
\* whatever the discovery left of the records.
FoundInv ==
  /\ pc \in {"profile", "targets", "ports", "save", "discovery"} => targetss = {}
  /\ targetss \subseteq ToSet(targets)
  /\ pc = "scan"   => \A t \in targetss : t \in DOMAIN target_results /\ target_results[t] = "fresh"
  /\ pc = "report" => \A t \in targetss : t \in DOMAIN target_results /\ target_results[t] = "judged"
  /\ pc = "exit" /\ targetss # {} /\ args.until = "end" => reported = targetss

LEMMA InitFound == Init => FoundInv
BY DEF Init, FoundInv

LEMMA NextFound == FoundInv /\ [Next]_vars => FoundInv'
<1> SUFFICES ASSUME FoundInv, [Next]_vars PROVE FoundInv'
  OBVIOUS
<1>1. CASE ApplyProfile
  BY <1>1 DEF ApplyProfile, lists, FoundInv
<1>2. CASE ParseTargets
  <2>1. targetss = {} /\ targetss' = {} /\ pc' \in {"exit", "ports"}
    BY <1>2 DEF ParseTargets, FoundInv
  <2> QED
    BY <2>1 DEF FoundInv
<1>3. CASE ParsePorts
  BY <1>3 DEF ParsePorts, FoundInv
<1>4. CASE SaveProfile
  BY <1>4 DEF SaveProfile, lists, FoundInv
<1>5. CASE Discover
  <2>1. /\ targetss' \subseteq ToSet(targets) /\ targets' = targets /\ args' = args
        /\ pc' = IF args.until = "sn" THEN "exit" ELSE "records"
    BY <1>5 DEF Discover
  <2> QED
    BY <2>1 DEF FoundInv
<1>6. CASE InitializeResults
  <2>1. /\ pc = "records" /\ pc' = "scan" /\ UNCHANGED <<targets, targetss>>
        /\ \A t \in targetss : t \in DOMAIN target_results' /\ target_results'[t] = "fresh"
    BY <1>6 DEF InitializeResults
  <2> QED
    BY <2>1 DEF FoundInv
<1>7. CASE ScanPorts
  <2>1. /\ pc = "scan" /\ pc' = "report" /\ UNCHANGED <<targets, targetss>>
        /\ target_results' = [ t \in DOMAIN target_results |->
             IF t \notin targetss THEN target_results[t]
             ELSE IF target_results[t] = "answers only" THEN "KeyError" ELSE "judged" ]
    BY <1>7 DEF ScanPorts
  <2>2. \A t \in targetss : t \in DOMAIN target_results /\ target_results[t] = "fresh"
    BY <2>1 DEF FoundInv
  <2>3. \A t \in targetss : t \in DOMAIN target_results' /\ target_results'[t] = "judged"
    BY <2>1, <2>2
  <2> QED
    BY <2>1, <2>3 DEF FoundInv
<1>8. CASE Report
  <2>1. /\ pc = "report" /\ pc' = "exit" /\ UNCHANGED <<targets, targetss, args>>
        /\ reported' = {t \in targetss \cap DOMAIN target_results : target_results[t] = "judged"}
    BY <1>8 DEF Report, lists
  <2>2. reported' = targetss
    BY <2>1 DEF FoundInv
  <2> QED
    BY <2>1, <2>2 DEF FoundInv
<1>9. CASE NextRun
  BY <1>9 DEF NextRun, FoundInv
<1>10. CASE Terminated \/ UNCHANGED vars
  BY <1>10 DEF Terminated, vars, lists, FoundInv
<1> QED
  BY <1>1, <1>2, <1>3, <1>4, <1>5, <1>6, <1>7, <1>8, <1>9, <1>10 DEF Next

\* Every target a discovery lists is judged and reported, whichever targets answer and
\* whatever the discovery left of their records.
THEOREM FoundIsReportedHolds == Spec => []FoundIsReported
<1>1. FoundInv => FoundIsReported
  BY DEF FoundInv, FoundIsReported
<1> QED
  BY <1>1, InitFound, NextFound, PTL DEF Spec
=============================================================================
