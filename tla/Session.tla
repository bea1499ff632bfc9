------------------------------ MODULE Session ------------------------------
(***************************************************************************)
(* _run_scan_mode of Lightscan.py: what strings the parsing of targets and *)
(* ports, discovery, the port scan and the report together, and the        *)
(* profile one run saves and a later run loads (save_profile,              *)
(* load_profile).  The runs are processes: all they share is the file.     *)
(*                                                                         *)
(* Discovery and the port scan are what HostDiscovery and PortScan promise *)
(* of them: some of the targets answer, and every port of them is judged.  *)
(***************************************************************************)
EXTENDS TargetParser

CONSTANTS FirstArgs,   \* the command lines of the first run
          SecondArgs,  \* those of the second, which may load its profile
          Silent       \* the targets that may fail to answer a discovery

\* A command line.  The first eight fields are those of PROFILE_FIELDS modelled here,
\* "until" names the option that ends the run early (--lst, --port-lst, -sn).
ArgsType ==
  [ target      : Seq(Items),
    exclude     : Seq(Items),
    port        : Seq(PortItems),
    scan_type   : {"TCP", "SYN", "FIN", "PING"},
    speed       : {"normal", "slow", "insane"},
    F           : BOOLEAN,
    no_ping     : BOOLEAN,
    max_retries : Nat,
    agressive   : BOOLEAN,
    shuffle     : BOOLEAN,
    rff         : Seq(Seq(Items)),
    rffp        : Seq(Seq(PortItems)),
    load        : BOOLEAN,
    save        : BOOLEAN,
    until       : {"lst", "port_lst", "sn", "end"} ]

ASSUME SessionAssumption ==
  /\ FirstArgs \cup SecondArgs \subseteq ArgsType
  /\ Silent \subseteq Address

PROFILE_FIELDS ==
  {"target", "exclude", "port", "scan_type", "speed", "F", "no_ping", "max_retries"}

Labels == {"profile", "targets", "ports", "save", "discovery", "records", "scan", "report", "exit"}
Records == {"fresh", "counted", "answers only", "judged", "KeyError"}
NoRecord == [t \in {} |-> "fresh"]
NoFile == [f \in {} |-> {}]

VARIABLES run,            \* 1 or 2: which process
          pc,             \* the next step of _run_scan_mode
          command,        \* the command line
          args,           \* the options as the run uses them
          targets,        \* the targets asked for
          targetss,       \* the targets to scan, a set: their order is HostDiscovery's matter
          ports_to_scan,  \* the ports to scan
          target_results, \* the state of the record of each target that has one
          reported,       \* the targets the report printed
          profile,        \* the settings in the file of the profile
          first           \* what the first run worked with when it saved

lists == <<targets, targetss, ports_to_scan, target_results>>
vars == <<run, command, pc, args, lists, reported, profile, first>>

Init ==
  /\ run = 1
  /\ pc = "profile"
  /\ command \in FirstArgs
  /\ args = command
  /\ targets = <<>>
  /\ targetss = {}
  /\ ports_to_scan = <<>>
  /\ target_results = NoRecord
  /\ reported = {}
  /\ profile = NoFile
  /\ first = NoFile

-----------------------------------------------------------------------------
(* Profiles *)

\* None, False and "" are not written; a number always is.
Unset == [target |-> <<>>, exclude |-> <<>>, port |-> <<>>, F |-> FALSE, no_ping |-> FALSE]
IsUnset(f, value) == f \in DOMAIN Unset /\ value = Unset[f]

Settings(a) == [f \in {g \in PROFILE_FIELDS : ~IsUnset(g, a[g])} |-> a[f]]

\* Variants named after a mistake are not part of the session: each is what a plausible
\* bug would make of the definition that follows it.
_profile_attr_is_default_unnamed(f, value) == IsUnset(f, value)

\* The defaults of the type of scan and of the speed are known by name, that of
\* max_retries is not: it is never taken from a profile.
_profile_attr_is_default(f, value) ==
  CASE f = "scan_type" -> value = "TCP"
    [] f = "speed"     -> value = "normal"
    [] OTHER           -> IsUnset(f, value)

load_profile(a, settings) ==
  [ f \in DOMAIN a |->
      IF f \in DOMAIN settings /\ _profile_attr_is_default(f, a[f]) THEN settings[f] ELSE a[f] ]

\* _apply_profile and agressive_scan_config; without a file the run ends.
ApplyProfile ==
  /\ pc = "profile"
  /\ LET loaded == IF args.load THEN load_profile(args, profile) ELSE args
     IN  args' = IF args.agressive
                 THEN [loaded EXCEPT !.speed = "insane", !.scan_type = "SYN", !.F = TRUE]
                 ELSE loaded
  /\ pc' = IF args.load /\ profile = NoFile THEN "exit" ELSE "targets"
  /\ UNCHANGED <<run, command, lists, reported, profile, first>>

SaveProfile ==
  /\ pc = "save"
  /\ profile' = IF args.save THEN Settings(args) ELSE profile
  /\ first' = IF args.save /\ run = 1
              THEN [args |-> args, targets |-> ToSet(targets), ports |-> ToSet(ports_to_scan)]
              ELSE first
  /\ pc' = IF args.scan_type = "PING" THEN "exit" ELSE "discovery"
  /\ UNCHANGED <<run, command, args, lists, reported>>

-----------------------------------------------------------------------------
(* Targets and ports *)

\* With --rff the targets are those of the file, and -T is not looked at.
ParseTargets ==
  /\ pc = "targets"
  /\ targets' = TargetsOf(IF args.rff # <<>> THEN args.rff ELSE <<args.target>>, args.exclude)
  /\ target_results' = [t \in ToSet(targets') |-> "fresh"]
  /\ pc' = IF args.until = "lst" THEN "exit" ELSE "ports"
  /\ UNCHANGED <<run, command, args, targetss, ports_to_scan, reported, profile, first>>

\* rffp appends the lines of a file to -p.
ParsePorts ==
  /\ pc = "ports"
  /\ args' = [args EXCEPT !.port = @ \o FlattenSeq(args.rffp)]
  /\ LET ports == PortsOf(args'.port, args.F)
     IN  IF args.shuffle
         THEN \E order \in SetToSeqs(DOMAIN ports) :
                ports_to_scan' = [i \in DOMAIN ports |-> ports[order[i]]]
         ELSE ports_to_scan' = ports
  /\ pc' = IF args.until = "port_lst" THEN "exit" ELSE "save"
  /\ UNCHANGED <<run, command, targets, targetss, target_results, reported, profile, first>>

-----------------------------------------------------------------------------
(* Discovery, scan and report *)

\* The targets that answer are listed.  A discovery counts in the record of a target,
\* or puts a record of its own in its place.
Discover ==
  /\ pc = "discovery"
  /\ IF args.no_ping
     THEN targetss' = ToSet(targets) /\ UNCHANGED target_results
     ELSE \E quiet \in SUBSET (Silent \cap ToSet(targets)), left \in {"counted", "answers only"} :
            /\ targetss' = ToSet(targets) \ quiet
            /\ target_results' = [t \in ToSet(targets) |-> left]
  /\ pc' = IF args.until = "sn" THEN "exit" ELSE "records"
  /\ UNCHANGED <<run, command, args, targets, ports_to_scan, reported, profile, first>>

\* A variant for the check of FoundIsReported: only a target without a record gets one.
InitializeResultsIfNone ==
  /\ pc = "records"
  /\ target_results' = [ t \in DOMAIN target_results \cup targetss |->
       IF t \in DOMAIN target_results THEN target_results[t] ELSE "fresh" ]
  /\ pc' = "scan"
  /\ UNCHANGED <<run, command, args, targets, targetss, ports_to_scan, reported, profile, first>>

InitializeResults ==
  /\ pc = "records"
  /\ target_results' = [ t \in DOMAIN target_results \cup targetss |->
       IF t \in targetss THEN "fresh" ELSE target_results[t] ]
  /\ pc' = "scan"
  /\ UNCHANGED <<run, command, args, targets, targetss, ports_to_scan, reported, profile, first>>

\* A verdict is appended to a list of the record, which a record of IP ping does not have.
ScanPorts ==
  /\ pc = "scan"
  /\ target_results' = [ t \in DOMAIN target_results |->
       IF t \notin targetss THEN target_results[t]
       ELSE IF target_results[t] = "answers only" THEN "KeyError" ELSE "judged" ]
  /\ pc' = "report"
  /\ UNCHANGED <<run, command, args, targets, targetss, ports_to_scan, reported, profile, first>>

Report ==
  /\ pc = "report"
  /\ reported' = {t \in targetss \cap DOMAIN target_results : target_results[t] = "judged"}
  /\ pc' = "exit"
  /\ UNCHANGED <<run, command, args, lists, profile, first>>

\* Another process starts: nothing is left of the first but the file.
NextRun ==
  /\ pc = "exit" /\ run = 1
  /\ run' = 2
  /\ pc' = "profile"
  /\ command' \in SecondArgs
  /\ args' = command'
  /\ targets' = <<>> /\ targetss' = {} /\ ports_to_scan' = <<>>
  /\ target_results' = NoRecord
  /\ reported' = {}
  /\ UNCHANGED <<profile, first>>

Terminated == pc = "exit" /\ run = 2 /\ UNCHANGED vars

Next == \/ ApplyProfile \/ ParseTargets \/ ParsePorts \/ SaveProfile \/ Discover
        \/ InitializeResults \/ ScanPorts \/ Report \/ NextRun \/ Terminated

Spec == Init /\ [][Next]_vars
-----------------------------------------------------------------------------
(* Properties *)

Lines == IF args.rff # <<>> THEN args.rff ELSE <<args.target>>
Asked == UNION {Addresses(Lines[i]) : i \in DOMAIN Lines}
Named == UNION {ByName(Lines[i]) : i \in DOMAIN Lines}

Parsed == pc \in Labels \ {"profile", "targets"} /\ ~(args.load /\ profile = NoFile)

\* What is scanned is what -T means, address by address, without what --exclude means:
\* each once, nothing else, and nothing left out.  Only where a name is involved may an
\* excluded address be scanned all the same: targets are taken out before names are
\* resolved.  Nothing is claimed of full ranges, a.b.c.d-a.b.c.e: FullRangesAreMeant is
\* about them.
TargetsAreMeant ==
  Parsed =>
    LET surely == UNION {Addresses(Understood(Lines[i])) : i \in DOMAIN Lines}
        not    == Addresses(Understood(args.exclude))
    IN  /\ ToSet(targets) \subseteq Asked
        /\ surely \ Addresses(args.exclude) \subseteq ToSet(targets)
        /\ ToSet(targets) \cap not \subseteq Named \cup ByName(args.exclude)
        /\ Cardinality(ToSet(targets)) = Len(targets)

\* Nothing that is asked for and not excluded is left out, full ranges like
\* '192.168.1.1-192.168.1.254' included, which the docstring of TargetParser lists as
\* supported.  It fails: their branch of expand_hyphen_range asks for seven dots.
FullRangesAreMeant == Parsed => Asked \ Addresses(args.exclude) \subseteq ToSet(targets)

\* The ports scanned are those of the valid items of -p and of the file of ports, in
\* any order, and the thousand usual ones only if there are none; one wrong item does
\* not cost the others.
PortsAreMeant ==
  pc \in {"save", "discovery", "records", "scan", "report"} /\ ~args.F =>
    LET meant == {p \in 1..MaxPort : \E i \in DOMAIN args.port :
                    /\ args.port[i].hi <= MaxPort /\ 1 <= args.port[i].lo
                    /\ p \in args.port[i].lo .. args.port[i].hi}
    IN  ToSet(ports_to_scan) = IF meant = {} THEN ToSet(top_1000_ports) ELSE meant

\* A run that loads what another saved, and gives no option of its own, scans the same
\* targets for the same ports in the same way; max_retries is left out, which no
\* profile restores, and a file of targets, which no profile names.
NoOptions(a) ==
  /\ a.load
  /\ a.scan_type = "TCP" /\ a.speed = "normal"
  /\ \A f \in DOMAIN Unset : IsUnset(f, a[f])
  /\ a.rff = <<>> /\ a.rffp = <<>> /\ ~a.agressive

ProfileRestores ==
  run = 2 /\ pc = "discovery" /\ NoOptions(command) /\ first.args.rff = <<>> =>
    /\ \A f \in PROFILE_FIELDS \ {"max_retries"} : args[f] = first.args[f]
    /\ ToSet(targets) = first.targets
    /\ ToSet(ports_to_scan) = first.ports

\* Every target a discovery lists is judged and reported: whatever a discovery left of
\* its record, the port scan finds the lists it appends to.
FoundIsReported ==
  pc = "exit" /\ targetss # {} /\ args.until = "end" =>
    reported = targetss /\ reported \subseteq ToSet(targets)
=============================================================================
