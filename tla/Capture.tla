----------------------------- MODULE Capture -----------------------------
(***************************************************************************)
(* A capture of LightSniff and the file it leaves (LightSniff.py, main;    *)
(* Sniffer.py, stream), stopped by Ctrl+C, by the Stop button of the panel *)
(* (CapWorker.py: SIGTERM, then a kill after three seconds) or by -c, and  *)
(* the replay of that file afterwards (utils/replay.py).                   *)
(*                                                                         *)
(* A signal is taken between two steps of the program: Python runs its     *)
(* handler at the next bytecode, so never within a call of the C library,  *)
(* and while one is pending no other step is taken.  A kill may come at    *)
(* any time and leaves whatever part of the file had reached the disk.     *)
(***************************************************************************)
EXTENDS Integers, Sequences, SequencesExt, CaptureFile

CONSTANTS
  Ours,         \* frames of the wire that --mac lets through
  Foreign,      \* frames it does not
  Links,        \* link types of the interface
  MaxFrames,    \* bound: frames that arrive
  MaxSignals    \* bound: signals that are sent

\* A frame is as long as it was on the wire, whatever the snaplen of the interface: the
\* sockets take header.len bytes.  Nothing cuts it here; no link has frames of 64 MiB.
ASSUME FramesAssumption ==
  /\ Ours \cap Foreign = {}
  /\ \A f \in Ours \cup Foreign : f \in Seq(Byte) /\ Len(f) <= PCAPNG_MAX_PACKET
ASSUME LinksAssumption == Links \subseteq 1..255
\* lbn counts the packets in 32 bits.
ASSUME BoundsAssumption == MaxFrames \in Nat /\ MaxFrames \div 65536 < 65536 /\ MaxSignals \in Nat

Signals == {"SIGINT", "SIGTERM"}

VARIABLES
  opts,       \* what the command line asks for
  pc,         \* where main() is
  handling,   \* within one of its exception handlers
  frame,      \* the frame being handled
  captured,   \* Sniffer._packets_captured
  packets,    \* the list of packets to save
  file,       \* what is on disk: how many blocks, and how many bytes of the next one
  written,    \* blocks the open pcapng writer has taken
  pending,    \* a signal Python has not handled yet
  signals,    \* how many were sent
  stopping,   \* the panel has sent SIGTERM and waits
  outcome,    \* how the capture ended
  replay      \* the replay of the file

capture == <<opts, pc, handling, frame, captured, packets, file, written, outcome>>
vars == <<capture, pending, signals, stopping, replay>>

\* The command lines that write a capture file, by the suffix of -w: .pcap, .pcapng, or
\* any other for lbn, which is written in one order.  (.lhex and .hex, a text of its
\* own, are not modelled.)  -c 0 is no limit.
Options ==
  { o \in [format : Formats, order : Orders, link : Links, count : {0, 1}] :
      o.format \in {"lbn", "lbn compressed"} => o.order = "little" }

blocks == Blocks(opts.format, packets, opts.link, opts.order)
Count  == Len(packets) + (IF opts.format = "pcapng" THEN 2 ELSE 1)
Over   == pc = "over"

\* The file that ends after n blocks, the files that end within them, and the bytes.
Upto(n)  == [whole |-> n, part |-> 0]
Cuts(n)  == UNION { { [whole |-> i - 1, part |-> k] : k \in 0..(Len(blocks[i]) - 1) } : i \in 1..n }
Contents ==
  FlattenSeq(SubSeq(blocks, 1, file.whole))
  \o (IF file.part = 0 THEN <<>> ELSE SubSeq(blocks[file.whole + 1], 1, file.part))

Init ==
  /\ opts \in Options
  /\ pc = "loop" /\ handling = FALSE
  /\ frame = <<>> /\ captured = 0 /\ packets = <<>>
  /\ file = Upto(0) /\ written = 0
  /\ pending = "none" /\ signals = 0 /\ stopping = FALSE
  /\ outcome = "none"
  /\ replay = [at |-> "idle", loop |-> 0, count |-> 0, pass |-> 0, i |-> 0, stop |-> FALSE,
               found |-> <<>>, raises |-> FALSE]

\* A step of the Python program at p.
At(p) == pc = p /\ pending = "none" /\ UNCHANGED <<opts, pending, signals, stopping, replay>>

-----------------------------------------------------------------------------
(* Capturing: Sniffer.stream and callback() *)

\* Nothing is written when there is nothing to write.
Save == IF packets = <<>> THEN "stats" ELSE "save"

Stream ==
  /\ At("loop")
  /\ pc' = IF opts.count # 0 /\ captured >= opts.count THEN Save ELSE "recv"
  /\ UNCHANGED <<handling, frame, captured, packets, file, written, outcome>>

\* recv_one waits a quarter of a second.
RecvTimeout ==
  /\ At("recv")
  /\ pc' = "loop"
  /\ UNCHANGED <<handling, frame, captured, packets, file, written, outcome>>

Recv ==
  /\ At("recv")
  /\ captured < MaxFrames
  /\ \E f \in Ours \cup Foreign : frame' = f
  /\ captured' = captured + 1
  /\ pc' = "callback"
  /\ UNCHANGED <<handling, packets, file, written, outcome>>

\* callback(): the frame is kept, then printed.
Callback ==
  /\ At("callback")
  /\ IF frame \in Foreign
     THEN pc' = "loop" /\ UNCHANGED packets
     ELSE pc' = "print" /\ packets' = Append(packets, frame)
  /\ frame' = <<>>
  /\ UNCHANGED <<handling, captured, file, written, outcome>>

PacketCallback ==
  /\ At("print")
  /\ pc' = "loop"
  /\ UNCHANGED <<handling, frame, captured, packets, file, written, outcome>>

\* Dissecting or printing a frame raises: "except Exception" saves nothing.
CallbackRaises ==
  /\ At("callback") \/ At("print")
  /\ pc' = "over" /\ outcome' = "raised"
  /\ frame' = <<>>
  /\ UNCHANGED <<handling, captured, packets, file, written>>

-----------------------------------------------------------------------------
(* Saving: the same code in the body of the try and in its handlers *)

\* pcap and lbn: one call of the C library.
WriteFile ==
  /\ At("save")
  /\ opts.format # "pcapng"
  /\ file' = Upto(Count)
  /\ pc' = "stats"
  /\ UNCHANGED <<handling, frame, captured, packets, written, outcome>>

\* The disk is full: the result of the call is not looked at.
WriteFileFails ==
  /\ At("save")
  /\ opts.format # "pcapng"
  /\ file' \in Cuts(Count)
  /\ pc' = "stats" /\ outcome' = "full"
  /\ UNCHANGED <<handling, frame, captured, packets, written>>

\* PcapngWriter.__init__: the file is emptied, and the section header written.
Open ==
  /\ At("save")
  /\ opts.format = "pcapng"
  /\ file' = Upto(0)
  /\ written' = 1
  /\ pc' = "write"
  /\ UNCHANGED <<handling, frame, captured, packets, outcome>>

\* add_interface, then write_packet for each packet.
WriteBlock ==
  /\ At("write")
  /\ written < Count
  /\ written' = written + 1
  /\ UNCHANGED <<pc, handling, frame, captured, packets, file, outcome>>

\* PcapngError leaves the with statement, which closes the file, and main().
WriteBlockFails ==
  /\ At("write")
  /\ file' \in Cuts(written)
  /\ pc' = "over" /\ outcome' = "full" /\ written' = 0
  /\ UNCHANGED <<handling, frame, captured, packets>>

\* PcapngWriter.close: the C call closes the file ...
Close ==
  /\ At("write")
  /\ written = Count
  /\ file' = Upto(Count)
  /\ pc' = "closed"
  /\ UNCHANGED <<handling, frame, captured, packets, written, outcome>>

\* ... and then the writer is marked closed.
MarkClosed ==
  /\ At("closed")
  /\ written' = 0
  /\ pc' = "stats"
  /\ UNCHANGED <<handling, frame, captured, packets, file, outcome>>

Finish ==
  /\ At("stats")
  /\ pc' = "over"
  /\ outcome' = IF outcome = "none" THEN "saved" ELSE outcome
  /\ UNCHANGED <<handling, frame, captured, packets, file, written>>

-----------------------------------------------------------------------------
(* Signals *)

HandledIntOnly == {"SIGINT"}

\* The exceptions whose handler in main() saves: KeyboardInterrupt and SystemExit.
Handled == Signals

InterruptRecvIgnored ==
  /\ pc = "recv" /\ pending = "SIGINT"
  /\ pc' = "loop" /\ pending' = "none"
  /\ UNCHANGED <<opts, handling, frame, captured, packets, file, written, outcome,
                 signals, stopping, replay>>

\* stream() itself ends at a Ctrl+C within recv_one: the capture is then saved as if
\* it had ended by its count.
InterruptRecv ==
  /\ pc = "recv" /\ pending = "SIGINT"
  /\ pc' = Save /\ pending' = "none"
  /\ UNCHANGED <<opts, handling, frame, captured, packets, file, written, outcome,
                 signals, stopping, replay>>

\* The bare "except:" clauses met while a frame is dissected (vlannum) and printed
\* (packet_callback, for every UDP payload) take KeyboardInterrupt and SystemExit too: the
\* signal is gone, and the capture goes on with its frame.
Swallow ==
  /\ pending # "none" /\ pc \in {"callback", "print"}
  /\ pending' = "none"
  /\ UNCHANGED <<capture, signals, stopping, replay>>

\* Anywhere else, and there outside of those clauses, the exception goes up to main(),
\* through the with statement of an open writer, which closes it.  The first one is
\* handled by saving from the start; one that comes within a handler ends the program.
Interrupt ==
  /\ pending # "none" /\ ~Over
  /\ ~(pc = "recv" /\ pending = "SIGINT")
  /\ IF handling \/ pending \notin Handled
     THEN /\ pc' = "over"
          /\ outcome' = CASE outcome # "none" -> outcome
                          [] outcome = "none" /\ (pc = "stats" \/ ~handling) -> "saved"
                          [] OTHER -> "interrupted"
          /\ UNCHANGED handling
     ELSE pc' = Save /\ handling' = TRUE /\ UNCHANGED outcome
  /\ file' = IF pc = "write" THEN Upto(written) ELSE file
  /\ written' = 0 /\ frame' = <<>> /\ pending' = "none"
  /\ UNCHANGED <<opts, captured, packets, signals, stopping, replay>>

\* Between the two steps of close() the with statement closes the file a second time: a
\* use of memory that was freed, at which the process may crash.
CloseTwice ==
  /\ pending # "none" /\ pc = "closed"
  /\ pc' = "over" /\ outcome' = "killed" /\ written' = 0 /\ pending' = "none"
  /\ UNCHANGED <<opts, handling, frame, captured, packets, file, signals, stopping, replay>>

\* Ctrl+C in the terminal.
CtrlC ==
  /\ ~Over /\ pending = "none" /\ signals < MaxSignals
  /\ pending' = "SIGINT" /\ signals' = signals + 1
  /\ UNCHANGED <<capture, stopping, replay>>

\* The panel: CaptureWorker.stop terminates the process ...
PanelStop ==
  /\ ~Over /\ pending = "none" /\ signals < MaxSignals
  /\ pending' = "SIGTERM" /\ signals' = signals + 1
  /\ stopping' = TRUE
  /\ UNCHANGED <<capture, replay>>

\* ... and kills it when it has not ended three seconds later: of what was handed to
\* the open file any part may have reached the disk.
PanelKill ==
  /\ ~Over /\ stopping
  /\ file' \in CASE pc = "save" /\ opts.format # "pcapng" ->
                      {file, Upto(Count)} \cup Cuts(Count)
                 [] pc = "write" -> {Upto(written)} \cup Cuts(written)
                 [] OTHER -> {file}
  /\ pc' = "over" /\ outcome' = "killed"
  /\ written' = 0 /\ frame' = <<>> /\ pending' = "none"
  /\ UNCHANGED <<opts, handling, captured, packets, signals, stopping, replay>>

-----------------------------------------------------------------------------
(* Replay of the file by another process; what the capture had in memory is gone *)

Replay(loop, count) ==
  /\ Over /\ replay.at = "idle"
  /\ replay' = [replay EXCEPT !.at = "send", !.loop = loop, !.count = count, !.pass = 1,
                              !.found = Iterate(Contents).packets, !.raises = Iterate(Contents).raises]
  /\ handling' = FALSE /\ captured' = 0 /\ signals' = 0 /\ stopping' = FALSE
  /\ UNCHANGED <<opts, pc, frame, packets, file, written, outcome, pending>>

RequestStop ==
  /\ replay.at = "send" /\ ~replay.stop
  /\ replay' = [replay EXCEPT !.stop = TRUE]
  /\ UNCHANGED <<capture, pending, signals, stopping>>

\* The packets of a pass are sent, or count of them; with loop 0 passes never end.
EndPass ==
  IF replay.loop = 0 THEN [replay EXCEPT !.i = 0]
  ELSE IF replay.pass < replay.loop THEN [replay EXCEPT !.i = 0, !.pass = @ + 1]
  ELSE [replay EXCEPT !.at = "over"]

\* One turn of the inner loop: stop_event is looked at when there is a packet.
ReplayStep ==
  /\ replay.at = "send"
  /\ replay' =
       IF replay.i = Len(replay.found)
       THEN IF replay.raises THEN [replay EXCEPT !.at = "over"] ELSE EndPass
       ELSE IF replay.stop THEN [replay EXCEPT !.at = "over"]
       ELSE IF replay.count # 0 /\ replay.i >= replay.count THEN EndPass
       ELSE [replay EXCEPT !.i = @ + 1]
  /\ UNCHANGED <<capture, pending, signals, stopping>>

-----------------------------------------------------------------------------
Sniff    == Stream \/ RecvTimeout \/ Recv \/ Callback \/ PacketCallback
Saving   == WriteFile \/ Open \/ WriteBlock \/ Close \/ MarkClosed \/ Finish
Main     == Sniff \/ Saving \/ InterruptRecv \/ Swallow \/ Interrupt
Failures == CallbackRaises \/ WriteFileFails \/ WriteBlockFails \/ CloseTwice

Next ==
  \/ Main \/ Failures
  \/ CtrlC \/ PanelStop \/ PanelKill
  \/ \E loop \in 0..2, count \in 0..1 : Replay(loop, count)
  \/ ReplayStep \/ RequestStop

Spec == Init /\ [][Next]_vars

\* The program goes on: recv_one has a timeout and no call of it waits for ever.
FairSpec == Spec /\ WF_vars(Main) /\ WF_vars(ReplayStep)

-----------------------------------------------------------------------------
\* The capture is over and nothing has been done with its file.
Ended == Over /\ replay.at = "idle"

(* A capture that ends by itself, by -c or by one signal, wherever the      *)
(* signal strikes, reads back as the packets it kept, from pcap, pcapng and *)
(* lbn files of either byte order, and with its link type where the format  *)
(* has one.  Of a packet longer than PCAP_SNAPLEN a pcap file has only the  *)
(* first bytes, and what is read are those.                                 *)
SavedIsRead ==
  Ended /\ outcome = "saved" /\ packets # <<>> =>
    /\ Load(Contents).packets = Held(opts.format, packets)
    /\ Iterate(Contents) = [packets |-> Held(opts.format, packets), raises |-> FALSE]
    /\ opts.format \in {"pcap", "pcapng"} => Load(Contents).link = opts.link

(* Whatever cut the file short -- a kill, a full disk, a second signal in   *)
(* the middle of the second save --, no reader makes up, repeats or skips   *)
(* a packet: what is read is the beginning of what was captured, each       *)
(* packet as far as its format keeps it.                                    *)
CutIsPrefix ==
  Ended => /\ IsPrefix(Load(Contents).packets, Held(opts.format, packets))
           /\ IsPrefix(Iterate(Contents).packets, Held(opts.format, packets))

(* A signal that strikes anywhere but within the handling of a frame, where *)
(* a bare except may take it, ends the capture; a replay ends when its      *)
(* passes are done, or when it is asked to stop and the file has a packet.  *)
StopsEnd ==
  /\ (pending # "none" /\ pc \notin {"callback", "print"}) ~> Over
  /\ (replay.at = "send" /\ (replay.loop # 0 \/ (replay.stop /\ replay.found # <<>>)))
       ~> replay.at = "over"
=============================================================================
