--------------------------- MODULE CaptureFile ---------------------------
(***************************************************************************)
(* The capture files of LightPacket, byte by byte: what create_pcap_file   *)
(* (pcap_writer.c), pcapng_writer_* (pcapng.c) and lbn_save (lbn.c) write, *)
(* and what LightSniff -r and replay() make of the bytes they find.  A     *)
(* file is a sequence of bytes; a packet is a sequence of bytes no reader  *)
(* looks into.  Timestamps, versions and snapshot lengths are bytes of     *)
(* which only the place counts: they are written as zeros.                 *)
(*                                                                         *)
(* pcap and pcapng are written in the byte order of the host, "little" or  *)
(* "big", and read in the order their magic number tells; lbn is little.   *)
(***************************************************************************)
EXTENDS Integers, Sequences, SequencesExt

CONSTANTS
  PCAP_SNAPLEN,       \* bytes of a packet a pcap file takes: 65535 in the code
  PCAPNG_MAX_PACKET   \* the longest packet the pcapng reader takes: 0x04000000

ASSUME LimitsAssumption ==
  /\ PCAP_SNAPLEN \in Nat
  /\ PCAPNG_MAX_PACKET \in Nat /\ PCAPNG_MAX_PACKET \div 65536 < 32768

Formats == {"pcap", "pcapng", "lbn", "lbn compressed"}
Orders  == {"little", "big"}

Byte == 0..255

InOrder(bytes, order) == IF order = "little" THEN bytes ELSE Reverse(bytes)
Zeros(n)          == [i \in 1..n |-> 0]
Number(n, order)  ==
  InOrder(<<n % 256, (n \div 256) % 256, (n \div 65536) % 256, (n \div 16777216) % 256>>, order)

\* The magic numbers, least significant byte first.
PCAP_MAGIC_NSEC  == <<77, 60, 178, 161>>       \* 0xa1b23c4d
PCAP_MAGIC_USEC  == <<212, 195, 178, 161>>     \* 0xa1b2c3d4
BLOCK_TYPE_SHB   == <<10, 13, 13, 10>>         \* 0x0a0d0d0a
BYTE_ORDER_MAGIC == <<77, 60, 43, 26>>         \* 0x1a2b3c4d
LBN_MAGIC        == <<76, 66, 78, 1>>          \* "LBN\x01"
BLOCK_TYPE_IDB   == 1
BLOCK_TYPE_EPB   == 6

align4(n) == 4 * ((n + 3) \div 4)

-----------------------------------------------------------------------------
(* Writing: the blocks of a file, in the order they are written *)

\* create_pcap_file cuts a packet after PCAP_SNAPLEN bytes, and tells its full length too.
Captured(packet) ==
  SubSeq(packet, 1, IF Len(packet) > PCAP_SNAPLEN THEN PCAP_SNAPLEN ELSE Len(packet))

PcapBlocks(packets, link, order) ==
  <<InOrder(PCAP_MAGIC_NSEC, order) \o Zeros(16) \o Number(link, order)>>
  \o [i \in DOMAIN packets |->
        Zeros(8) \o Number(Len(Captured(packets[i])), order) \o Number(Len(packets[i]), order)
        \o Captured(packets[i])]

\* Every block of pcapng: its type, its length, its body, its length again.
Block(type, body, order) ==
  LET total == Number(Len(body) + 12, order) IN type \o total \o body \o total

\* write_shb, pcapng_writer_add_interface for a name of four letters, and
\* pcapng_writer_write_packet.
SectionHeader(order) == Block(BLOCK_TYPE_SHB, InOrder(BYTE_ORDER_MAGIC, order) \o Zeros(12), order)
InterfaceBlock(link, order) ==
  Block(Number(BLOCK_TYPE_IDB, order),
        InOrder(<<link, 0>>, order) \o Zeros(6) \o InOrder(<<2, 0>>, order)
        \o InOrder(<<4, 0>>, order) \o Zeros(4) \o Zeros(4), order)
PacketBlock(packet, order) ==
  Block(Number(BLOCK_TYPE_EPB, order),
        Zeros(12) \o Number(Len(packet), order) \o Number(Len(packet), order)
        \o packet \o Zeros(align4(Len(packet)) - Len(packet)), order)

PcapngBlocks(packets, link, order) ==
  <<SectionHeader(order), InterfaceBlock(link, order)>>
  \o [i \in DOMAIN packets |-> PacketBlock(packets[i], order)]

\* zlib: compress2 and uncompress are inverse; a stream carries a header and a
\* trailer.  crc32 is some function of the header that both sides compute.
compress2(data)  == <<120>> \o data \o <<1>>
uncompress(data) == SubSeq(data, 2, Len(data) - 1)
crc32(header)    ==
  LET sum[i \in 0..Len(header)] == IF i = 0 THEN 0 ELSE sum[i - 1] + header[i]
  IN  sum[Len(header)]
lbn_checksum(header) == Number(crc32(header), "little")

LbnHeader(count, flags) ==
  Number(1, "little") \o Zeros(4) \o Number(count, "little") \o Number(flags, "little")

LbnBlocks(packets, compressed) ==
  LET header == LbnHeader(Len(packets), IF compressed THEN 1 ELSE 0)
      data(p) == IF compressed THEN compress2(p) ELSE p
  IN  <<LBN_MAGIC \o header \o lbn_checksum(header)>>
      \o [i \in DOMAIN packets |->
            Zeros(8) \o Number(Len(data(packets[i])), "little")
            \o Number(Len(packets[i]), "little") \o data(packets[i])]

Blocks(format, packets, link, order) ==
  CASE format = "pcap"   -> PcapBlocks(packets, link, order)
    [] format = "pcapng" -> PcapngBlocks(packets, link, order)
    [] OTHER             -> LbnBlocks(packets, format = "lbn compressed")

\* What a file of the format keeps of the packets: pcap as much as it takes of each.
Held(format, packets) ==
  IF format = "pcap" THEN [i \in DOMAIN packets |-> Captured(packets[i])] ELSE packets

-----------------------------------------------------------------------------
(* Reading *)

\* The n bytes from offset p, or as many as the file has, and the number they are.
Bytes(file, p, n) == SubSeq(file, p + 1, IF p + n <= Len(file) THEN p + n ELSE Len(file))
Word(file, p, order) ==
  LET b == InOrder(Bytes(file, p, 4), order)
  IN  b[1] + 256 * b[2] + 65536 * b[3] + 16777216 * b[4]

NoLink  == -1
Nothing == [packets |-> <<>>, link |-> NoLink, ok |-> FALSE]

FitsAlways(length, left) == TRUE

\* Whether a packet ends within the file.
Fits(length, left) == length <= left

\* The places in the file a reader comes to from p, where next[q] is the place after q:
\* the last one is where it stops, and its own successor.
Places(next, p) ==
  LET from[q \in Nat] == IF next[q] = q THEN <<q>> ELSE <<q>> \o from[next[q]]
  IN  from[p]

\* The loop of read_pcap_file: it ends at the first packet that is not whole.
PcapNext(file, order) ==
  [p \in Nat |-> IF p + 16 <= Len(file) /\ Fits(Word(file, p + 8, order), Len(file) - (p + 16))
                 THEN p + 16 + Word(file, p + 8, order)
                 ELSE p]
PcapPackets(file, order) ==
  LET places == Places(PcapNext(file, order), 24)
  IN  [i \in 1..(Len(places) - 1) |-> Bytes(file, places[i] + 16, Word(file, places[i] + 8, order))]

\* read_pcap_file and PcapRead: no packets is no header either.
read_pcap_file(file) ==
  LET magic   == Bytes(file, 0, 4)
      known   == {PCAP_MAGIC_NSEC, PCAP_MAGIC_USEC}
      order   == IF magic \in known THEN "little" ELSE "big"
      packets == PcapPackets(file, order)
  IN  IF \/ Len(file) < 24
         \/ magic \notin known \cup {Reverse(m) : m \in known}
         \/ packets = <<>>
      THEN Nothing
      ELSE [packets |-> packets, link |-> Word(file, 20, order), ok |-> TRUE]

\* read_one_block: whether a whole block of a legal length is at p.
WholeBlock(file, p, order) ==
  /\ p + 8 <= Len(file)
  /\ LET total == Word(file, p + 4, order)
         type  == Word(file, p, order)
     IN  /\ total >= 12
         /\ total <= Len(file) - p
         /\ Word(file, p + total - 4, order) = total
         /\ type = BLOCK_TYPE_IDB => total - 12 >= 8
         /\ type = BLOCK_TYPE_EPB =>
              /\ total - 12 >= 20
              /\ align4(Word(file, p + 20, order)) <= total - 12 - 20
              /\ Word(file, p + 20, order) <= PCAPNG_MAX_PACKET

\* PcapngReader and pcapng_reader_next_packet: the packets up to the end of the file
\* or to the first block that is not whole, which raises PcapngError.  The interfaces
\* that pcapng_reader_open reads ahead are read in the same order.
PcapngNext(file, order) ==
  [p \in Nat |-> IF WholeBlock(file, p, order) THEN p + Word(file, p + 4, order) ELSE p]
PcapngBlocksRead(file, order) ==
  LET places  == Places(PcapngNext(file, order), 28)
      whole   == 1..(Len(places) - 1)
      Of(type)  == {i \in whole : Word(file, places[i], order) = type}
      Packet(p) == Bytes(file, p + 28, Word(file, p + 20, order))
      first   == CHOOSE i \in Of(BLOCK_TYPE_IDB) : \A j \in Of(BLOCK_TYPE_IDB) : i <= j
  IN  [packets |-> FlattenSeq([i \in whole |-> IF i \in Of(BLOCK_TYPE_EPB)
                                               THEN <<Packet(places[i])>> ELSE <<>>]),
       link |-> IF Of(BLOCK_TYPE_IDB) = {} THEN NoLink
                ELSE InOrder(Bytes(file, places[first] + 8, 2), order)[1],
       ok   |-> Last(places) = Len(file)]

PcapngRead(file) ==
  LET order == IF Bytes(file, 8, 4) = BYTE_ORDER_MAGIC THEN "little" ELSE "big"
  IN  IF \/ Len(file) < 28
         \/ Bytes(file, 0, 4) # BLOCK_TYPE_SHB
         \/ Bytes(file, 8, 4) \notin {BYTE_ORDER_MAGIC, Reverse(BYTE_ORDER_MAGIC)}
         \/ Word(file, 4, order) # 28
         \/ Word(file, 24, order) # 28
      THEN Nothing
      ELSE PcapngBlocksRead(file, order)

\* lbn_load: at most the packets the header counts, up to the first that is not whole
\* or does not unpack to the length it had.
LbnData(file, p)    == Bytes(file, p + 16, Word(file, p + 8, "little"))
LbnCompressed(file) == Word(file, 16, "little") % 2 = 1
LbnNext(file) ==
  [p \in Nat |-> IF /\ p + 16 <= Len(file)
                    /\ Fits(Word(file, p + 8, "little"), Len(file) - (p + 16))
                    /\ LbnCompressed(file) =>
                         Len(uncompress(LbnData(file, p))) = Word(file, p + 12, "little")
                 THEN p + 16 + Word(file, p + 8, "little")
                 ELSE p]
LbnPackets(file) ==
  LET places == Places(LbnNext(file), 24)
      count  == Word(file, 12, "little")
  IN  [i \in 1..(IF Len(places) - 1 < count THEN Len(places) - 1 ELSE count) |->
         IF LbnCompressed(file) THEN uncompress(LbnData(file, places[i]))
         ELSE LbnData(file, places[i])]
lbn_load(file) ==
  IF \/ Len(file) < 24
     \/ Bytes(file, 0, 4) # LBN_MAGIC
     \/ lbn_checksum(Bytes(file, 4, 16)) # Bytes(file, 20, 4)
  THEN Nothing
  ELSE [packets |-> LbnPackets(file), link |-> 1, ok |-> TRUE]

\* A pcap file of nanoseconds in the big order is "unknown", and tried as pcap.
detect_file_type(file) ==
  LET magic == Bytes(file, 0, 4)
  IN  CASE magic = LBN_MAGIC -> "lightbin"
        [] magic \in {PCAP_MAGIC_USEC, Reverse(PCAP_MAGIC_USEC), PCAP_MAGIC_NSEC} -> "pcap"
        [] magic = BLOCK_TYPE_SHB -> "pcapng"
        [] OTHER -> "unknown"

Read(file) ==
  LET type == detect_file_type(file)
  IN  CASE type = "lightbin" -> lbn_load(file)
        [] type = "pcapng"   -> PcapngRead(file)
        [] OTHER             -> read_pcap_file(file)

\* LightSniff -r: list(pcap) of a pcapng file that raises leaves no packets; a file
\* without interfaces raises at interfaces[0].
Load(file) ==
  LET r == Read(file)
  IN  IF r.ok /\ ~(detect_file_type(file) = "pcapng" /\ r.link = NoLink) THEN r ELSE Nothing

\* _iter_packets: the packets it yields, and whether it then raises.  A pcap file that
\* cannot be read yields nothing and raises nothing.
Iterate(file) ==
  LET r == Read(file)
  IN  [packets |-> r.packets,
       raises  |-> ~r.ok /\ detect_file_type(file) \in {"lightbin", "pcapng"}]
=============================================================================
