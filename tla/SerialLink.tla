----------------------------- MODULE SerialLink -----------------------------
(***************************************************************************)
(* The host-to-board packet path: the host frames packets with             *)
(* StreamProtocol, the UART receive interrupt queues the bytes in the      *)
(* serial library's ring buffer, and process_serial (HAL.cpp) moves them   *)
(* into hal_raw_buffer and parses them with sp_parse_packet into the one   *)
(* packet slot (the hal_pkt_ variables).  Two consumers empty the slot:    *)
(* task 0's Comm_process through HAL_readPacket, and any VM task executing *)
(* OP_READ through HAL_read, one payload byte per call.                    *)
(*                                                                         *)
(* A packet on the wire is abstracted to a header unit (its 8 header       *)
(* bytes, with their values), one unit per payload byte and a CRC unit     *)
(* (its 4 CRC bytes), each unit tagged with the index of the packet it     *)
(* belongs to; lengths are counted in bytes.  The header is encoded and    *)
(* decoded with the code's bit layout.  The CRC check passes exactly when *)
(* the bytes are those of one packet the host sent and the line left      *)
(* intact.  A reset inside a unit leaves its remaining bytes as garbage    *)
(* units; a buffer that does not start with a header unit decodes a       *)
(* garbage length field: the parser may find it too short for that        *)
(* length, or fail the CRC at any byte.                                    *)
(***************************************************************************)
EXTENDS Integers, Sequences, SequencesExt

CONSTANTS Cmds,         \* command ids the host sends (user_field)
          PayloadLens,  \* payload lengths the host sends
          RawSize,      \* HAL_RX_RAW_SIZE
          UartCap,      \* capacity of the serial library's receive ring
          MaxPackets,   \* how many packets the host sends
          CanCorrupt,   \* whether a packet may arrive corrupted
          LenFlips      \* bits of the length field a corruption may flip

VARIABLES packets,      \* what the host sent: [cmd, plen, fault] per packet
          line,         \* units sent and not yet received by the UART
          uart,         \* the serial library's receive ring
          raw,          \* hal_raw_buffer[0 .. hal_raw_index - 1]
          slot,         \* hal_pkt_ready, _cmd, _len, _read_pos (+ packet id)
          made,         \* the packet ids parsed into the slot, in order
          dropped,      \* packets task 0 took from the slot and ignored
          readOut       \* packets a program's OP_READ read from the slot

vars == <<packets, line, uart, raw, slot, made, dropped, readOut>>

CMD_STDIN == 100
PT_STRING == 1
SP_HEADER_SIZE == 8
SP_UNFRAGED == 0
MinLen == SP_HEADER_SIZE + 4
PktCap == 255           \* hal_pkt_payload holds 255 bytes of a payload
NoPacket == [ready |-> FALSE, cmd |-> 0, len |-> 0, pos |-> 0, id |-> 0]

(***************************************************************************)
(* sp_encode_packet_buffer's header: version 1 in bits 0-3, the total      *)
(* length in the 45 bits from 4, the fragment flag at 49, the payload type *)
(* in bits 50-53 and the user field in bits 54-63 of a 64-bit word, which  *)
(* is written out low byte first.  Byte by byte, with T the length shifted *)
(* right by 4 (length bit 44, in byte 6, is 0 below 2^31).                  *)
(***************************************************************************)
EncodeHeader(total, frag, type, user) ==
    LET T == total \div 16
    IN  << 1 + 16 * (total % 16),
           T % 256, (T \div 256) % 256, (T \div 65536) % 256,
           (T \div 16777216) % 256, 0,
           2 * (frag % 2) + 4 * (type % 16) + 64 * (user % 4),
           (user % 1024) \div 4 >>

\* sp_parse_packet: (word >> 4) & 0x1FFFFFFFFFFF from the header bytes h.
\* A length with a bit set from 31 on exceeds every buffer: Huge.
Huge == 2^30
PacketLength(h) ==
    IF h[6] = 0 /\ h[7] % 2 = 0 /\ h[5] < 8
    THEN h[1] \div 16 + 16 * (h[2] + 256 * (h[3] + 256 * (h[4] + 256 * h[5])))
    ELSE Huge

\* (word >> 53) & 0x3FF: one bit too low.
UserFieldShifted(h) == h[7] \div 32 + 8 * (h[8] % 128)

\* (word >> 54) & 0x3FF.
UserField(h) == h[7] \div 64 + 4 * h[8]

(***************************************************************************)
(* What the line may do to a packet: nothing, corrupt a payload or CRC     *)
(* byte (the CRC check fails), or flip bit k of the header's length field  *)
(* (the parser then looks for the CRC at the wrong place, or waits).       *)
(***************************************************************************)
NoFault == [kind |-> "none", bit |-> 0]
CrcFault == [kind |-> "crc", bit |-> 0]
LenFault(k) == [kind |-> "len", bit |-> k]
Faults ==
    IF CanCorrupt THEN {NoFault, CrcFault} \cup {LenFault(k) : k \in LenFlips}
    ELSE {NoFault}

\* The length field the packet p arrives with.
Claim(p) ==
    LET total == SP_HEADER_SIZE + p.plen + 4
        k == p.fault.bit
    IN  CASE p.fault.kind # "len"       -> total
          [] (total \div 2^k) % 2 = 1   -> total - 2^k
          [] OTHER                      -> total + 2^k

\* The units of packet p, sent as the i-th, on the wire.
Frame(i, p) ==
    <<[t |-> "H", id |-> i,
       hdr |-> EncodeHeader(Claim(p), SP_UNFRAGED, PT_STRING, p.cmd)]>>
    \o [k \in 1..p.plen |-> [t |-> "D", id |-> i]]
    \o <<[t |-> "C", id |-> i]>>

Units(i) == Frame(i, packets[i])

UnitSize == [H |-> SP_HEADER_SIZE, D |-> 1, C |-> 4, G |-> 1]

\* k bytes left over from a unit cut by a reset, read as garbage.
Garbage(k) == [j \in 1..k |-> [t |-> "G", id |-> 0]]

\* The number of bytes units u stand for: a payload or garbage unit is one.
Count(u, t) == Cardinality({k \in DOMAIN u : u[k].t = t})
Bytes(u) == Len(u) + (SP_HEADER_SIZE - 1) * Count(u, "H") + 3 * Count(u, "C")

\* The packet the first L bytes of r are: the intact packet i, with a good
\* CRC, or a corrupted one.
Intact(r, L) ==
    LET i == r[1].id
        k == Len(Units(i))
    IN  /\ packets[i].fault = NoFault
        /\ k <= Len(r) /\ SubSeq(r, 1, k) = Units(i)
        /\ Bytes(Units(i)) = L

ParseNeedsExtra(r) ==
    IF r[1].t = "H"
    THEN LET L == PacketLength(r[1].hdr)
         IN  IF L < MinLen \/ Bytes(r) <= L THEN {"small"}
             ELSE IF Intact(r, L) THEN {"ok"} ELSE {"err"}
    ELSE {"small", "err"}

(***************************************************************************)
(* sp_parse_packet on raw buffer r of at least MinLen bytes: decode the   *)
(* length field; too small while it is below MinLen or more than r holds; *)
(* else the CRC over its first L - 4 bytes decides.  The version, the     *)
(* fragment flag and the payload type are decoded and never checked.      *)
(***************************************************************************)
ParseOutcomes(r) ==
    IF r[1].t = "H"
    THEN LET L == PacketLength(r[1].hdr)
         IN  IF L < MinLen \/ Bytes(r) < L THEN {"small"}
             ELSE IF Intact(r, L) THEN {"ok"} ELSE {"err"}
    ELSE {"small", "err"}

\* The units of r after the first L bytes: hal_raw_buffer after the memmove.
\* Since a parse is tried after every byte, "ok" comes only when r holds
\* exactly L bytes, and this is always <<>>.
Rest(r, L) ==
    LET k == CHOOSE k \in 1..Len(r) : Bytes(SubSeq(r, 1, k)) = L
    IN  SubSeq(r, k + 1, Len(r))

\* process_serial's SP_OK branch: the slot filled from the packet at the
\* front of r, its user field as the command, its payload length capped.
Parsed(r) ==
    LET hdr == r[1].hdr
    IN  [ready |-> TRUE, cmd |-> UserField(hdr),
         len |-> Min({PacketLength(hdr) - SP_HEADER_SIZE - 4, PktCap}),
         pos |-> 0, id |-> r[1].id]

Result(u, r, s) == [uart |-> u, raw |-> r, slot |-> s]

(***************************************************************************)
(* process_serial: the possible results of the receive loop, as records    *)
(* [uart, raw, slot].  It returns at once while a packet is held, stops    *)
(* when the ring is empty, resets the raw buffer when it is full, tries to *)
(* parse from the MinLen-th unit on, returns after a complete packet       *)
(* (keeping any bytes after it) and resets the raw buffer on a parse error.*)
(***************************************************************************)
(***************************************************************************)
(* The loop's passes over the bytes of the next unit: each resets a full  *)
(* buffer, then stores.  A reset that falls inside the unit leaves its    *)
(* remaining bytes at the front of the buffer, out of step with the        *)
(* framing.  (The parses tried at the bytes inside the unit find the       *)
(* buffer too small unless it starts with garbage; see Leftover.)          *)
(***************************************************************************)
ReadOne(u, r) ==
    LET b == Bytes(r)
        n == UnitSize[Head(u).t]
    IN  [u |-> Tail(u),
         r |-> CASE b >= RawSize    -> <<Head(u)>>
                 [] b + n > RawSize -> Garbage(b + n - RawSize)
                 [] OTHER           -> Append(r, Head(u))]

\* The bytes of r's last unit left after a parse error: those after the
\* length r's header gives, where the CRC check came; after garbage, the
\* error may come at any byte of the unit.
Leftover(r) ==
    IF r[1].t = "H" THEN {Bytes(r) - PacketLength(r[1].hdr)}
    ELSE 0..(UnitSize[Last(r).t] - 1)

RECURSIVE Receive(_, _, _)
Receive(u, r, s) ==
    IF s.ready \/ u = <<>> THEN {Result(u, r, s)}
    ELSE UNION {
         IF Bytes(x.r) < MinLen THEN Receive(x.u, x.r, s)
         ELSE UNION {
              CASE o = "ok" ->
                     {Result(x.u, Rest(x.r, PacketLength(x.r[1].hdr)), Parsed(x.r))}
                [] o = "small" -> Receive(x.u, x.r, s)
                [] o = "err"   ->
                     UNION {Receive(x.u, Garbage(k), s) : k \in Leftover(x.r)}
              : o \in ParseOutcomes(x.r) }
         : x \in {ReadOne(u, r)} }

\* Take over the receive loop's result, recording a newly parsed packet.
Received(res) ==
    /\ uart' = res.uart
    /\ raw' = res.raw
    /\ made' = IF res.slot.ready /\ ~slot.ready
               THEN Append(made, res.slot.id) ELSE made

-----------------------------------------------------------------------------
\* The host frames a packet (sp_encode_packet_buffer) and writes it out.
HostSend(c, n, f) ==
    LET p == [cmd |-> c, plen |-> n, fault |-> f]
    IN  /\ Len(packets) < MaxPackets
        /\ packets' = Append(packets, p)
        /\ line' = line \o Frame(Len(packets) + 1, p)
        /\ UNCHANGED <<uart, raw, slot, made, dropped, readOut>>

\* The UART receive interrupt: a unit that finds the ring full is lost.
RxIsr ==
    /\ line # <<>>
    /\ line' = Tail(line)
    /\ uart' = IF Len(uart) < UartCap THEN Append(uart, Head(line)) ELSE uart
    /\ UNCHANGED <<packets, raw, slot, made, dropped, readOut>>

(***************************************************************************)
(* Comm_process -> HAL_readPacket: run the receive loop; a held packet is  *)
(* copied out and the slot emptied; ids below 100 are dispatched as system *)
(* calls, the others are ignored.                                          *)
(***************************************************************************)
DaemonPoll ==
    /\ \E res \in Receive(uart, raw, slot) :
          /\ Received(res)
          /\ IF res.slot.ready
             THEN /\ slot' = NoPacket
                  /\ dropped' = IF res.slot.cmd < 100 THEN dropped
                                 ELSE dropped \cup {res.slot.id}
             ELSE slot' = res.slot /\ UNCHANGED dropped
    /\ UNCHANGED <<packets, line, readOut>>

(***************************************************************************)
(* OP_READ -> HAL_read(FD_STDIN): run the receive loop; return the next    *)
(* payload byte of a held packet, or, once all are read, empty the slot.   *)
(***************************************************************************)
ReaderRead ==
    /\ \E res \in Receive(uart, raw, slot) :
          /\ Received(res)
          /\ LET s == res.slot IN
             IF s.ready /\ s.pos < s.len
             THEN slot' = [s EXCEPT !.pos = @ + 1]
             ELSE slot' = IF s.ready THEN [s EXCEPT !.ready = FALSE] ELSE s
          /\ readOut' = IF res.slot.ready THEN readOut \cup {res.slot.id}
                                         ELSE readOut
    /\ UNCHANGED <<packets, line, dropped>>

Init ==
    /\ packets = <<>>
    /\ line = <<>>
    /\ uart = <<>>
    /\ raw = <<>>
    /\ slot = NoPacket
    /\ made = <<>>
    /\ dropped = {}
    /\ readOut = {}

Next ==
    \/ \E c \in Cmds, n \in PayloadLens, f \in Faults : HostSend(c, n, f)
    \/ RxIsr
    \/ DaemonPoll
    \/ ReaderRead

\* Task 0 polls on every scheduler pass while it runs; the UART interrupt
\* takes every byte that arrives.  A VM task reads only if its program says
\* so: no fairness.
Spec == Init /\ [][Next]_vars /\ WF_vars(DaemonPoll) /\ WF_vars(RxIsr)

-----------------------------------------------------------------------------
\* process_serial and sp_parse_packet hand over only intact packets, each
\* once and in the order the host sent them, with the command id and
\* payload length of that packet (raw buffer reset and cleanup after a
\* packet, CRC check, length field).
DeliveredInOrder ==
    /\ \A i, j \in DOMAIN made : i < j => made[i] < made[j]
    /\ \A i \in DOMAIN made : packets[made[i]].fault = NoFault
    /\ slot.ready => /\ slot.cmd = packets[slot.id].cmd
                     /\ slot.len = packets[slot.id].plen

\* Every packet the host sends intact and short enough for hal_raw_buffer
\* is eventually parsed into the slot, whatever payload or CRC corruption
\* came before it, provided no earlier packet's length field was hit
\* (process_serial's flow control, its parse-on-every-byte loop, its CRC
\* and overflow resets and the bytes they leave, task 0's polling).
Fits(i) == Bytes(Units(i)) <= RawSize

LengthsIntactUpTo(i) == \A j \in 1..i : packets[j].fault.kind # "len"

EveryIntactDelivered ==
    \A i \in 1..MaxPackets :
        (i <= Len(packets) /\ packets[i].fault = NoFault /\ Fits(i)
            /\ LengthsIntactUpTo(i))
        ~> (i \in Range(made))

=============================================================================
