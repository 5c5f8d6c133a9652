----------------------------- MODULE GpsSerial ----------------------------
(***************************************************************************)
(* The serial buffer of thread_gps (lora_pkt_fwd.c): bytes are appended as *)
(* they come, the buffer is scanned for frames, complete frames are        *)
(* processed and removed, and bytes are dropped to keep room for a read.   *)
(*                                                                         *)
(* A frame has a number and a length, which tells whether it is NMEA or    *)
(* UBX; a byte of it is its number and position.  The last two bytes of an *)
(* NMEA frame, CR and LF, are not covered by its checksum.  Checksums are  *)
(* taken to be reliable.  The two memcpy have overlapping operands and are *)
(* taken to copy upwards, as the library's does.                           *)
(***************************************************************************)
EXTENDS Integers, Sequences, SequencesExt

CONSTANTS
    BUFF_SIZE,             \* sizeof serial_buff
    LGW_GPS_MIN_MSG_SIZE,  \* bytes of a read
    NmeaLengths,           \* lengths of NMEA frames
    UbxLengths,            \* lengths of UBX frames without the value of LF
    UbxLfLengths,          \* lengths of UBX frames with it, at their second byte
    FALSE_SIZE,            \* length that stray bytes claim after a sync char
    MaxFrames,             \* bound: frames sent
    MaxStray               \* bound: stray bytes sent

ASSUME GpsSerialConstants ==
    /\ LGW_GPS_MIN_MSG_SIZE \in Nat \ {0} /\ FALSE_SIZE \in Nat
    /\ BUFF_SIZE \in Nat /\ BUFF_SIZE >= 2 * LGW_GPS_MIN_MSG_SIZE
    /\ \A n \in NmeaLengths \cup UbxLengths \cup UbxLfLengths :
         n \in Nat /\ n >= LGW_GPS_MIN_MSG_SIZE
    /\ NmeaLengths \cap (UbxLengths \cup UbxLfLengths) = {}
    /\ UbxLengths \cap UbxLfLengths = {}
    /\ MaxFrames \in Nat /\ MaxStray \in Nat

Lengths == NmeaLengths \cup UbxLengths \cup UbxLfLengths

VARIABLES
    serial_buff,   \* its first wr_idx bytes
    port,          \* bytes that read() can return
    done,          \* frames processed
    \* the GPS receiver
    frames,        \* lengths of the frames sent, the last one in part
    sent,          \* bytes of the last frame sent
    lost,          \* of each frame, the position of the byte lost, or 0
    stray          \* stray bytes sent

vars == <<serial_buff, port, done, frames, sent, lost, stray>>

Byte(f, pos) == [frame |-> f, pos |-> pos]
Stray == Byte(0, 0)
StraySync == Byte(0, 1)

Init ==
    /\ serial_buff = <<>> /\ port = <<>> /\ done = <<>>
    /\ frames = <<>> /\ sent = 0 /\ lost = <<>> /\ stray = 0

-----------------------------------------------------------------------------
(* The receiver and the line.                                              *)

Between == sent = IF frames = <<>> THEN 0 ELSE Last(frames)

StartFrame ==
    /\ Between /\ Len(port) < LGW_GPS_MIN_MSG_SIZE /\ Len(frames) < MaxFrames
    /\ \E n \in Lengths : frames' = Append(frames, n)
    /\ sent' = 1 /\ port' = Append(port, Byte(Len(frames) + 1, 1))
    /\ lost' = Append(lost, 0)
    /\ UNCHANGED <<serial_buff, done, stray>>

SendByte ==
    /\ ~Between /\ Len(port) < LGW_GPS_MIN_MSG_SIZE
    /\ sent' = sent + 1 /\ port' = Append(port, Byte(Len(frames), sent + 1))
    /\ UNCHANGED <<serial_buff, done, frames, lost, stray>>

LoseByte ==
    /\ ~Between /\ Last(lost) = 0
    /\ sent' = sent + 1 /\ lost' = [lost EXCEPT ![Len(frames)] = sent + 1]
    /\ UNCHANGED <<serial_buff, port, done, frames, stray>>

SendStray ==
    /\ Between /\ Len(port) < LGW_GPS_MIN_MSG_SIZE /\ stray < MaxStray
    /\ \E b \in {Stray, StraySync} : port' = Append(port, b)
    /\ stray' = stray + 1
    /\ UNCHANGED <<serial_buff, done, frames, sent, lost>>

-----------------------------------------------------------------------------
(* thread_gps.                                                             *)

(* Size of the frame whose sync char is at rd in the buffer b, as it was   *)
(* sent.                                                                   *)
ClaimedSize(b, rd) ==
    IF b[rd].frame = 0 THEN FALSE_SIZE ELSE frames[b[rd].frame]

(* From rd on b has the first n bytes of a frame.                          *)
Holds(b, rd, n) ==
    /\ rd + n - 1 <= Len(b)
    /\ \A k \in 1..n : b[rd + k - 1] = Byte(b[rd].frame, k)

(* The position of an LF in a frame of n bytes, or 0.                      *)
LfPos(n) == IF n \in NmeaLengths THEN n ELSE IF n \in UbxLfLengths THEN 2 ELSE 0

(* Where memchr can find the end marker of an NMEA frame.                  *)
EndMarkers(b, rd) ==
    {k \in rd..Len(b) : b[k].frame # 0 /\ b[k].pos = LfPos(frames[b[k].frame])}

(* Mutant: a frame that fails its checksum is skipped whole.               *)
FrameSizeClaimed(b, rd) ==
    IF b[rd].pos = 1 /\ rd + ClaimedSize(b, rd) - 1 <= Len(b)
    THEN ClaimedSize(b, rd) ELSE 0

(* frame_size after lgw_parse_ubx or lgw_parse_nmea: 0 without a sync      *)
(* char, and for a frame that is incomplete or fails its checksum.  An     *)
(* NMEA frame extends to the next LF, wherever that is.                    *)
FrameSize(b, rd) ==
    LET size == ClaimedSize(b, rd)
        ends == EndMarkers(b, rd)
    IN  CASE b[rd].pos # 1 \/ b[rd].frame = 0 -> 0
          [] size \in NmeaLengths ->
               IF Holds(b, rd, size - 2) /\ ends # {} THEN Min(ends) - rd + 1 ELSE 0
          [] OTHER -> IF Holds(b, rd, size) THEN size ELSE 0

(* Mutant: the last frame processed stays in the buffer.                   *)
ScanKeepsStart(b) ==
    LET scan[rd \in 1..(Len(b) + 1)] ==
        IF rd > Len(b) THEN [done |-> <<>>, end |-> 0]
        ELSE IF FrameSize(b, rd) > 0
        THEN LET rest == scan[rd + FrameSize(b, rd)]
             IN  [done |-> <<b[rd].frame>> \o rest.done, end |-> rd - 1]
        ELSE scan[rd + 1]
    IN  scan[1]

(* The scan: the frames processed, and frame_end_idx, the end of the last. *)
Scan(b) ==
    LET scan[rd \in 1..(Len(b) + 1)] ==
        IF rd > Len(b) THEN [done |-> <<>>, end |-> 0]
        ELSE IF FrameSize(b, rd) > 0
        THEN LET rest == scan[rd + FrameSize(b, rd)]
             IN  [done |-> <<b[rd].frame>> \o rest.done,
                  end |-> IF rest.end > 0 THEN rest.end
                          ELSE rd + FrameSize(b, rd) - 1]
        ELSE scan[rd + 1]
    IN  scan[1]

(* "Prevent buffer overflow"                                               *)
MakeRoom(b) ==
    IF BUFF_SIZE - Len(b) < LGW_GPS_MIN_MSG_SIZE
    THEN SubSeq(b, LGW_GPS_MIN_MSG_SIZE + 1, Len(b)) ELSE b

(* An iteration of thread_gps.                                             *)
thread_gps ==
    /\ port # <<>>
    /\ LET b == serial_buff \o port
           s == Scan(b)
       IN  /\ done' = done \o s.done
           /\ serial_buff' = MakeRoom(SubSeq(b, s.end + 1, Len(b)))
    /\ port' = <<>>
    /\ UNCHANGED <<frames, sent, lost, stray>>

-----------------------------------------------------------------------------
Next == StartFrame \/ SendByte \/ LoseByte \/ SendStray \/ thread_gps

Spec == Init /\ [][Next]_vars

-----------------------------------------------------------------------------
(* The frames certain to be taken whole, whatever stays in front of them.  *)
SAFE_LENGTH == BUFF_SIZE - 2 * LGW_GPS_MIN_MSG_SIZE + 2

Received(f) == (f < Len(frames) \/ sent = frames[f]) /\ lost[f] = 0

(* The frame comes behind an NMEA frame that lost its LF, with no LF in    *)
(* between: that frame extends into it.                                    *)
Swallowed(f) ==
    \E g \in 1..(f - 1) :
        /\ frames[g] \in NmeaLengths /\ lost[g] = frames[g]
        /\ \A h \in (g + 1)..(f - 1) : LfPos(frames[h]) \in {0, lost[h]}

(* When thread_gps has read all there is, each frame that was received     *)
(* undamaged and is at most SAFE_LENGTH long (114 bytes in the code) has   *)
(* been processed, whatever stray bytes, damaged or longer frames came     *)
(* before it.  Only an NMEA frame without its end takes others with it,    *)
(* up to the next LF: its checksum does not tell.                          *)
NoFrameLost ==
    port = <<>> =>
        \A f \in DOMAIN frames :
            Received(f) /\ frames[f] <= SAFE_LENGTH /\ ~Swallowed(f)
                => f \in ToSet(done)

(* thread_gps processes frames in the order they came and none twice.      *)
OnceInOrder == \A i, j \in DOMAIN done : i < j => done[i] < done[j]
=============================================================================
