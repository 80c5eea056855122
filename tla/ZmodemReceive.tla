--------------------------- MODULE ZmodemReceive ---------------------------
(***************************************************************************)
(* The ZMODEM receiver of the test application: rz_tabby and its helpers   *)
(* (zmodem_tabby_rx_min.c) and the rz command that programs the file into  *)
(* the flash (zmodem_tabby_rx_rz.c), against a sender that offers one      *)
(* file.  A token of the line is a header, a file description, a data      *)
(* byte or the end of a subpacket, each with its escapes and its checksum. *)
(* rz may run again after a failure: its statics keep their values.        *)
(***************************************************************************)
EXTENDS Integers, SequencesExt

CONSTANTS Sizes,             \* the sizes of the files a sender may offer
          File(_),           \* the file of each size
          write_buf_size,    \* sizeof(rx_scratch)
          PageSize,          \* sizeof(flash_page), also RT_ALIGN's unit
          FLASH_SECTOR_SIZE,
          FlashSize,         \* the bytes of the flash from APP_OFFSET on
          Window,            \* bounds the tokens under way
          MaxCalls,          \* bounds the runs of rz
          MaxFaults          \* bounds the faults of line, user and flash

FF == 255              \* an erased byte

ASSUME ZmodemAssumption ==
    /\ {write_buf_size, PageSize, FLASH_SECTOR_SIZE, FlashSize, Window,
        MaxCalls, MaxFaults} \subseteq Nat
    /\ write_buf_size \in 2..PageSize /\ PageSize % 2 = 0
    /\ FLASH_SECTOR_SIZE >= 2
    /\ Sizes \subseteq 1..FlashSize
    /\ \A n \in Sizes : File(n) \in [1..n -> 0..FF]

VARIABLES
  line, replies,       \* the tokens under way to and from the device
  snd, size, pos,      \* the sender: what it waits for, its file, its place
  inframe, some,       \* in a ZDATA frame; bytes since the subpacket began
  pc,                  \* where rz is
  ctx,                 \* filename (present or not) and bytes_received
  scratch,             \* write_buf up to used
  st,                  \* the statics of rz
  flash, super_mode, file_size,
  taken,               \* history: the payload read since on_begin
  calls, faults

sender == <<snd, size, pos, inframe, some>>
vars == <<line, replies, sender, pc, ctx, scratch, st, flash, super_mode,
          file_size, taken, calls, faults>>

Old == 254             \* a byte of the image that was there before
Junk == 0              \* a damaged byte
Headers == {"ZRINIT", "ZSINIT", "ZACK", "ZFILE", "ZFIN", "ZRPOS", "ZDATA",
            "ZEOF"}
Ends == {"ZCRCE", "ZCRCG", "ZCRCQ", "ZCRCW"}

Hdr(type)  == [t |-> "header", v |-> type]
End(e)     == [t |-> "end", v |-> e]
Byte(b)    == [t |-> "byte", v |-> b]
Info(n)    == [t |-> "info", v |-> n]    \* name and size of a file
NoName     == [t |-> "info", v |-> 0]    \* a description without a name
Noise      == [t |-> "noise", v |-> 0]   \* a header with a bad checksum

Tokens == [t : {"header"}, v : Headers] \cup [t : {"end"}, v : Ends]
          \cup [t : {"byte"}, v : 0..FF]
          \cup [t : {"info"}, v : Sizes \cup {0}] \cup {Noise}

At(i) == i + 1                           \* flash is a sequence

TypeOK ==
    /\ line \in Seq(Tokens) /\ replies \in Seq(Headers)
    /\ snd \in {"start", "sinit", "offered", "data", "ack", "eof", "fin"}
    /\ size \in Sizes /\ pos \in 0..size
    /\ inframe \in BOOLEAN /\ some \in BOOLEAN
    /\ pc \in {"idle", "pick", "sinit", "info", "hdr", "data", "booted"}
    /\ ctx \in [filename : BOOLEAN, bytes_received : Nat]
    /\ Len(scratch) < write_buf_size
    /\ st \in [flash_write_pos : 0..FlashSize, expected_size : Nat,
               received_size : Nat, page : Seq(0..FF)]
    /\ Len(st.page) <= PageSize
    /\ flash \in [1..FlashSize -> 0..FF]
    /\ super_mode \in 0..2 /\ file_size \in Nat
    /\ calls \in 0..MaxCalls /\ faults \in 0..MaxFaults

-----------------------------------------------------------------------------
(* The flash below rz: a page of bytes is programmed by half-words, in     *)
(* order, until one is not erased or not there; erase takes whole sectors. *)

HalfwordErased(fl, a) ==
    At(a + 1) \in DOMAIN fl /\ fl[At(a)] = FF /\ fl[At(a + 1)] = FF

onchip_flash_write(fl, offset, buf) ==
    LET stuck == {k \in 0..(Len(buf) - 1) :
                    k % 2 = 0 /\ ~HalfwordErased(fl, offset + k)}
        n     == IF stuck = {} THEN Len(buf) ELSE Min(stuck)
    IN  [flash |-> SubSeq(fl, 1, offset) \o SubSeq(buf, 1, n)
                   \o SubSeq(fl, At(offset + n), Len(fl)),
         ok    |-> stuck = {}]

(* onchip_flash_erase after k sectors: it stops at one that fails.         *)
onchip_flash_erase(fl, k) ==
    [a \in DOMAIN fl |-> IF a <= k * FLASH_SECTOR_SIZE THEN FF ELSE fl[a]]

RT_ALIGN(n) == ((n + PageSize - 1) \div PageSize) * PageSize
Sectors(n)  == RT_ALIGN(n) \div FLASH_SECTOR_SIZE

(* Mutant: a page that is written is not emptied.                          *)
PageKept(fl, s) ==
    LET w == onchip_flash_write(fl, s.flash_write_pos, s.page)
    IN  [flash |-> w.flash, ok |-> w.ok,
         st |-> [s EXCEPT !.flash_write_pos = @ + Len(s.page)]]

(* flash_flush_page: an odd page is filled up with FF.                     *)
flash_flush_page(fl, s) ==
    LET page == IF Len(s.page) % 2 = 1 THEN Append(s.page, FF) ELSE s.page
        w    == onchip_flash_write(fl, s.flash_write_pos, page)
    IN  [flash |-> w.flash, ok |-> w.ok,
         st |-> IF w.ok
                THEN [s EXCEPT !.page = << >>,
                               !.flash_write_pos = @ + Len(page)]
                ELSE [s EXCEPT !.page = page]]

Counted(s, data) == [s EXCEPT !.received_size = @ + Len(data)]
Filled(s, data)  == [s EXCEPT !.page = @ \o data]

(* Mutant: what does not fit into the page is dropped with it.             *)
CutAtPage(fl, s, data) ==
    LET space == PageSize - Len(s.page)
    IN  IF Len(data) < space
        THEN [flash |-> fl, ok |-> TRUE, st |-> Filled(Counted(s, data), data)]
        ELSE flash_flush_page(fl, Filled(Counted(s, data),
                                         SubSeq(data, 1, space)))

(* on_data: the chunk is cut where the page is full; a page that fails to  *)
(* be written ends it with the rest of the chunk counted and not kept.  No *)
(* chunk is longer than a page.                                            *)
on_data(fl, s, data) ==
    LET space == PageSize - Len(s.page)
        take  == IF Len(data) < space THEN Len(data) ELSE space
        full  == Filled(Counted(s, data), SubSeq(data, 1, take))
        r     == flash_flush_page(fl, full)
    IN  IF take < space
        THEN [flash |-> fl, ok |-> TRUE, st |-> full]
        ELSE IF ~r.ok THEN r
        ELSE [r EXCEPT !.st = Filled(r.st, SubSeq(data, take + 1, Len(data)))]

(* check_fireware, which this repository lacks: the image's own checksum.  *)
check_fireware(fl, n, pass) == SubSeq(fl, 1, n) = File(n) => pass

-----------------------------------------------------------------------------
(* The sender and the line.  A token that is sent arrives, is lost or is   *)
(* damaged: a damaged end of a subpacket reads as a byte of data.          *)

Damaged(tok) ==
    CASE tok.t = "header" -> {Noise}
      [] tok.t = "info"   -> {NoName} \cup {Info(n) : n \in Sizes \ {tok.v}}
      [] OTHER            -> {Byte(Junk)}

Faulty(toks) == {RemoveAt(toks, i) : i \in DOMAIN toks}
    \cup UNION {{ReplaceAt(toks, i, d) : d \in Damaged(toks[i])} :
                   i \in DOMAIN toks}

Send(toks) ==
    /\ Len(line) + Len(toks) <= Window
    /\ \/ line' = line \o toks /\ UNCHANGED faults
       \/ /\ faults < MaxFaults
          /\ \E arrived \in Faulty(toks) : line' = line \o arrived
          /\ faults' = faults + 1

Hears(type) == replies # << >> /\ Head(replies) = type
               /\ replies' = Tail(replies)

device == <<pc, ctx, scratch, st, flash, super_mode, file_size, taken>>

(* A sender attaches when it hears ZRINIT; it may send ZSINIT first.       *)
SendInit ==
    /\ snd = "start" /\ Hears("ZRINIT")
    /\ Send(<<Hdr("ZSINIT"), End("ZCRCW")>>) /\ snd' = "sinit"
    /\ UNCHANGED <<device, size, pos, inframe, some, calls>>

Offer ==
    /\ \/ snd = "start" /\ Hears("ZRINIT")
       \/ snd = "sinit" /\ Hears("ZACK")
    /\ Send(<<Hdr("ZFILE"), Info(size), End("ZCRCW")>>) /\ snd' = "offered"
    /\ UNCHANGED <<device, size, pos, inframe, some, calls>>

Accepted ==
    /\ snd = "offered" /\ Hears("ZRPOS") /\ snd' = "data"
    /\ UNCHANGED <<line, device, size, pos, inframe, some, calls, faults>>

SendFrame ==
    /\ snd = "data" /\ ~inframe /\ pos < size
    /\ Send(<<Hdr("ZDATA")>>) /\ inframe' = TRUE /\ some' = FALSE
    /\ UNCHANGED <<replies, device, snd, size, pos, calls>>

SendByte ==
    /\ snd = "data" /\ inframe /\ pos < size
    /\ Send(<<Byte(File(size)[pos + 1])>>) /\ pos' = pos + 1 /\ some' = TRUE
    /\ UNCHANGED <<replies, device, snd, size, inframe, calls>>

(* The end of a subpacket: the frame goes on after ZCRCG and ZCRCQ, and    *)
(* the sender waits for an answer after ZCRCW.  Only a frame may end empty.*)
SendEnd(e) ==
    /\ snd = "data" /\ inframe
    /\ some \/ (pos = size /\ e \in {"ZCRCE", "ZCRCW"})
    /\ Send(<<End(e)>>) /\ some' = FALSE
    /\ inframe' = (e \in {"ZCRCG", "ZCRCQ"})
    /\ snd' = IF e = "ZCRCW" THEN "ack" ELSE "data"
    /\ UNCHANGED <<replies, device, size, pos, calls>>

Acknowledged ==
    /\ snd = "ack" /\ Hears("ZACK") /\ snd' = "data"
    /\ UNCHANGED <<line, device, size, pos, inframe, some, calls, faults>>

SendEof ==
    /\ snd = "data" /\ ~inframe /\ pos = size
    /\ Send(<<Hdr("ZEOF")>>) /\ snd' = "eof"
    /\ UNCHANGED <<replies, device, size, pos, inframe, some, calls>>

SendFin ==
    /\ snd = "eof" /\ Hears("ZRINIT")
    /\ Send(<<Hdr("ZFIN")>>) /\ snd' = "fin"
    /\ UNCHANGED <<device, size, pos, inframe, some, calls>>

NewSession == /\ snd' = "start" /\ size' \in Sizes /\ pos' = 0
              /\ inframe' = FALSE /\ some' = FALSE

Finished ==
    /\ snd = "fin" /\ Hears("ZFIN") /\ NewSession
    /\ UNCHANGED <<line, device, calls, faults>>

(* The answers to ZCRCQ, which nobody waits for.                           *)
Ignored ==
    /\ snd \in {"data", "eof", "fin"} /\ Hears("ZACK")
    /\ UNCHANGED <<line, device, sender, calls, faults>>

(* The user cancels the sender: after rz has returned, or in its midst.    *)
Cancel ==
    /\ snd # "start" /\ NewSession /\ replies' = << >>
    /\ faults' = IF pc = "idle" THEN faults ELSE faults + 1
    /\ faults' <= MaxFaults
    /\ UNCHANGED <<line, device, calls>>

-----------------------------------------------------------------------------
(* The receiver.                                                           *)

Takes(tok) == line # << >> /\ Head(line) = tok /\ line' = Tail(line)
Reply(type) == replies' = Append(replies, type)

(* rz: super_mode, the context, ZRINIT, and the wait for ZFILE.  The       *)
(* command comes from the terminal the sender runs in, which is free then. *)
rz ==
    /\ pc = "idle" /\ snd = "start" /\ calls < MaxCalls
    /\ calls' = calls + 1 /\ super_mode' = 2
    /\ ctx' = [filename |-> FALSE, bytes_received |-> 0]
    /\ Reply("ZRINIT") /\ pc' = "pick" /\ scratch' = << >>
    /\ UNCHANGED <<line, sender, st, flash, file_size, taken, faults>>

(* Mutant: the number of bytes is not compared with that of ZFILE.         *)
NotEmpty(s) == s.received_size # 0
Complete(s) == s.received_size # 0 /\ s.received_size = s.expected_size

(* on_end with an argument other than 0: rz passes it the error rz_tabby   *)
(* returned, after a failed frame as the second call.  on_end(0) only sets *)
(* super_mode.                                                             *)
on_end(fl, s) ==
    \E r \in {flash_flush_page(fl, s)}, pass \in BOOLEAN :
        /\ check_fireware(r.flash, s.received_size, pass)
        /\ flash' = r.flash /\ st' = r.st /\ scratch' = << >>
        /\ IF r.ok /\ Complete(s) /\ pass
           THEN /\ pc' = "booted" /\ super_mode' = 0
                /\ file_size' = s.received_size
           ELSE /\ pc' = "idle" /\ super_mode' = 1 /\ UNCHANGED file_size

(* Everything recv_header skips: stray bytes, damaged headers and headers  *)
(* the loop it is called from does not know.                               *)
Known == IF pc = "pick" THEN {"ZSINIT", "ZFILE"} ELSE {"ZDATA", "ZEOF", "ZFIN"}
Skip ==
    /\ pc \in {"pick", "hdr"} /\ line # << >>
    /\ Head(line) \notin {Hdr(type) : type \in Known}
    /\ line' = Tail(line)
    /\ UNCHANGED <<replies, sender, device, calls, faults>>

Skipped ==     \* what the shell reads after rz
    /\ pc = "idle" /\ line # << >> /\ line' = Tail(line)
    /\ UNCHANGED <<replies, sender, device, calls, faults>>

ReadInit ==
    /\ pc = "pick" /\ Takes(Hdr("ZSINIT")) /\ pc' = "sinit"
    /\ UNCHANGED <<replies, sender, ctx, scratch, st, flash, super_mode,
                   file_size, taken, calls, faults>>

(* discard_subpacket, whose result nobody looks at.                        *)
DiscardInit ==
    /\ pc = "sinit" /\ line # << >> /\ line' = Tail(line)
    /\ IF Head(line).t = "end" THEN pc' = "pick" /\ Reply("ZACK")
       ELSE UNCHANGED <<pc, replies>>
    /\ UNCHANGED <<sender, ctx, scratch, st, flash, super_mode, file_size,
                   taken, calls, faults>>

ReadFile ==
    /\ pc = "pick" /\ Takes(Hdr("ZFILE")) /\ pc' = "info" /\ scratch' = << >>
    /\ UNCHANGED <<replies, sender, ctx, st, flash, super_mode, file_size,
                   taken, calls, faults>>

(* on_begin; the result of the erase is not looked at.                     *)
Begun(n) == [flash_write_pos |-> 0, expected_size |-> n, received_size |-> 0,
             page |-> << >>]

ReadInfo ==
    /\ pc = "info" /\ line # << >> /\ Head(line).t # "end"
    /\ line' = Tail(line)
    /\ scratch' = IF Head(line).t = "info" THEN <<Head(line).v>> ELSE scratch
    /\ UNCHANGED <<replies, sender, pc, ctx, st, flash, super_mode, file_size,
                   taken, calls, faults>>

(* handle_zfile once its subpacket is there: without a description it is   *)
(* an error; a file without a name is begun and then given up.             *)
EndInfo ==
    /\ pc = "info" /\ line # << >> /\ Head(line).t = "end"
    /\ line' = Tail(line)
    /\ UNCHANGED <<sender, calls>>
    /\ IF scratch = << >>
       THEN on_end(flash, st) /\ UNCHANGED <<replies, ctx, taken, faults>>
       ELSE \E k \in 0..Sectors(scratch[1]) :
              LET n  == scratch[1]
                  fl == onchip_flash_erase(flash, k)
              IN  /\ faults' = IF k < Sectors(n) THEN faults + 1 ELSE faults
                  /\ faults' <= MaxFaults
                  /\ taken' = << >> /\ Reply("ZRPOS")
                  /\ IF n = 0
                     THEN on_end(fl, Begun(n)) /\ UNCHANGED ctx
                     ELSE /\ flash' = fl /\ st' = Begun(n)
                          /\ ctx' = [ctx EXCEPT !.filename = TRUE]
                          /\ pc' = "hdr" /\ scratch' = << >>
                          /\ UNCHANGED <<super_mode, file_size>>

ReadData ==
    /\ pc = "hdr" /\ Takes(Hdr("ZDATA")) /\ pc' = "data" /\ scratch' = << >>
    /\ UNCHANGED <<replies, sender, ctx, st, flash, super_mode, file_size,
                   taken, calls, faults>>

(* data_chunk_cb and on_data: a failure ends the transfer.                 *)
Deliver(data, next) ==
    \E r \in {on_data(flash, st, data)} :
        IF r.ok
        THEN /\ flash' = r.flash /\ st' = r.st /\ scratch' = << >>
             /\ ctx' = [ctx EXCEPT !.bytes_received = @ + Len(data)]
             /\ pc' = next /\ UNCHANGED <<super_mode, file_size>>
        ELSE on_end(r.flash, r.st) /\ UNCHANGED ctx

(* read_subpacket_stream: a byte, or what a header in its place reads as.  *)
ReadByte ==
    /\ pc = "data" /\ line # << >> /\ Head(line).t # "end"
    /\ line' = Tail(line)
    /\ LET b   == IF Head(line).t = "byte" THEN Head(line).v ELSE Junk
           buf == Append(scratch, b)
       IN  /\ taken' = Append(taken, b)
           /\ IF Len(buf) = write_buf_size
              THEN Deliver(buf, "data")
              ELSE /\ scratch' = buf
                   /\ UNCHANGED <<pc, ctx, st, flash, super_mode, file_size>>
    /\ UNCHANGED <<replies, sender, calls, faults>>

(* Mutant: ZCRCQ is taken for the end of the frame.                        *)
OnlyG == {"ZCRCG"}
Continues == {"ZCRCG", "ZCRCQ"}

(* Mutant: the end of a frame is not acknowledged.                         *)
OnlyQ == {"ZCRCQ"}
Acknowledges == {"ZCRCQ", "ZCRCW"}

(* The end of a subpacket: its checksum is read and not compared.          *)
ReadEnd(e) ==
    /\ pc = "data" /\ Takes(End(e))
    /\ Deliver(scratch, IF e \in Continues THEN "data" ELSE "hdr")
    /\ IF e \in Acknowledges /\ on_data(flash, st, scratch).ok
       THEN Reply("ZACK") ELSE UNCHANGED replies
    /\ UNCHANGED <<sender, taken, calls, faults>>

ReadEof ==
    /\ pc = "hdr" /\ Takes(Hdr("ZEOF")) /\ Reply("ZRINIT")
    /\ UNCHANGED <<sender, device, calls, faults>>

(* ZFIN ends the transfer whether or not ZEOF came before it.              *)
ReadFin ==
    /\ pc = "hdr" /\ Takes(Hdr("ZFIN")) /\ Reply("ZFIN")
    /\ on_end(flash, st)
    /\ UNCHANGED <<sender, ctx, taken, calls, faults>>

(* A deadline that passes: the user picks no file, or a subpacket is late. *)
(* While rz waits for a header after ZFILE it starts over instead.         *)
Timeout ==
    /\ pc \in {"pick", "sinit", "info", "data"}
    /\ faults < MaxFaults /\ faults' = faults + 1
    /\ IF pc = "sinit"
       THEN /\ pc' = "pick" /\ Reply("ZACK")
            /\ UNCHANGED <<scratch, st, flash, super_mode, file_size>>
       ELSE on_end(flash, st) /\ UNCHANGED replies
    /\ UNCHANGED <<line, sender, ctx, taken, calls>>

-----------------------------------------------------------------------------
Init ==
    /\ line = << >> /\ replies = << >>
    /\ snd = "start" /\ size \in Sizes /\ pos = 0
    /\ inframe = FALSE /\ some = FALSE
    /\ pc = "idle" /\ ctx = [filename |-> FALSE, bytes_received |-> 0]
    /\ scratch = << >> /\ st = Begun(0)
    /\ \E b \in {FF, Old} : flash = [a \in 1..FlashSize |-> b]
    /\ super_mode = 0 /\ file_size = 0 /\ taken = << >>
    /\ calls = 0 /\ faults = 0

Sender == SendInit \/ Offer \/ Accepted \/ SendFrame \/ SendByte
          \/ (\E e \in Ends : SendEnd(e)) \/ Acknowledged \/ SendEof
          \/ SendFin \/ Finished \/ Ignored
Receiver == Skip \/ Skipped \/ ReadInit \/ DiscardInit \/ ReadFile
            \/ ReadInfo \/ EndInfo \/ ReadData \/ ReadByte
            \/ (\E e \in Ends : ReadEnd(e)) \/ ReadEof \/ ReadFin

Next == Sender \/ Receiver \/ Timeout \/ rz \/ Cancel

(* The receiver polls; a sender that hears its answers goes on.            *)
Spec == Init /\ [][Next]_vars /\ WF_vars(Sender) /\ WF_vars(Receiver)

-----------------------------------------------------------------------------
(* Between ZFILE and the end of the transfer, what was programmed, what    *)
(* waits in the page and what waits in the scratch buffer are together     *)
(* what was read from the line, and the three counters agree on it: the    *)
(* file is cut twice, into subpackets and into pages.                      *)
NothingLostOnTheWay ==
    pc \in {"hdr", "data"} =>
        /\ SubSeq(flash, 1, st.flash_write_pos) \o st.page \o scratch = taken
        /\ st.received_size = ctx.bytes_received
        /\ st.received_size = st.flash_write_pos + Len(st.page)

(* When rz boots, now or in a later run, the flash holds the first bytes   *)
(* of the last file that was begun, as many as were announced, and the     *)
(* size that is recorded is theirs, whatever failed on the way: on_end     *)
(* takes the errors of rz_tabby for successes.                             *)
BootsWhatWasAnnounced ==
    pc = "booted" =>
        /\ file_size = st.expected_size /\ file_size <= Len(taken)
        /\ SubSeq(flash, 1, file_size) = SubSeq(taken, 1, file_size)

(* Without a fault a file that is offered is booted, unless the erase left *)
(* the end of the old image in its place.                                  *)
Arrives ==
    LET room == Sectors(size) * FLASH_SECTOR_SIZE >= size
                \/ \A a \in DOMAIN flash : flash[a] = FF
    IN  (snd = "offered" /\ room) ~> (pc = "booted" \/ faults > 0)

(* Without a fault every run of rz comes to an end.                        *)
RzReturns == (pc # "idle") ~> (pc \in {"idle", "booted"} \/ faults > 0)
-----------------------------------------------------------------------------
(* The inductive invariant behind the safety properties, in parts.         *)

(* What the buffers hold while they are being filled.                       *)
BuffersInv ==
    /\ taken \in Seq(0..FF)
    /\ scratch \in Seq(IF pc = "info" THEN Sizes \cup {0} ELSE 0..FF)
    /\ pc = "hdr" => scratch = << >>
    /\ pc \in {"pick", "sinit", "info"} => ctx.bytes_received = 0
    /\ pc \in {"hdr", "data"} => Len(st.page) < PageSize

(* The page cannot be written, however often that is tried.                 *)
PageStuck(fl, s) ==
    \E k \in 0..(Len(s.page) - 1) :
        k % 2 = 0 /\ ~HalfwordErased(fl, s.flash_write_pos + k)

(* What rz keeps of the file: the bytes on the flash, then the page's.      *)
KeptByte(fl, s, i) ==
    IF i <= s.flash_write_pos THEN fl[i] ELSE s.page[i - s.flash_write_pos]

(* Also when rz has failed and runs again with its statics as they were,   *)
(* what was counted is there as it was read, or never will be programmed.  *)
Accounted(fl, s, tk) ==
    \/ PageStuck(fl, s)
    \/ /\ s.received_size <= s.flash_write_pos + Len(s.page)
       /\ s.received_size <= Len(tk)
       /\ \A i \in 1..s.received_size : KeptByte(fl, s, i) = tk[i]

StaticsInv == Accounted(flash, st, taken)

IInv ==
    /\ TypeOK /\ BuffersInv
    /\ NothingLostOnTheWay /\ StaticsInv /\ BootsWhatWasAnnounced
=============================================================================
