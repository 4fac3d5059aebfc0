--------------------------- MODULE RequestBuffers ---------------------------
(***************************************************************************)
(* The memory of one connection of the sign-in server: the pool of         *)
(* memorypool.c, and what connection.c keeps in it while it reads requests *)
(* and answers them. The read buffer lies at the front of the pool and     *)
(* moves past each line it hands out; what was read stays where it is, and *)
(* pointers to it are kept until the next request. Records for arguments   *)
(* and headers come from the end of the pool, the head of the reply from   *)
(* what is free behind the read buffer.                                    *)
(*                                                                         *)
(* A byte of the memory is the number of the byte of the client's stream   *)
(* it was read from, so that a byte overwritten or out of place shows. The *)
(* client sends no bodies (OauthServer has them) and no HTTP/0.9; empty    *)
(* lines in front of a request are skipped, one each time the handlers are *)
(* called. A malloc outside the pool works.                                *)
(***************************************************************************)
EXTENDS Integers, Sequences, SequencesExt

CONSTANTS
    PoolSize,          \* MHD_POOL_SIZE_DEFAULT
    ALIGN_SIZE,
    MHD_BUF_INC_SIZE,  \* also daemon->pool_increment
    RecordSize,        \* sizeof (struct MHD_HTTP_Header)
    ReplySize,         \* the head of a reply, build_header_response's `size'
    Streams            \* what clients send: sequences of requests

ASSUME PoolAssumption ==
    /\ ALIGN_SIZE \in Nat \ {0}
    /\ PoolSize \in Nat /\ PoolSize % (2 * ALIGN_SIZE) = 0
    /\ MHD_BUF_INC_SIZE \in Nat \ {0} /\ 4 * MHD_BUF_INC_SIZE <= PoolSize
    /\ RecordSize \in Nat \ {0}
    /\ ReplySize \in Nat /\ ReplySize >= RecordSize

(* A request is a sequence of lines, a line a sequence of bytes with its   *)
(* end; the last line is empty, and so may be the first ones.              *)
Bytes == {"x", " ", "?", "&", ":", ";", "Cookie", "\r", "\n"}

LineEnds == {<<"\n">>, <<"\r", "\n">>}

(* A line ends at byte i of w that has nothing in it. *)
EmptyLineEnds(w, i) ==
    /\ i \in 2 .. Len(w) /\ w[i] = "\n"
    /\ w[i - 1] = "\n" \/ (i > 2 /\ w[i - 1] = "\r" /\ w[i - 2] = "\n")

(* In the bytes of a stream a \r is there only in front of a \n. *)
ASSUME StreamAssumption ==
    \A s \in Streams :
       /\ s # <<>>
       /\ \A i \in DOMAIN s :
            /\ s[i] \in Seq(Seq(Bytes)) \ {<<>>}
            /\ Last(s[i]) \in LineEnds
       /\ LET w == FlattenSeq(FlattenSeq(s))
          IN  /\ w \in Seq(Bytes)
              /\ \A i \in 1 .. Len(w) :
                   w[i] = "\r" => i < Len(w) /\ w[i + 1] = "\n"

VARIABLES
    reqs,  \* the requests the client sends
    wire,  \* their bytes
    got,   \* how many of them have been received
    con,   \* the struct MHD_Connection and its pool
    pc,    \* where call_handlers is
    skipped,  \* its last look for a request line skipped an empty line
    seen   \* what the program's handler has been shown of each request

vars == <<reqs, wire, got, con, pc, skipped, seen>>

-----------------------------------------------------------------------------
(* memorypool.c. An address is an offset into pool->memory. *)

NULL == -1

(* What a byte holds that did not come from the client. *)
NUL == 0
JUNK == -1      \* malloc'ed and never written
RECORD == -2
REPLY == -3

HalfPool == PoolSize \div 2

ROUND_TO_ALIGN(n) ==
    ((n + ALIGN_SIZE - 1) \div ALIGN_SIZE) * ALIGN_SIZE

(* The cells in the domain of part are overwritten. *)
Write(mem, part) ==
    [i \in DOMAIN mem \cup DOMAIN part |->
       IF i \in DOMAIN part THEN part[i] ELSE mem[i]]

Fill(mem, a, n, v) == Write(mem, [i \in a .. a + n - 1 |-> v])

memmove(mem, to, from, n) ==
    Write(mem, [i \in to .. to + n - 1 |-> mem[from + (i - to)]])

(* MHD_pool_allocate from the end or from the front: whether it can be     *)
(* done, and the pool after it. The block is at the new `end' or the old   *)
(* `pos'.                                                                  *)
CanAllocate(c, size) == c.pos + ROUND_TO_ALIGN(size) <= c.end

AllocateAtEnd(c, size) == [c EXCEPT !.end = @ - ROUND_TO_ALIGN(size)]

AllocateInFront(c, size) == [c EXCEPT !.pos = @ + ROUND_TO_ALIGN(size)]

(* Growing in place whatever lies behind. *)
ReallocateInPlace(c, old, old_size, new_size) ==
    LET asize == ROUND_TO_ALIGN(new_size)
    IN  IF old # NULL
        THEN [at |-> old, con |-> c]
        ELSE [at |-> c.pos, con |-> [c EXCEPT !.pos = @ + asize]]

(* MHD_pool_reallocate: the newest block grows or shrinks where it is,     *)
(* another is copied; NULL when there is no room.                          *)
MHD_pool_reallocate(c, old, old_size, new_size) ==
    LET asize == ROUND_TO_ALIGN(new_size)
        newest == c.pos >= old_size /\ c.pos - old_size = old
        moved == c.pos + asize - old_size
        fails == [at |-> NULL, con |-> c]
    IN  IF c.end < old_size \/ c.end < asize
        THEN fails
        ELSE IF newest
        THEN IF moved > c.end THEN fails
             ELSE [at |-> old,
                   con |-> [c EXCEPT
                     !.pos = moved,
                     !.mem = Fill(@, moved, old_size - asize, NUL)]]
        ELSE IF asize <= old_size THEN [at |-> old, con |-> c]
        ELSE IF c.pos + asize > c.end THEN fails
        ELSE [at |-> c.pos,
              con |-> [c EXCEPT
                !.pos = @ + asize,
                !.mem = memmove(@, c.pos, old, old_size)]]

(* Resetting the pool without moving what is kept to its start. *)
ResetBare(c, keep, copy_bytes, new_size) ==
    [c EXCEPT !.mem = Fill(@, copy_bytes, PoolSize - copy_bytes, NUL),
              !.end = PoolSize, !.pos = ROUND_TO_ALIGN(new_size)]

(* MHD_pool_reset keeping the first copy_bytes of the read buffer. *)
MHD_pool_reset(c, keep, copy_bytes, new_size) ==
    [c EXCEPT
       !.mem = Fill(memmove(@, 0, keep, copy_bytes),
                    copy_bytes, PoolSize - copy_bytes, NUL),
       !.end = PoolSize,
       !.pos = ROUND_TO_ALIGN(new_size)]

-----------------------------------------------------------------------------
(* A connection *)

ReadingStates == {"INIT", "URL_RECEIVED", "HEADER_PART_RECEIVED"}

(* As internal_add_connection leaves it; `shut' is no part of the struct:  *)
(* the socket has been shut down for sending.                              *)
NewConnection ==
    [mem |-> [i \in 0 .. PoolSize - 1 |-> JUNK], pos |-> 0, end |-> PoolSize,
     read_buffer |-> NULL, read_buffer_size |-> 0, read_buffer_offset |-> 0,
     write_buffer |-> NULL, write_buffer_size |-> 0, sent |-> 0,
     state |-> "INIT", url |-> NULL, last |-> NULL, colon |-> NULL,
     headers |-> <<>>, response |-> "none", read_closed |-> FALSE,
     keepalive |-> FALSE, shut |-> FALSE]

(* The byte at an address. *)
At(c, a) == IF c.mem[a] > 0 THEN wire[c.mem[a]] ELSE "nul"

strlen(c, a) ==
    CHOOSE n \in 0 .. PoolSize - a :
       /\ n < PoolSize - a => c.mem[a + n] = NUL
       /\ \A i \in 0 .. n - 1 : c.mem[a + i] # NUL

Str(c, a) == [i \in 1 .. strlen(c, a) |-> c.mem[a + i - 1]]

Span(a, b) == [i \in 1 .. b - a + 1 |-> a + i - 1]

(* The places in a .. b - 1 with one of the given bytes, in order. *)
Places(c, a, b, bytes) ==
    LET found == {i \in a .. b - 1 : At(c, i) \in bytes}
    IN  [k \in 1 .. Cardinality(found) |->
           CHOOSE i \in found : Cardinality({j \in found : j <= i}) = k]

Zero(c, places) ==
    [c EXCEPT !.mem = Write(@, [i \in places |-> NUL])]

(* MHD_connection_close_. *)
Close(c) ==
    [c EXCEPT !.state = "CLOSED", !.response = "none", !.shut = TRUE]

(* build_header_response: the head of the reply behind the read buffer. *)
build_header_response(c) ==
    [AllocateInFront(c, ReplySize + 1) EXCEPT
       !.write_buffer = c.pos, !.write_buffer_size = ReplySize + 1,
       !.sent = 0, !.state = "HEADERS_SENDING",
       !.mem = Fill(@, c.pos, ReplySize, REPLY)]

SendReply(c) ==
    IF CanAllocate(c, ReplySize + 1) THEN build_header_response(c)
                                     ELSE Close(c)

(* transmit_error_response: nothing more is read, an error is sent if      *)
(* there is memory for it.                                                 *)
transmit_error_response(c) ==
    SendReply([c EXCEPT !.read_closed = TRUE, !.response = "error",
                        !.keepalive = FALSE])

(* try_grow_read_buffer; `at' is NULL when it fails. *)
try_grow_read_buffer(c) ==
    LET new_size == IF c.read_buffer_size = 0 THEN HalfPool
                    ELSE c.read_buffer_size + MHD_BUF_INC_SIZE
        r == MHD_pool_reallocate(c, c.read_buffer, c.read_buffer_size,
                                 new_size)
    IN  IF r.at = NULL THEN r
        ELSE [r EXCEPT !.con.read_buffer = r.at,
                       !.con.read_buffer_size = new_size]

(* Growing a full read buffer, and waiting when it cannot be done. *)
GrowOrWait(c) ==
    IF c.read_buffer_offset # c.read_buffer_size THEN c
    ELSE try_grow_read_buffer(c).con

(* A full read buffer grows or the request is refused; another is left. *)
GrowIfFull(c) ==
    LET r == try_grow_read_buffer(c)
    IN  IF c.read_buffer_offset # c.read_buffer_size THEN c
        ELSE IF r.at = NULL THEN transmit_error_response(c) ELSE r.con

-----------------------------------------------------------------------------
(* Lines and what is made of them *)

(* get_next_header_line: how far the line goes. A \r is an end only with   *)
(* the byte after it at hand.                                              *)
LineLength(c) ==
    LET e == {i \in 0 .. c.read_buffer_offset - 1 :
                At(c, c.read_buffer + i) \in {"\r", "\n"}}
    IN  IF e = {} THEN c.read_buffer_offset - 1
        ELSE CHOOSE i \in e : \A j \in e : i <= j

(* Taking a \r at the end of what was read for the end of the line. *)
HasLineEarly(c) ==
    /\ c.read_buffer_offset > 0
    /\ At(c, c.read_buffer + LineLength(c)) \in {"\r", "\n"}

HasLine(c) ==
    /\ c.read_buffer_offset > 0
    /\ \/ LineLength(c) < c.read_buffer_offset - 1
       \/ At(c, c.read_buffer + LineLength(c)) = "\n"

(* The line is at the old read_buffer, ended by zeros. *)
TakeLine(c) ==
    LET p == LineLength(c)
        a == c.read_buffer + p
        n == IF At(c, a) = "\r" /\ At(c, a + 1) = "\n" THEN p + 2 ELSE p + 1
    IN  [Zero(c, a .. c.read_buffer + n - 1) EXCEPT
           !.read_buffer = @ + n, !.read_buffer_size = @ - n,
           !.read_buffer_offset = @ - n]

(* get_next_header_line without a line: nothing to read grows nothing. *)
NoLine(c) == IF c.read_buffer_offset = 0 THEN c ELSE GrowIfFull(c)

(* MHD_set_connection_value for each of a list of entries, until one does  *)
(* not fit; connection_add_header then refuses the request.                *)
connection_add_headers(c, entries) ==
    LET each == ROUND_TO_ALIGN(RecordSize)
        room == (c.end - c.pos) \div each
        n == IF Len(entries) <= room THEN Len(entries) ELSE room
        added == [c EXCEPT !.end = @ - n * each,
                           !.mem = Fill(@, c.end - n * each, n * each, RECORD),
                           !.headers = @ \o SubSeq(entries, 1, n)]
    IN  IF n = Len(entries) THEN added ELSE transmit_error_response(added)

Entry(kind, key, value) == [kind |-> kind, key |-> key, value |-> value]

(* parse_initial_message_line with MHD_parse_arguments_: method, URL with  *)
(* arguments and version, cut apart where they are. A refusal by           *)
(* connection_add_header does not keep the state from moving on. Arguments *)
(* are kept whole, with their `='.                                         *)
parse_initial_message_line(c, line, len) ==
    LET spaces == Places(c, line, line + len, {" "})
        uri == spaces[1] + 1
        version == Last(spaces)
        marks == Places(c, uri, version, {"?", "&"})
        args == [i \in 1 .. Len(marks) |-> Entry("arg", marks[i] + 1, NULL)]
        cut == Zero(c, ToSet(spaces) \cup ToSet(marks))
    IN  IF spaces = <<>> THEN Close(c)
        ELSE [connection_add_headers(cut, args) EXCEPT
                !.url = uri, !.state = "URL_RECEIVED"]

(* process_header_line: name and value, cut at the colon. A line without   *)
(* one closes the connection and is then answered with an error.           *)
process_header_line(c, line) ==
    LET end == line + strlen(c, line)
        colons == Places(c, line, end, {":"})
        value == CHOOSE v \in colons[1] + 1 .. end :
                    /\ \A i \in colons[1] + 1 .. v - 1 : At(c, i) = " "
                    /\ At(c, v) # " "
    IN  IF colons = <<>> THEN transmit_error_response(Close(c))
        ELSE [Zero(c, {colons[1]}) EXCEPT
                !.last = line, !.colon = value,
                !.state = "HEADER_PART_RECEIVED"]

(* process_broken_line, first part: a line that starts with a space goes   *)
(* on with the one before; the two are joined in a block large enough.     *)
ContinueLine(c, line) ==
    LET skip == CHOOSE n \in 1 .. strlen(c, line) :
                   /\ \A i \in 0 .. n - 1 : At(c, line + i) = " "
                   /\ At(c, line + n) # " "
        last_len == strlen(c, c.last)
        tmp == line + skip
        tmp_len == strlen(c, tmp)
        r == MHD_pool_reallocate(c, c.last, last_len + 1,
                                 last_len + tmp_len + 1)
    IN  IF r.at = NULL THEN transmit_error_response(c)
        ELSE [r.con EXCEPT
                !.mem = memmove(@, r.at + last_len, tmp, tmp_len + 1),
                !.last = r.at]

(* process_broken_line, second part: the line before is complete. A header *)
(* that cannot be recorded is refused twice.                               *)
FinishHeader(c) ==
    LET added == connection_add_headers(c, <<Entry("header", c.last,
                                                   c.colon)>>)
    IN  IF CanAllocate(c, RecordSize) THEN added
        ELSE transmit_error_response(added)

process_broken_line(c, line) ==
    IF At(c, line) = " " THEN ContinueLine(c, line)
    ELSE IF ~CanAllocate(c, RecordSize) THEN FinishHeader(c)
    ELSE IF strlen(c, line) = 0
         THEN [FinishHeader(c) EXCEPT !.state = "HEADERS_RECEIVED"]
         ELSE process_header_line(FinishHeader(c), line)

(* parse_cookie_header: the value of the first cookie header is copied and *)
(* the copy cut apart.                                                     *)
parse_cookie_header(c) ==
    LET cookies == {i \in DOMAIN c.headers :
                      /\ c.headers[i].kind = "header"
                      /\ At(c, c.headers[i].key) = "Cookie"}
        hdr == c.headers[Min(cookies)].value
        size == strlen(c, hdr) + 1
        a == AllocateAtEnd(c, size)
        cpy == [a EXCEPT !.mem = memmove(@, a.end, hdr, size)]
        marks == Places(cpy, a.end, a.end + size, {";"})
        pairs == <<Entry("cookie", a.end, NULL)>>
                 \o [i \in 1 .. Len(marks) |->
                       Entry("cookie", marks[i] + 1, NULL)]
    IN  IF cookies = {} THEN c
        ELSE IF ~CanAllocate(c, size) THEN transmit_error_response(c)
        ELSE connection_add_headers(Zero(cpy, ToSet(marks)), pairs)

-----------------------------------------------------------------------------
(* Reading and writing *)

(* MHD_connection_handle_read: a buffer with little room grows if it can,  *)
(* and recv returns any number of the bytes that are there.                *)
MHD_connection_handle_read ==
    /\ pc = "wait" /\ con.state \in ReadingStates /\ ~con.read_closed
    /\ got < Len(wire)
    /\ LET low == con.read_buffer_offset + MHD_BUF_INC_SIZE
                  > con.read_buffer_size
           c == IF low THEN try_grow_read_buffer(con).con ELSE con
           room == c.read_buffer_size - c.read_buffer_offset
           a == c.read_buffer + c.read_buffer_offset
       IN  \/ room = 0 /\ con' = c /\ UNCHANGED got
           \/ \E n \in 1 .. Len(wire) - got :
                 /\ n <= room
                 /\ con' = [c EXCEPT
                      !.read_buffer_offset = @ + n,
                      !.mem = Write(@, [i \in a .. a + n - 1 |->
                                          got + 1 + (i - a)])]
                 /\ got' = got + n
    /\ pc' = "idle"
    /\ UNCHANGED <<reqs, wire, skipped, seen>>

(* check_write_done: the block of the reply's head is given back. *)
check_write_done(c) ==
    LET r == MHD_pool_reallocate(c, c.write_buffer, c.write_buffer_size, 0)
    IN  IF c.sent # c.write_buffer_size - 1 THEN c
        ELSE [r.con EXCEPT !.state = "HEADERS_SENT", !.sent = 0,
                           !.write_buffer = NULL, !.write_buffer_size = 0]

(* MHD_connection_handle_write: some of the head, or the body, which is    *)
(* not in the pool. Nothing can be sent once the socket is shut.           *)
MHD_connection_handle_write ==
    /\ pc = "wait" /\ con.state \in {"HEADERS_SENDING", "BODY_READY"}
    /\ \/ con.shut /\ con' = Close(con)
       \/ /\ ~con.shut /\ con.state = "HEADERS_SENDING"
          /\ \E n \in 1 .. con.write_buffer_size - 1 - con.sent :
                con' = check_write_done([con EXCEPT !.sent = @ + n])
       \/ /\ ~con.shut /\ con.state = "BODY_READY"
          /\ con' = [con EXCEPT !.state = "FOOTERS_SENT"]
    /\ pc' = "idle"
    /\ UNCHANGED <<reqs, wire, got, skipped, seen>>

(* MHD_connection_update_event_loop_info: a full buffer is not waited on,  *)
(* nor is the socket of a closed connection (CLEANUP).                     *)
MHD_connection_update_event_loop_info ==
    /\ pc = "update"
    /\ con' = IF con.state \in ReadingStates THEN GrowIfFull(con) ELSE con
    /\ pc' = "wait"
    /\ UNCHANGED <<reqs, wire, got, skipped, seen>>

(* call_handlers for a connection whose socket is not ready, because       *)
(* another one woke the thread. It has something to do only for one that   *)
(* is closed or stopped at an empty line.                                  *)
Woken ==
    /\ pc = "wait"
    /\ con.state = "CLOSED" \/ (con.state = "INIT" /\ skipped)
    /\ pc' = "idle"
    /\ UNCHANGED <<reqs, wire, got, con, skipped, seen>>

-----------------------------------------------------------------------------
(* MHD_connection_handle_idle, one action per case *)

Idle(state) == pc = "idle" /\ con.state = state

Goes(c) == con' = c /\ UNCHANGED <<reqs, wire, got, seen>>

(* Without a line the state decides: refused, closed, or more is to come. *)
WaitForLine(c) ==
    /\ Goes(IF c.state = con.state /\ c.read_closed THEN Close(c) ELSE c)
    /\ pc' = IF con'.state = con.state THEN "update" ELSE "idle"

(* An empty line is skipped, but what follows it is not looked at. *)
IdleInit ==
    /\ Idle("INIT")
    /\ skipped' = (HasLine(con) /\ LineLength(con) = 0)
    /\ IF ~HasLine(con) THEN WaitForLine(NoLine(con))
       ELSE IF LineLength(con) = 0 THEN WaitForLine(TakeLine(con))
       ELSE /\ Goes(parse_initial_message_line(
                       TakeLine(con), con.read_buffer, LineLength(con)))
            /\ pc' = "idle"

IdleUrlReceived ==
    /\ Idle("URL_RECEIVED") /\ UNCHANGED skipped
    /\ IF ~HasLine(con) THEN WaitForLine(NoLine(con))
       ELSE LET c == TakeLine(con)
            IN  /\ Goes(IF LineLength(con) = 0
                        THEN [c EXCEPT !.state = "HEADERS_RECEIVED"]
                        ELSE process_header_line(c, con.read_buffer))
                /\ pc' = IF con'.state \in {"HEADERS_RECEIVED",
                                            "HEADER_PART_RECEIVED"}
                         THEN "idle" ELSE "update"

IdleHeaderPartReceived ==
    /\ Idle("HEADER_PART_RECEIVED") /\ UNCHANGED skipped
    /\ IF ~HasLine(con) THEN WaitForLine(NoLine(con))
       ELSE /\ Goes(process_broken_line(TakeLine(con), con.read_buffer))
            /\ pc' = "idle"

(* parse_connection_headers: unless it closed the connection, what it did  *)
(* to the state is overwritten.                                            *)
IdleHeadersReceived ==
    /\ Idle("HEADERS_RECEIVED") /\ UNCHANGED skipped
    /\ LET c == parse_cookie_header(con)
       IN  Goes(IF c.state = "CLOSED" THEN c
                ELSE [c EXCEPT !.state = "HEADERS_PROCESSED"])
    /\ pc' = "idle"

(* call_connection_handler for the first time: answer_to_connection only   *)
(* allocates.                                                              *)
IdleHeadersProcessed ==
    /\ Idle("HEADERS_PROCESSED") /\ UNCHANGED skipped
    /\ Goes([con EXCEPT !.state = "FOOTERS_RECEIVED"])
    /\ pc' = "idle"

(* What answer_to_connection can look at. *)
Shown(c) ==
    [shut |-> c.shut,
     url |-> Str(c, c.url),
     args |-> [i \in DOMAIN SelectSeq(c.headers, LAMBDA h : h.kind = "arg")
                 |-> Str(c, c.headers[i].key)],
     fields |-> LET hs == SelectSeq(c.headers, LAMBDA h : h.kind = "header")
                IN  [i \in DOMAIN hs |-> <<Str(c, hs[i].key),
                                           Str(c, hs[i].value)>>]]

(* The final call, unless the request has been refused: the program looks  *)
(* at the arguments and queues its page. The headers of request and reply  *)
(* decide whether the connection is kept.                                  *)
IdleFootersReceived ==
    /\ Idle("FOOTERS_RECEIVED")
    /\ IF con.response = "none"
       THEN /\ seen' = Append(seen, Shown(con))
            /\ \E keep \in BOOLEAN :
                  con' = SendReply([con EXCEPT !.response = "page",
                                               !.keepalive = keep])
       ELSE con' = SendReply(con) /\ UNCHANGED seen
    /\ pc' = IF con'.state = "CLOSED" THEN "idle" ELSE "update"
    /\ UNCHANGED <<reqs, wire, got, skipped>>

(* HEADERS_SENT: the body of the reply is at hand. *)
IdleHeadersSent ==
    /\ Idle("HEADERS_SENT") /\ UNCHANGED skipped
    /\ Goes([con EXCEPT !.state = "BODY_READY"])
    /\ pc' = "update"

(* The states in which there is something to be sent. *)
IdleSending ==
    /\ Idle("HEADERS_SENDING") \/ Idle("BODY_READY")
    /\ UNCHANGED skipped
    /\ Goes(con)
    /\ pc' = "update"

(* Keeping the pool as it is. *)
NextRequestNoReset(c) ==
    [c EXCEPT !.state = "INIT", !.url = NULL, !.last = NULL, !.colon = NULL,
              !.headers = <<>>, !.response = "none"]

(* The connection is kept: everything is forgotten but the bytes of the    *)
(* next request that have been read already.                               *)
NextRequest(c) ==
    [MHD_pool_reset(c, c.read_buffer, c.read_buffer_offset, HalfPool) EXCEPT
       !.read_buffer = 0, !.read_buffer_size = HalfPool, !.state = "INIT",
       !.url = NULL, !.last = NULL, !.colon = NULL, !.headers = <<>>,
       !.response = "none", !.keepalive = FALSE]

(* More unread bytes than the next read buffer is long: the lengths do not *)
(* agree with the pool after that, and the model ends.                     *)
IdleFootersSent ==
    /\ Idle("FOOTERS_SENT") /\ UNCHANGED skipped
    /\ Goes(IF ~con.keepalive \/ con.read_closed
            THEN [Close(con) EXCEPT !.read_buffer = NULL,
                    !.read_buffer_size = 0, !.read_buffer_offset = 0]
            ELSE NextRequest(con))
    /\ pc' = IF con'.read_buffer_offset > HalfPool THEN "overrun" ELSE "idle"

(* cleanup_connection. *)
IdleClosed ==
    /\ Idle("CLOSED") /\ UNCHANGED skipped
    /\ Goes(con)
    /\ pc' = "gone"

-----------------------------------------------------------------------------
Init ==
    /\ reqs \in Streams
    /\ wire = FlattenSeq(FlattenSeq(reqs))
    /\ got = 0
    /\ con = NewConnection
    /\ pc = "idle"
    /\ skipped = FALSE
    /\ seen = <<>>

Next ==
    \/ MHD_connection_handle_read \/ MHD_connection_handle_write
    \/ MHD_connection_update_event_loop_info \/ Woken
    \/ IdleInit \/ IdleUrlReceived \/ IdleHeaderPartReceived
    \/ IdleHeadersReceived \/ IdleHeadersProcessed \/ IdleFootersReceived
    \/ IdleHeadersSent \/ IdleSending \/ IdleFootersSent \/ IdleClosed

(* The thread can go on: it is in call_handlers, or its socket is ready.   *)
Ready ==
    \/ pc \in {"idle", "update"}
    \/ /\ pc = "wait" /\ con.state \in ReadingStates /\ ~con.read_closed
       /\ got < Len(wire)
    \/ pc = "wait" /\ con.state \in {"HEADERS_SENDING", "BODY_READY"}

(* The client sends all of its stream and takes what is sent to it, and    *)
(* the thread goes round: weak fairness of Next, with Ready for ENABLED.   *)
(* No other connection needs to wake it.                                   *)
Fairness == []<>~Ready \/ []<><<Next>>_vars

Spec == Init /\ [][Next]_vars /\ Fairness

-----------------------------------------------------------------------------
(* What a request says, from the stream alone *)

(* The number of the last byte before line l of request r. *)
Before(r, l) ==
    Len(FlattenSeq(FlattenSeq(SubSeq(reqs, 1, r - 1))))
    + Len(FlattenSeq(SubSeq(reqs[r], 1, l - 1)))

(* Where a line has one of the given bytes. *)
Marks(line, bytes) ==
    SelectSeq(Span(1, Len(line)), LAMBDA i : line[i] \in bytes)

TextLength(line) == Marks(line, {"\r", "\n"})[1] - 1

(* The request line, after any empty ones. *)
Top(r) == SelectInSeq(reqs[r], LAMBDA line : line \notin LineEnds)

WellFormed(r) ==
    /\ Top(r) # 0
    /\ Marks(reqs[r][Top(r)], {" "}) # <<>>
    /\ \A l \in Top(r) + 1 .. Len(reqs[r]) - 1 :
          reqs[r][l][1] = " " \/ Marks(reqs[r][l], {":"}) # <<>>

UrlSaid(r) ==
    LET line == reqs[r][Top(r)]
        b == Before(r, Top(r))
    IN  Span(b + Marks(line, {" "})[1] + 1,
             b + Marks(line, {"?", "&", " "})[2] - 1)

ArgsSaid(r) ==
    LET line == reqs[r][Top(r)]
        b == Before(r, Top(r))
        cuts == Append(Marks(line, {"?", "&"}), Last(Marks(line, {" "})))
    IN  [i \in 1 .. Len(cuts) - 1 |-> Span(b + cuts[i] + 1, b + cuts[i+1] - 1)]

(* The lines that start a header. *)
HeaderLines(r) ==
    SelectSeq(Span(Top(r) + 1, Len(reqs[r]) - 1),
              LAMBDA l : reqs[r][l][1] # " ")

FieldSaid(r, l) ==
    LET line == reqs[r][l]
        b == Before(r, l)
        colon == Marks(line, {":"})[1]
        value == Marks(line, Bytes \ {" "})
    IN  <<Span(b + 1, b + colon - 1),
          Span(b + value[colon + 1], b + TextLength(line))>>

Continued(r, l) == reqs[r][l + 1][1] = " "

(* What a request needs of the pool besides the read buffer, when it fits  *)
(* in that: its records, the head of the reply, the copy of its cookies,   *)
(* and one more growth of the read buffer.                                 *)
Records(r) ==
    Len(ArgsSaid(r)) + Len(HeaderLines(r))
    + Len(SelectSeq(FlattenSeq(reqs[r]), LAMBDA b : b \in {"Cookie", ";"}))

CookieSize(r) ==
    LET ls == {l \in 2 .. Len(reqs[r]) : reqs[r][l][1] = "Cookie"}
    IN  IF ls = {} THEN 0
        ELSE Len(reqs[r][CHOOSE l \in ls : \A k \in ls : l <= k])

Small(r) ==
    /\ Top(r) = 1 /\ Len(FlattenSeq(reqs[r])) <= HalfPool
    /\ \A l \in DOMAIN reqs[r] : reqs[r][l][1] # " "
    /\ Records(r) * ROUND_TO_ALIGN(RecordSize)
       + ROUND_TO_ALIGN(CookieSize(r)) + ROUND_TO_ALIGN(ReplySize + 1)
       + ROUND_TO_ALIGN(MHD_BUF_INC_SIZE) + ALIGN_SIZE <= HalfPool

-----------------------------------------------------------------------------
(* Properties *)

(* The cells each user of the pool may write or still reads. *)
ReadBlock == con.read_buffer .. con.read_buffer + con.read_buffer_size - 1

WriteBlock == con.write_buffer .. con.write_buffer + con.write_buffer_size - 1

StringAt(a) == IF a = NULL THEN {} ELSE a .. a + strlen(con, a)

Strings ==
    StringAt(con.url) \cup StringAt(con.last) \cup StringAt(con.colon)
    \cup UNION {StringAt(con.headers[i].key) \cup
                StringAt(con.headers[i].value) : i \in DOMAIN con.headers}

(* No request in the stream has an empty line in front of it. *)
PlainStream ==
    \A i \in 1 .. Len(wire) :
       i = 1 \/ EmptyLineEnds(wire, i - 1) => wire[i] \notin {"\r", "\n"}

(* The parts of the pool do not overlap: front and back do not meet, the   *)
(* bytes read lie in the read buffer, and the read buffer, the reply and   *)
(* the strings of the request are apart, whatever has grown, moved or been *)
(* given back in between (memorypool.c, connection.c:1383, 1669, 2593,     *)
(* 2703, 3757). It holds until the connection is closed, and until more    *)
(* than half the pool is kept unread for the next request, which happens   *)
(* only when a request of the stream has an empty line in front of it      *)
(* (connection.c:3343, 3756-3762).                                         *)
BlocksApart ==
    \/ pc = "overrun" /\ ~PlainStream
    \/ con.state = "CLOSED"
    \/ /\ con.pos <= con.end
       /\ con.read_buffer_offset <= con.read_buffer_size
       /\ ReadBlock \subseteq 0 .. con.pos - 1
       /\ WriteBlock \subseteq 0 .. con.pos - 1
       /\ Strings \subseteq 0 .. PoolSize - 1
       /\ ReadBlock \cap WriteBlock = {}
       /\ Strings \cap (ReadBlock \cup WriteBlock) = {}
       /\ \A i \in Strings : con.mem[i] \notin {JUNK, RECORD, REPLY}

(* The read buffer of an open connection holds what the client sent last,  *)
(* in order: no byte of a request in the pipeline is repeated or           *)
(* overwritten when the buffer grows, moves, or is reset for the next      *)
(* request. Nothing is said of what follows a reset that keeps more than   *)
(* half the pool, which takes an empty line in front of a request.         *)
BytesInOrder ==
    \/ pc = "overrun" /\ ~PlainStream
    \/ con.state = "CLOSED"
    \/ \A i \in 0 .. con.read_buffer_offset - 1 :
          con.mem[con.read_buffer + i] = got - con.read_buffer_offset + 1 + i

(* However the stream was split, what the handler is shown of its n-th     *)
(* request is what the client's n-th request says: the URL, every header   *)
(* that is on one line, and every argument. Only when the memory ran out   *)
(* while the arguments were recorded, even for the error, so that the      *)
(* connection was closed and then went on (connection.c:3366), are the     *)
(* last ones missing.                                                      *)
HandlerSeesRequest ==
    \A r \in DOMAIN seen :
       /\ WellFormed(r)
       /\ seen[r].url = UrlSaid(r)
       /\ IF seen[r].shut THEN IsPrefix(seen[r].args, ArgsSaid(r))
                          ELSE seen[r].args = ArgsSaid(r)
       /\ Len(seen[r].fields) = Len(HeaderLines(r))
       /\ \A i \in DOMAIN HeaderLines(r) :
             Continued(r, HeaderLines(r)[i])
             \/ seen[r].fields[i] = FieldSaid(r, HeaderLines(r)[i])

(* A request that is no longer than half the pool, whose records and reply *)
(* fit in the other half, and that has no empty line in front of it, is    *)
(* not refused or dropped for its size, whatever came before it on the     *)
(* connection and however much of the next one has been read along with    *)
(* it.                                                                     *)
SmallIsServed ==
    [][ /\ con.response = "none" /\ con.state # "CLOSED"
        /\ con'.response = "error" \/ con'.state = "CLOSED"
        => LET r == Len(seen) + 1
           IN  ~WellFormed(r) \/ ~Small(r) ]_vars

(* Every request in the stream is answered or the connection is given up:  *)
(* the thread never waits for room, or for bytes it has. Two things need   *)
(* another connection to wake it: bytes behind an empty line in front of a *)
(* request (connection.c:3353), and freeing a connection that was closed   *)
(* for want of room (connection.c:1978-1980, daemon.c:973-975).            *)
AllAnswered ==
    <>(\/ pc \in {"gone", "overrun"}
       \/ pc = "wait" /\ con.state = "CLOSED"
       \/ /\ pc = "wait" /\ con.state = "INIT" /\ got = Len(wire)
          /\ con.read_buffer_offset = 0 \/ skipped)
=============================================================================
