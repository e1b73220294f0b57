------------------------------- MODULE Hstcpcli -------------------------------
(***************************************************************************)
(* struct hstcpcli of libhsclient/hstcpcli.cpp, the HandlerSocket client   *)
(* that every worker thread owns two of.  A client is a record of the C++  *)
(* fields that steer its control flow; every method is an operator from a  *)
(* client to the client it leaves behind.                                  *)
(*                                                                         *)
(* readbuf and writebuf are byte strings in the code and sequences of      *)
(* whole lines here: the wire format ends each request and response with a *)
(* newline and escapes the newlines inside values (libhsclient/escape.cpp) *)
(* so that a line is the unit the code searches for and erases.  Offsets   *)
(* into readbuf are counted in the same unit: response_end_offset is 0 or  *)
(* 1, and cur_row_offset is 0 at the start of the line, 1 after the two    *)
(* header fields and 1 + k after k rows.                                   *)
(*                                                                         *)
(* A response is a record with fields code, num_flds and rows; a request   *)
(* is any value.                                                           *)
(***************************************************************************)
EXTENDS Integers, Sequences

(* What fd.get() designates: nothing (-1), a socket that connect() failed  *)
(* on, or a connection.                                                    *)
Fds == {"none", "unconnected", "connected"}

(* The fields of hstcpcli, as its constructor and close() leave them. *)
NoConnection ==
    [fd |-> "none", readbuf |-> << >>, writebuf |-> << >>,
     response_end_offset |-> 0, cur_row_offset |-> 0, num_flds |-> 0,
     num_req_bufd |-> 0, num_req_sent |-> 0, num_req_rcvd |-> 0,
     error_code |-> 0]

set_error(c, code) == [c EXCEPT !.error_code = code]

clear_error(c) == set_error(c, 0)

(* Mutant: close() forgets the bytes that were received and not removed. *)
close_KeepsReadbuf(c) ==
    [NoConnection EXCEPT !.error_code = c.error_code, !.readbuf = c.readbuf]

(* close() resets every field but the error. *)
close(c) == [NoConnection EXCEPT !.error_code = c.error_code]

(* The three ways socket_connect can leave fd: socket() failed, connect()  *)
(* failed and left the socket in fd, or connected.                         *)
socket_connect(c, outcome) == [c EXCEPT !.fd = outcome]

Connected(c, outcome) ==
    LET d == socket_connect(c, outcome)
    IN  IF outcome = "connected" THEN d ELSE set_error(d, -1)

hstcpcli(outcome) == Connected(NoConnection, outcome)

(* Mutant: the old connection's buffers survive. *)
reconnect_SkipsClose(c, outcome) == Connected(clear_error(c), outcome)

reconnect(c, outcome) == Connected(close(clear_error(c)), outcome)

stable_point(c) ==
    /\ c.fd # "none"
    /\ c.num_req_bufd = 0
    /\ c.num_req_sent = 0
    /\ c.num_req_rcvd = 0
    /\ c.response_end_offset = 0

OutOfSync(c) == set_error(close(c), -1)

(* The error is not looked at: a dead client goes on buffering. *)
request_buf_exec_generic(c, r) ==
    IF c.num_req_sent > 0 \/ c.num_req_rcvd > 0
    THEN OutOfSync(c)
    ELSE [c EXCEPT !.writebuf = Append(@, r), !.num_req_bufd = @ + 1]

request_buf_open_index(c, r) == request_buf_exec_generic(c, r)

request_buf_auth(c, r) == request_buf_exec_generic(c, r)

(* wrote: send() took every byte.  A short or failed send closes. *)
request_send(c, wrote) ==
    IF c.error_code < 0
    THEN c
    ELSE IF \/ c.fd = "none"
            \/ c.num_req_bufd = 0
            \/ c.num_req_sent > 0
            \/ c.num_req_rcvd > 0
            \/ ~wrote
    THEN OutOfSync(c)
    ELSE [clear_error(c) EXCEPT !.writebuf = << >>,
                                !.num_req_sent = c.num_req_bufd,
                                !.num_req_bufd = 0]

(* The client would go on to read from the socket. *)
CanReceive(c) ==
    /\ c.error_code >= 0
    /\ c.num_req_bufd = 0
    /\ c.num_req_sent > 0
    /\ c.num_req_rcvd = 0
    /\ c.response_end_offset = 0
    /\ c.fd # "none"

(* The first line of the read buffer becomes the current response.  An     *)
(* error response returns before cur_row_offset is moved off 0.            *)
TakeResponse(c) ==
    LET resp == Head(c.readbuf)
    IN  [c EXCEPT !.response_end_offset = 1,
                  !.num_req_sent = @ - 1,
                  !.num_req_rcvd = @ + 1,
                  !.num_flds = resp.num_flds,
                  !.cur_row_offset = IF resp.code = 0 THEN 1 ELSE 0,
                  !.error_code = resp.code]

(***************************************************************************)
(* arrived: the lines that read_more() adds to readbuf, empty when a line  *)
(* was buffered already or when read() reports an error, end of file or    *)
(* the receive timeout, which the code does not tell apart.                *)
(***************************************************************************)
response_recv(c, arrived) ==
    IF c.error_code < 0
    THEN c
    ELSE IF ~CanReceive(c)
    THEN OutOfSync(c)
    ELSE IF c.readbuf \o arrived = << >>
    THEN OutOfSync(c)
    ELSE TakeResponse([clear_error(c) EXCEPT !.readbuf = @ \o arrived])

(* get_next_row returns a row and not the null pointer. *)
HasRow(c) ==
    /\ c.num_flds > 0
    /\ c.cur_row_offset <= Len(Head(c.readbuf).rows)

(* The client after a get_next_row that returned a row. *)
get_next_row(c) ==
    IF HasRow(c) THEN [c EXCEPT !.cur_row_offset = @ + 1] ELSE c

(* Mutant: the erased response stays counted as received. *)
response_buf_remove_StillReceived(c) ==
    IF c.response_end_offset = 0
    THEN OutOfSync(c)
    ELSE [c EXCEPT !.readbuf = Tail(@), !.response_end_offset = 0,
                   !.cur_row_offset = 0, !.num_flds = 0]

(* Mutant: the bytes of the response stay in the buffer. *)
response_buf_remove_KeepsLine(c) ==
    IF c.response_end_offset = 0
    THEN OutOfSync(c)
    ELSE [c EXCEPT !.response_end_offset = 0, !.num_req_rcvd = @ - 1,
                   !.cur_row_offset = 0, !.num_flds = 0]

response_buf_remove(c) ==
    IF c.response_end_offset = 0
    THEN OutOfSync(c)
    ELSE [c EXCEPT !.readbuf = Tail(@), !.response_end_offset = 0,
                   !.num_req_rcvd = @ - 1, !.cur_row_offset = 0,
                   !.num_flds = 0]
=============================================================================
