------------------------------ MODULE RpcFrame ------------------------------
(***************************************************************************)
(* How a remote reads and writes the frames of the RPC protocol:            *)
(* p11_rpc_transport_read and p11_rpc_transport_write of rpc-transport.c,   *)
(* called from the loop of p11_kit_remote_serve_module.  A frame is a       *)
(* header (a call code and two lengths), options and data; read and write   *)
(* may move any part of it, or nothing, and are called again with the state *)
(* they left.                                                               *)
(*                                                                         *)
(* The header's three words are three units here; options and data have one *)
(* unit per byte.  A unit carries where it came from, so that a misplaced   *)
(* one shows.                                                               *)
(***************************************************************************)
EXTENDS Naturals, Sequences

CONSTANTS
    Frames,     \* the frames a peer may send, records of code, options and data
    MaxFrames   \* bound on their number

VARIABLES
    sent,       \* what the peer has sent, frame by frame
    inbound,    \* the units that have not been read
    outbound,   \* the units that have been written
    open,       \* does the peer still send?
    serve,      \* "read", "write" or how the loop ended
    state,      \* the state of the read or write under way
    code, options, buffer,      \* what was read
    handled     \* the frames p11_rpc_server_handle was given

ConstantsOK == Frames \subseteq [code : Nat, options : Seq(Nat), data : Seq(Nat)]

vars == <<sent, inbound, outbound, open, serve, state, code, options, buffer,
          handled>>

HEADER == 3

\* A p11_buffer: the room it has, what is in it, and its len.
NoBuffer == [data |-> <<>>, len |-> 0]

\* p11_buffer_reset: what is there stays, even when the room grows.
Room(b, n) ==
    [data |-> [k \in 1 .. IF n < Len(b.data) THEN Len(b.data) ELSE n |->
                  IF k <= Len(b.data) THEN b.data[k] ELSE 0],
     len |-> 0]
Sized(b, n) == [Room(b, n) EXCEPT !.len = n]
Contents(b) == SubSeq(b.data, 1, b.len)

Header(c, o, d) == <<c, o, d>>
Encoded(f) == Header(f.code, Len(f.options), Len(f.data)) \o f.options \o f.data

Init ==
    /\ sent = <<>> /\ inbound = <<>> /\ outbound = <<>> /\ handled = <<>>
    /\ open = TRUE
    /\ serve = "read" /\ state = 0 /\ code = 0
    /\ options = NoBuffer /\ buffer = NoBuffer

\* The peer sends a frame (rpc_socket_write_inlock, write_all), or stops: what it
\* sent last may be cut short.
Send ==
    /\ open /\ Len(sent) < MaxFrames
    /\ \E f \in Frames :
          /\ sent' = Append(sent, f)
          /\ inbound' = inbound \o Encoded(f)
    /\ UNCHANGED <<outbound, open, serve, state, code, options, buffer, handled>>
Stop ==
    /\ open
    /\ open' = FALSE
    /\ \E kept \in 0 .. Len(inbound) : inbound' = SubSeq(inbound, 1, kept)
    /\ UNCHANGED <<sent, outbound, serve, state, code, options, buffer, handled>>
-----------------------------------------------------------------------------
\* read_at: a block of len units that begins at offset; num units are read into
\* it, or none: nothing has come yet, or the end of the stream.
FirstMissing(offset, at) == at - offset
FilledMutant(b, offset, at, num) ==
    [b EXCEPT !.data = [k \in DOMAIN b.data |->
        IF k \in 1 .. num THEN inbound[k] ELSE b.data[k]]]
Filled(b, offset, at, num) ==
    [b EXCEPT !.data = [k \in DOMAIN b.data |->
        LET from == FirstMissing(offset, at)
        IN  IF k \in from + 1 .. from + num THEN inbound[k - from] ELSE b.data[k]]]
\* The block is there, or num units of it can be read.
Whole(len, offset, at) == at >= offset + len
Partial(len, offset, at) ==
    {num \in 1 .. (offset + len - at) : num <= Len(inbound)}

\* The end of the stream is an error except in the first block.
EndOfFile(offset) == IF offset = 0 THEN "eof" ELSE "error"
Ended(offset) ==
    /\ ~open /\ inbound = <<>>
    /\ serve' = EndOfFile(offset)
    /\ UNCHANGED <<sent, inbound, outbound, open, state, code, options, buffer,
                   handled>>

Took(num) ==
    /\ inbound' = SubSeq(inbound, num + 1, Len(inbound))
    /\ state' = state + num

\* The header goes into buffer; when it is whole, options and buffer get room.
ReadHeader ==
    /\ serve = "read" /\ state < HEADER
    /\ \/ Ended(0)
       \/ \E num \in Partial(HEADER, 0, state) :
             LET header == Filled(Room(buffer, HEADER), 0, state, num)
                 whole == state + num = HEADER
             IN  /\ Took(num)
                 /\ buffer' = IF whole THEN Sized(header, header.data[3]) ELSE header
                 /\ options' = IF whole THEN Sized(options, header.data[2]) ELSE options
                 /\ code' = IF whole THEN header.data[1] ELSE code
                 /\ UNCHANGED <<sent, outbound, open, serve, handled>>

ReadOptions ==
    /\ serve = "read" /\ state >= HEADER /\ ~Whole(options.len, HEADER, state)
    /\ \/ Ended(HEADER)
       \/ \E num \in Partial(options.len, HEADER, state) :
             /\ options' = Filled(options, HEADER, state, num)
             /\ Took(num)
             /\ UNCHANGED <<sent, outbound, open, serve, code, buffer, handled>>

DataAt == HEADER + options.len
ReadData ==
    /\ serve = "read" /\ state >= HEADER
    /\ Whole(options.len, HEADER, state) /\ ~Whole(buffer.len, DataAt, state)
    /\ \/ Ended(DataAt)
       \/ \E num \in Partial(buffer.len, DataAt, state) :
             /\ buffer' = Filled(buffer, DataAt, state, num)
             /\ Took(num)
             /\ UNCHANGED <<sent, outbound, open, serve, code, options, handled>>

\* The message is whole: p11_rpc_server_handle turns the buffer into the response
\* (here: the same data), and the loop goes on to write it without options.
Respond ==
    /\ serve = "read" /\ state >= HEADER
    /\ Whole(options.len, HEADER, state) /\ Whole(buffer.len, DataAt, state)
    /\ handled' = Append(handled, [code |-> code, options |-> Contents(options),
                                   data |-> Contents(buffer)])
    /\ serve' = "write"
    /\ state' = 0
    /\ options' = [options EXCEPT !.len = 0]
    /\ UNCHANGED <<sent, inbound, outbound, open, code, buffer>>
-----------------------------------------------------------------------------
\* p11_rpc_transport_write and write_at: the header is made again as long as it
\* has not been written whole.
Outgoing == Header(code, options.len, buffer.len) \o Contents(options) \o Contents(buffer)
Block(at) ==
    CASE at < HEADER -> HEADER
      [] at >= HEADER /\ at < DataAt -> DataAt
      [] OTHER -> DataAt + buffer.len
Write ==
    /\ serve = "write" /\ state < DataAt + buffer.len
    /\ \E num \in 1 .. Block(state) - state :
          /\ outbound' = outbound \o SubSeq(Outgoing, state + 1, state + num)
          /\ state' = state + num
    /\ UNCHANGED <<sent, inbound, open, serve, code, options, buffer, handled>>

\* All done: the loop starts over, with state and code 0.
Written ==
    /\ serve = "write" /\ state = DataAt + buffer.len
    /\ serve' = "read" /\ state' = 0 /\ code' = 0
    /\ UNCHANGED <<sent, inbound, outbound, open, options, buffer, handled>>

Done == serve \in {"eof", "error"} /\ UNCHANGED vars

Next ==
    \/ Send \/ Stop \/ ReadHeader \/ ReadOptions \/ ReadData \/ Respond
    \/ Write \/ Written \/ Done

Spec == Init /\ [][Next]_vars
-----------------------------------------------------------------------------
Responses(frames) ==
    LET all[n \in 0 .. Len(frames)] ==
            IF n = 0 THEN <<>>
            ELSE all[n - 1] \o Encoded([frames[n] EXCEPT !.options = <<>>])
    IN  all[Len(frames)]

\* However the stream is cut up, and whatever was in the buffers before, the
\* remote handles the frames that were sent, whole and in order, and what it writes
\* is one response per frame, with the frame's code.
FramesIntact ==
    /\ handled = SubSeq(sent, 1, Len(handled))
    /\ LET done == Len(outbound)
           all == Responses(handled)
       IN  done <= Len(all) /\ outbound = SubSeq(all, 1, done)
    /\ serve = "read" => outbound = Responses(handled)
=============================================================================
