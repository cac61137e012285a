------------------------------- MODULE Parser -------------------------------
(***************************************************************************)
(* The wire format (src/assign4/fs/msg.go, and reply in server_main.go):   *)
(* how a message is taken off a connection and how a reply is put on one.  *)
(*                                                                         *)
(* A connection is a sequence of chunks, cut at each CRLF: lines, contents *)
(* or parts of contents. A chunk has the fields it has when it is taken    *)
(* for a line, and the size (without CRLF) it has when it is taken for     *)
(* contents: the parser cannot tell which of the two it was meant to be. A *)
(* field after the first is a number or a Word.                            *)
(***************************************************************************)
EXTENDS Integers, Sequences

CONSTANTS Word,              \* a field that is not a number
          MAX_CONTENT_SIZE

ASSUME SizeAssumption == MAX_CONTENT_SIZE \in Nat /\ Word \notin Int

-----------------------------------------------------------------------------
(* Slips: what single definitions below could say by mistake. Each is put in *)
(* the place of its definition to see that the properties notice.            *)

SlipRequestHasContents(m) == m.kind \in {"w", "c"}

SlipGoodHasContents(m) == m.err = "none" /\ m.kind \in {"w", "c", "C"}

-----------------------------------------------------------------------------

\* For each first field: the least number of fields checkN asks for, the fields
\* of version, numbytes and exptime (0 for none), the kind of the message, and
\* whether it is a response, which has no file name.
Form ==
  [read     |-> [min |-> 2, version |-> 0, numbytes |-> 0, exptime |-> 0,
                 kind |-> "r", response |-> FALSE],
   write    |-> [min |-> 3, version |-> 0, numbytes |-> 2, exptime |-> 3,
                 kind |-> "w", response |-> FALSE],
   cas      |-> [min |-> 4, version |-> 2, numbytes |-> 3, exptime |-> 4,
                 kind |-> "c", response |-> FALSE],
   delete   |-> [min |-> 1, version |-> 0, numbytes |-> 0, exptime |-> 0,
                 kind |-> "d", response |-> FALSE],
   CONTENTS |-> [min |-> 4, version |-> 1, numbytes |-> 2, exptime |-> 3,
                 kind |-> "C", response |-> TRUE],
   OK       |-> [min |-> 1, version |-> 1, numbytes |-> 0, exptime |-> 0,
                 kind |-> "O", response |-> TRUE],
   ERR_VERSION |-> [min |-> 2, version |-> 1, numbytes |-> 0, exptime |-> 0,
                    kind |-> "V", response |-> TRUE],
   ERR_FILE_NOT_FOUND |->
                [min |-> 1, version |-> 0, numbytes |-> 0, exptime |-> 0,
                 kind |-> "F", response |-> TRUE],
   ERR_CMD_ERR |-> [min |-> 1, version |-> 0, numbytes |-> 0, exptime |-> 0,
                    kind |-> "M", response |-> TRUE],
   ERR_INTERNAL |-> [min |-> 1, version |-> 0, numbytes |-> 0, exptime |-> 0,
                     kind |-> "I", response |-> TRUE]]

\* Whether toInt is called for field p of a line: the expiry time of a cas is
\* looked at only if it is the last field.
Present(args, p, word) ==
  p > 0 /\ p <= Len(args) /\ (word = "cas" /\ p = 4 => Len(args) = 4)

toInt(args, p, word) ==
  IF Present(args, p, word) /\ args[p] # Word THEN args[p] ELSE 0

\* Some field of these places should be a number and is not.
NotANumber(args, places, word) ==
  \E p \in places : Present(args, p, word) /\ args[p] = Word

\* A request whose second field, the file's name, is looked at and is not there.
NoName(f, args) == ~f.response /\ args = <<>>

Failed(err) == [err |-> err]

\* The message in a line, and whether it is "none", an error of the message
\* only ("msg"), an error that loses the place in the stream ("fatal"), or an
\* index beyond the fields ("panic").
parseFirst(line) ==
  LET args == line.args
      f == Form[line.word]
  IN CASE line.word = "" -> Failed("panic")
       [] line.word # "" /\ line.word \notin DOMAIN Form -> Failed("fatal")
       [] line.word \in DOMAIN Form /\
            (Len(args) + 1 < f.min \/ NotANumber(args, {f.numbytes}, line.word)) ->
          Failed("fatal")
       [] OTHER ->
          IF NoName(f, args) THEN Failed("panic")
          ELSE [kind |-> f.kind,
                version |-> toInt(args, f.version, line.word),
                numbytes |-> toInt(args, f.numbytes, line.word),
                exptime |-> toInt(args, f.exptime, line.word),
                err |-> IF NotANumber(args, {f.version, f.exptime}, line.word)
                          THEN "msg" ELSE "none"]

\* How many bytes the first k chunks of a stream have, with their CRLFs.
Bytes(stream) ==
  LET upto[k \in 0..Len(stream)] ==
        IF k = 0 THEN 0 ELSE upto[k - 1] + stream[k].size + 2
  IN upto

\* Taking numbytes bytes and CRLF off a stream, whatever lines they are of: the
\* error, and what is left if there is none. It is "fatal" if the last two bytes
\* are not CRLF, "short" if there are not so many bytes (then it waits), and
\* "panic" if the number is below what make, or the index of the last byte, takes.
parseSecond(stream, numbytes) ==
  LET upto == Bytes(stream)
      ends == {k \in 1..Len(stream) : upto[k] = numbytes + 2}
      err == CASE numbytes > MAX_CONTENT_SIZE -> "fatal"
               [] numbytes < -1 -> "panic"
               [] numbytes \in -1..MAX_CONTENT_SIZE /\ upto[Len(stream)] < numbytes + 2 -> "short"
               [] OTHER -> IF numbytes = -1 THEN "panic"
                           ELSE IF ends = {} THEN "fatal" ELSE "none"
  IN [err |-> err,
      rest |-> IF err # "none" THEN stream
               ELSE SubSeq(stream, (CHOOSE k \in ends : TRUE) + 1, Len(stream))]

\* After an error of the message its contents are read all the same.
HasContents(m) == m.kind \in {"w", "c", "C"}

\* The next message of a stream that is not empty, the error, and what is left.
\* A line that is too long or ends in CR alone is an unknown word here.
GetMsg(stream) ==
  LET m == parseFirst(Head(stream))
      more == Tail(stream)
  IN IF m.err \notin {"none", "msg"} \/ ~HasContents(m)
       THEN [msg |-> m, err |-> m.err, rest |-> more]
       ELSE LET second == parseSecond(more, m.numbytes)
            IN [msg |-> m,
                err |-> IF second.err = "none" THEN m.err ELSE second.err,
                rest |-> second.rest]

-----------------------------------------------------------------------------
(* Replies *)

\* Bytes that end in the only CRLF of theirs.
Chunk(word, args, size) == [word |-> word, args |-> args, size |-> size]

\* What reply writes for a message.
Wire(m) ==
  CASE m.kind = "C" -> << Chunk("CONTENTS", <<m.version, m.numbytes, m.exptime>>, 0),
                          Chunk("", <<>>, m.numbytes) >>
    [] m.kind = "O" ->
         << Chunk("OK", IF m.version > 0 THEN <<m.version>> ELSE <<>>, 0) >>
    [] m.kind = "F" -> << Chunk("ERR_FILE_NOT_FOUND", <<>>, 0) >>
    [] m.kind = "V" -> << Chunk("ERR_VERSION", <<m.version>>, 0) >>
    [] m.kind = "M" -> << Chunk("ERR_CMD_ERR", <<>>, 0) >>
    [] m.kind = "I" -> << Chunk("ERR_INTERNAL", <<>>, 0) >>
    [] m.kind = "R" -> << Chunk("ERR_REDIRECT", <<Word>>, 0) >>
=============================================================================
