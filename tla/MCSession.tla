----------------------------- MODULE MCSession ------------------------------
(* A small instance of Session. *)
EXTENDS Session, TLC

\* A line has nine bytes, and contents two, unless said otherwise.
Plain(word, args) == [line |-> Chunk(word, args, 9), contents |-> <<>>]

Given(word, args, contents) ==
  [line |-> Chunk(word, args, 9), contents |-> contents]

\* Contents that read like a command.
Two == <<Chunk("delete", <<Word>>, 2)>>

Full(word, args) == Given(word, args, Two)

\* Each command as msg.go describes it, with contents of one line, of none and of
\* two.
RightCommand ==
  {Plain("read", <<Word>>), Plain("delete", <<Word>>),
   Full("write", <<Word, 2>>), Full("cas", <<Word, 1, 2, 7>>),
   Given("write", <<Word, 0, 7>>, <<Chunk("", <<>>, 0)>>),
   Given("cas", <<Word, 1, 6>>, Two \o Two)}

\* The mistakes it names, and responses sent as commands.
WrongCommand ==
  {Plain("stat", <<Word>>), Plain("delete", <<>>),
   Full("write", <<Word, Word>>), Full("write", <<Word, 2, Word>>),
   Full("cas", <<Word, Word, 2>>), Full("cas", <<Word, 2>>),
   Given("write", <<Word, 14>>, <<Chunk("stat", <<>>, 14)>>),
   Plain("OK", <<1>>), Full("CONTENTS", <<1, 2, Word>>)}

\* Lines that announce the contents and the next line, other lengths, only the
\* first line of the contents, and less than nothing.
LyingCommand ==
  {Full("write", <<Word, 13>>), Full("write", <<Word, 3>>),
   Given("cas", <<Word, 1, 2>>, Two \o Two), Full("write", <<Word, -1>>)}

MCCommand == RightCommand \cup WrongCommand \cup LyingCommand

MCVersion == {1, 2}
MCSize == {0, 2}
=============================================================================
