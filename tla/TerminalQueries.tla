-------------------------- MODULE TerminalQueries ---------------------------
(* The terminal's answers to the queries in an agent's output.  The output   *)
(* comes in reads that may cut a query anywhere, and what could be the       *)
(* beginning of one is carried over to the next read.  A symbol stands for   *)
(* the bytes that are always read the same way: "[" for "[6", "]" for "]1",  *)
(* "f" and "b" for the "0;" and "1;" of the two colours.                     *)
EXTENDS Naturals, Sequences

CONSTANTS MaxCarry,    \* no query is longer
          MaxRead      \* symbols in one read

VARIABLE carry         \* what answerQueries returned for the reads so far

ESC == "ESC"
BEL == "BEL"
ST == "\\"
Symbols == {ESC, BEL, ST, "[", "n", "]", "f", "b", "?"}

DSR == <<ESC, "[", "n">>
FG == <<ESC, "]", "f">>
BG == <<ESC, "]", "b">>

HasPrefix(b, prefix) == Len(prefix) <= Len(b) /\ SubSeq(b, 1, Len(prefix)) = prefix
EndsIn(s, x) == s # <<>> /\ s[Len(s)] = x

TypeOK ==
  /\ carry \in Seq(Symbols) /\ Len(carry) <= MaxCarry
  /\ HasPrefix(carry, <<ESC>>) \/ carry = <<>>

Init == carry = <<>>

----------------------------------------------------------------------------
(* What a slice that starts at ESC is: "partial", nothing that is answered   *)
(* (its length is 1: the ESC is skipped), or a query of some length.         *)
Partial == [kind |-> "partial", reply |-> <<>>, length |-> 0]
Other == [kind |-> "other", reply |-> <<>>, length |-> 1]
Query(prefix, n) == [kind |-> "query", reply |-> prefix, length |-> n]

(* Mutant: an ESC at the end of a body is taken for the terminator ST.       *)
AnyEscape(body) ==
  {i \in 1 .. Len(body) : body[i] \in {BEL, ESC}}

(* oscEnd: the places where the body of a colour query may end.              *)
Ends(body) ==
  {i \in 1 .. Len(body) : body[i] = BEL \/ (body[i] = ESC /\ i < Len(body))}

(* The first ESC of a body without BEL before it that is its last symbol may *)
(* still become ST, and a body without an end may still get one, unless it   *)
(* is too long.                                                              *)
MayGoOn(body) ==
  /\ Ends(body) = {}
  /\ Len(body) <= MaxCarry + (IF EndsIn(body, ESC) THEN 2 ELSE 1)

OscQuery(b, prefix) ==
  LET body == SubSeq(b, Len(prefix) + 1, Len(b))
  IN CASE MayGoOn(body) -> Partial
       [] HasPrefix(body, <<"?", BEL>>) -> Query(prefix, Len(prefix) + 2)
       [] HasPrefix(body, <<"?", ESC, ST>>) -> Query(prefix, Len(prefix) + 3)
       [] OTHER -> Other

ProperPrefix(b, prefix) == Len(b) < Len(prefix) /\ HasPrefix(prefix, b)

(* matchQuery: at most one of the prefixes is whole, and only the ones tried *)
(* before it can be partial.                                                 *)
MatchQuery(b) ==
  CASE \E q \in {DSR, BG, FG} : ProperPrefix(b, q) -> Partial
    [] HasPrefix(b, DSR) -> Query(DSR, Len(DSR))
    [] HasPrefix(b, BG) -> OscQuery(b, BG)
    [] HasPrefix(b, FG) -> OscQuery(b, FG)
    [] OTHER -> Other

(* Mutant: a partial query is dropped.                                       *)
NothingCarried(rest) == FALSE

(* A slice that may become a query is kept, unless it is longer than any.    *)
Carried(rest) == Len(rest) <= MaxCarry

(* The loop of answerQueries at the i-th symbol of a chunk.  next is where   *)
(* the chunk goes on: after the query that was answered, and nowhere once    *)
(* the rest is carried over.                                                 *)
Scanned(chunk, i, s) ==
  LET rest == SubSeq(chunk, i, Len(chunk))
      m == MatchQuery(rest)
  IN IF i < s.next \/ chunk[i] # ESC THEN s
     ELSE CASE m.kind = "partial" /\ Carried(rest) ->
                 [s EXCEPT !.carry = rest, !.next = Len(chunk) + 1]
            [] m.kind = "query" ->
                 [s EXCEPT !.next = i + m.length, !.replies = Append(@, m.reply)]
            [] OTHER -> s

(* answerQueries on a whole chunk.                                           *)
AnswerQueries(chunk, answered) ==
  LET scan[i \in 0 .. Len(chunk)] ==
        IF i = 0 THEN [next |-> 1, carry |-> <<>>, replies |-> answered]
        ELSE Scanned(chunk, i, scan[i - 1])
      last == scan[Len(chunk)]
  IN [carry |-> last.carry, replies |-> last.replies]

(* The pump reads some bytes and answers what is whole.                      *)
Reads == UNION {[1 .. n -> Symbols] : n \in 1 .. MaxRead}

Read == \E chunk \in Reads : carry' = AnswerQueries(carry \o chunk, <<>>).carry

Next == Read
Spec == Init /\ [][Next]_carry

----------------------------------------------------------------------------
(* What is answered, and what is carried over, when a chunk comes in two     *)
(* reads, the first of them of n symbols.                                    *)
InTwoReads(chunk, n) ==
  LET first == AnswerQueries(carry \o SubSeq(chunk, 1, n), <<>>)
  IN AnswerQueries(first.carry \o SubSeq(chunk, n + 1, Len(chunk)), first.replies)

(* However the output is cut into reads, the same queries are answered.      *)
CutsDoNotMatter ==
  \A chunk \in Reads : \A n \in 1 .. Len(chunk) - 1 :
    InTwoReads(chunk, n) = AnswerQueries(carry \o chunk, <<>>)

(* A query is answered whatever came before it and wherever it is cut, and   *)
(* leaves nothing behind: the agent never waits for an answer.               *)
ColourQuery(q, end) == [text |-> q \o <<"?">> \o end, reply |-> q]

FullQueries ==
  {[text |-> DSR, reply |-> DSR]}
  \cup {ColourQuery(q, end) : q \in {FG, BG}, end \in {<<BEL>>, <<ESC, ST>>}}

QueriesAnswered ==
  \A q \in FullQueries : \A n \in 0 .. Len(q.text) - 1 :
    LET after == InTwoReads(q.text, n)
    IN after.carry = <<>> /\ EndsIn(after.replies, q.reply)

TerminalAnswers == CutsDoNotMatter /\ QueriesAnswered
=============================================================================
