---------------------------- MODULE MCFrontDoor ----------------------------
(* A vocabulary with one word of each kind; the users are interchangeable. *)
EXTENDS FrontDoor, TLC

CONSTANTS u1, u2

Bare == [keyword |-> None, hijack |-> FALSE, known |-> None, ticker |-> None,
         symbol |-> "-", event |-> None, number |-> None, suffix |-> "", initial |-> ""]

MCLexicon ==
  [track    |-> [Bare EXCEPT !.keyword = "track", !.ticker = "TRACK", !.symbol = "TRACK"],
   stop     |-> [Bare EXCEPT !.keyword = "stop", !.ticker = "STOP", !.symbol = "STOP"],
   tracking |-> [Bare EXCEPT !.ticker = "ACKING", !.symbol = "TRACKING"],
   status   |-> [Bare EXCEPT !.keyword = "status", !.ticker = "STATUS", !.symbol = "STATUS"],
   mETH     |-> [Bare EXCEPT !.known = "METH", !.ticker = "METH", !.symbol = "METH",
                             !.initial = "m"],
   foo      |-> [Bare EXCEPT !.ticker = "FOO", !.symbol = "FOO"],
   system   |-> [Bare EXCEPT !.hijack = TRUE, !.ticker = "SYSTEM"],      \* <system>
   tenk     |-> [Bare EXCEPT !.number = 10, !.suffix = "k", !.symbol = "10K"],
   fifty    |-> [Bare EXCEPT !.number = 50, !.symbol = "50"],
   buys     |-> [Bare EXCEPT !.event = "buy", !.ticker = "BUYS", !.symbol = "BUYS",
                             !.initial = "b"]]

MCMultiplier ==
  [u \in Units |-> CASE u = "" -> 1 [] u = "k" -> 10 [] u = "m" -> 100 [] u = "b" -> 1000]
MCKnown  == <<"METH">>
MCTrack  == <<"track">>
MCStop   == <<"stop", "tracking">>
Symmetry == Permutations(Users)

\* What the theorem about SlashAgreesWithText asks of a vocabulary.
ASSUME VocabularyIsPlain == PlainArguments
=============================================================================
