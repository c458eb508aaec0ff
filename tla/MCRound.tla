------------------------------- MODULE MCRound -------------------------------
(***************************************************************************)
(* An instance of Round for TLC: configurations that differ from one in a  *)
(* value or two.                                                           *)
(***************************************************************************)
EXTENDS Round

MCSender == [tx1 |-> "alice", tx2 |-> "bob"]

\* The created events of two factories, one that is too short, and a log of
\* another kind.
Log(b, tx, a, ts) == [block |-> b, tx |-> tx, address |-> a, topics |-> ts,
                      decodable |-> TRUE]

MCLogs == <<Log(1, "tx1", "f1", <<"created", "x", "y">>),
            Log(2, "tx2", "f3", <<"created", "x", "y">>),
            Log(3, "tx1", "f1", <<"created", "x">>),
            Log(4, "tx2", "f2", <<"other", "x">>),
            Log(4, "tx1", "f1", <<"created", "z", "y">>)>>

Decoder(f, name) == [type |-> "b20_created", enabled |-> TRUE, factory |-> f,
                     topic0 |-> "created", eventName |-> name]
BlacklistFilter(on) == [type |-> "b20_creator_blacklist", enabled |-> on]

Spec1 == [addresses |-> <<"f1", "f2", "f3">>, topics |-> <<{"created"}>>]
Spec2 == [addresses |-> <<>>, topics |-> <<{"created", "other"}, {"x"}>>]

Base == [name |-> "b20", startBlock |-> 1, confirmations |-> 1, chunkSize |-> 2,
         specs |-> <<Spec1, Spec2>>, max |-> 2, allowEmpty |-> FALSE,
         decoders |-> <<Decoder("f1", ""), Decoder("f3", "b20_created_v2")>>,
         filters |-> <<BlacklistFilter(TRUE)>>,
         failOnUnmatched |-> FALSE, ignoreDecodeError |-> TRUE]

\* Configurations the program runs with.
Running ==
    {Base,
     [Base EXCEPT !.specs = <<Spec1>>, !.failOnUnmatched = TRUE, !.ignoreDecodeError = FALSE],
     [Base EXCEPT !.chunkSize = 0, !.confirmations = 0, !.max = 0, !.specs = <<Spec1>>],
     [Base EXCEPT !.specs = <<>>, !.allowEmpty = TRUE, !.chunkSize = 1],
     [Base EXCEPT !.specs = <<[Spec2 EXCEPT !.topics = <<{}>>]>>],
     [Base EXCEPT !.filters = <<BlacklistFilter(FALSE)>>, !.specs = <<Spec1>>],
     [Base EXCEPT !.decoders[2].enabled = FALSE, !.failOnUnmatched = TRUE],
     [Base EXCEPT !.chunkSize = 14, !.startBlock = 3, !.specs = <<Spec1>>]}

\* Configurations it refuses.
Refusals ==
    {[Base EXCEPT !.specs = <<>>],
     [Base EXCEPT !.specs = <<[Spec1 EXCEPT !.topics = <<>>]>>],
     [Base EXCEPT !.decoders[2] = Decoder("f1", "again")],
     [Base EXCEPT !.decoders[2].factory = Zero],
     [Base EXCEPT !.decoders[1].topic0 = None],
     [Base EXCEPT !.decoders[1].type = "b20_destroyed"],
     [Base EXCEPT !.filters[1].type = ""],
     [Base EXCEPT !.decoders = <<>>]}

MCConfigs == Running \cup Refusals
=============================================================================
