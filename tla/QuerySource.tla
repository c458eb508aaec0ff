----------------------------- MODULE QuerySource -----------------------------
(***************************************************************************)
(* The filter queries of a monitor (src/chains/evm/source.go): which       *)
(* configurations NewQuerySourceFromConfig takes, and the queries that     *)
(* BuildQueries makes of one for a chunk.                                  *)
(*                                                                         *)
(* A configuration is a record of a name, specs, max                       *)
(* (max_addresses_per_query) and allowEmpty (allow_empty_filter).  A spec  *)
(* is a record of addresses, a sequence, and topics, a sequence of sets:   *)
(* the values each position may have, the empty set for any.  Addresses    *)
(* and topics are values; that their texts parse is not modelled.          *)
(***************************************************************************)
EXTENDS Integers, SequencesExt

CONSTANT DefaultMaxAddresses    \* max_addresses_per_query when it is not set

ASSUME MaxAddressesAssumption == DefaultMaxAddresses \in Nat \ {0}

\* A spec has a topic matrix of one to four rows, even if they are all empty,
\* and so is never an empty spec; no specs at all is a configuration that asks
\* for every log, and has to be allowed.
SourceAccepted(cfg) ==
    /\ cfg.name # ""
    /\ \A spec \in ToSet(cfg.specs) : Len(spec.topics) \in 1..4
    /\ cfg.specs # <<>> \/ cfg.allowEmpty

MaxAddresses(cfg) == IF cfg.max <= 0 THEN DefaultMaxAddresses ELSE cfg.max

\* A list of addresses in pieces of size, the last one what is left.
SplitAddressesX(addresses, size) ==
    [i \in 1..(Len(addresses) \div size) |->
        SubSeq(addresses, (i - 1) * size + 1, i * size)]
SplitAddresses(addresses, size) ==
    [i \in 1..((Len(addresses) + size - 1) \div size) |->
        SubSeq(addresses, (i - 1) * size + 1,
               IF i * size <= Len(addresses) THEN i * size ELSE Len(addresses))]

\* The queries of one spec: one without addresses, or one for each piece.
SpecQueries(cfg, spec) ==
    IF spec.addresses = <<>>
    THEN <<spec>>
    ELSE LET pieces == SplitAddresses(spec.addresses, MaxAddresses(cfg))
         IN  [i \in DOMAIN pieces |-> [addresses |-> pieces[i], topics |-> spec.topics]]

\* The queries of a chunk; the caller adds its blocks.
BuildQueries(cfg) ==
    IF cfg.specs = <<>>
    THEN <<[addresses |-> <<>>, topics |-> <<>>]>>
    ELSE FlattenSeq([i \in DOMAIN cfg.specs |-> SpecQueries(cfg, cfg.specs[i])])

\* External: what eth_getLogs returns for a query.
Matches(query, l) ==
    /\ query.addresses = <<>> \/ l.address \in ToSet(query.addresses)
    /\ Len(query.topics) <= Len(l.topics)
    /\ \A i \in DOMAIN query.topics :
          query.topics[i] = {} \/ l.topics[i] \in query.topics[i]
=============================================================================
