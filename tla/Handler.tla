------------------------------- MODULE Handler -------------------------------
(***************************************************************************)
(* The handler of a chain and its components: what ComponentRegistry       *)
(* builds of a configuration (src/chains/evm/handler_registry.go), the     *)
(* index of decoders and how a log finds its own (handler.go), the B20     *)
(* decoder and the filter of creators (src/features/b20).                  *)
(*                                                                         *)
(* A configuration has decoders and filters, each a sequence of records    *)
(* with a type and enabled; a decoder has a factory, a topic0 and an       *)
(* eventName, "" when it is not set.  Zero is the zero address and hash,   *)
(* None a text that is none.  Of the bytes of a log only that matters      *)
(* whether they decode: the data, and a variant of eight bits.             *)
(*                                                                         *)
(* The only decoder there is answers to one address, so the index by       *)
(* topic alone stays empty; of the only filter one is enough, a second     *)
(* just looks again.                                                       *)
(***************************************************************************)
EXTENDS Integers, SequencesExt

CONSTANTS Zero, None

\* The types b20.Register and RegisterCreatorBlacklistFilter put into the
\* registry of a chain.
DecoderTypes == {"b20_created"}
FilterTypes  == {"b20_creator_blacklist"}

\* Where the enabled components stand in a list of them.
Enabled(components) == {i \in DOMAIN components : components[i].enabled}

\* NewCreatedDecoder takes the parameters of a decoder: zeros are fine to it.
DecoderAccepted(d) ==
    /\ d.type \in DecoderTypes
    /\ d.factory # None
    /\ d.topic0 # None

\* BuildDecoders and BuildFilters make the components that are enabled and do
\* not look at the others.
BuildDecoders(cfg) == \A i \in Enabled(cfg.decoders) : DecoderAccepted(cfg.decoders[i])
BuildFilters(cfg)  == \A i \in Enabled(cfg.filters) : cfg.filters[i].type \in FilterTypes

\* Every B20 decoder has one key, its factory and topic0.
DecoderKey(d) == <<d.factory, d.topic0>>

\* buildDecoderIndex: no key twice, and none with a zero in it.
IndexAccepted(decoders) ==
    /\ \A i \in Enabled(decoders) : decoders[i].factory # Zero /\ decoders[i].topic0 # Zero
    /\ \A i, j \in Enabled(decoders) :
          DecoderKey(decoders[i]) = DecoderKey(decoders[j]) => i = j

\* BuildPipelineHandler succeeds.  That no component is left is no error.
HandlerAccepted(cfg) ==
    /\ BuildDecoders(cfg)
    /\ BuildFilters(cfg)
    /\ IndexAccepted(cfg.decoders)

\* The decoders of a log: at most one, by the index.  A log without topics has
\* none.
FindDecoderX(cfg, l) ==
    {cfg.decoders[i] : i \in {j \in Enabled(cfg.decoders) :
        l.topics # <<>> /\ cfg.decoders[j].topic0 = l.topics[1]}}
FindDecoder(cfg, l) ==
    {cfg.decoders[i] : i \in {j \in Enabled(cfg.decoders) :
        l.topics # <<>> /\ DecoderKey(cfg.decoders[j]) = <<l.address, l.topics[1]>>}}

\* Decode fails on a log with too few topics, on bytes that do not decode, and
\* on one whose sender is not among those that were loaded.
Decodes(l, senders) ==
    /\ Len(l.topics) >= 3
    /\ l.decodable
    /\ l.tx \in DOMAIN senders
    /\ senders[l.tx] # Zero

EventName(d) == IF d.eventName = "" THEN "b20_created" ELSE d.eventName

\* The filter of creators goes by the name of an event, and only looks up the
\* creators of those that have the default name.
Filtered(d) == EventName(d) = "b20_created"

\* An enabled row lists the creator, in the chain and scope that are asked for.
IsBlacklisted(creator, listed) == creator \in listed

\* Every filter lets the event of a log through.
ApplyFilters(cfg, d, creator, listed) ==
    Enabled(cfg.filters) # {} /\ Filtered(d) => ~IsBlacklisted(creator, listed)
=============================================================================
