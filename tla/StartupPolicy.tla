----------------------------- MODULE StartupPolicy -----------------------------
(***************************************************************************)
(* The admission policy for connections that have not authenticated yet,  *)
(* and the rule by which a configured limit becomes an effective one.      *)
(* Pure functions of server.go: configuredLimit, effectiveMaxStartups and  *)
(* maxStartupsDropRate.                                                    *)
(*                                                                         *)
(* A Go pointer that may be nil is a sequence of length at most one.       *)
(***************************************************************************)
EXTENDS Integers, Sequences

Nil == << >>

DefaultMaxStartups == [Start |-> 10, Rate |-> 30, Full |-> 100]
DefaultMaxConnections == 256

Disabled == [Start |-> 0, Rate |-> 0, Full |-> 0]

\* Brings n into lo..hi.
Clamp(n, lo, hi) == IF n < lo THEN lo ELSE IF n > hi THEN hi ELSE n

configuredLimit(value, defaultValue) ==
  IF value = Nil THEN defaultValue ELSE IF value[1] <= 0 THEN 0 ELSE value[1]

effectiveMaxStartups(config) ==
  IF config = Nil THEN DefaultMaxStartups
  ELSE IF config[1].Full <= 0 THEN Disabled
  ELSE [Start |-> Clamp(config[1].Start, 0, config[1].Full),
        Rate  |-> Clamp(config[1].Rate, 0, 100),
        Full  |-> config[1].Full]

\* Fault: the slope is taken over all connections up to the hard limit.
maxStartupsDropRate_Flat(current, config) ==
  IF config.Full <= 0 THEN 0
  ELSE IF current >= config.Full THEN 100
  ELSE IF current < config.Start \/ config.Start >= config.Full THEN 0
  ELSE config.Rate + ((100 - config.Rate) * (current - config.Start)) \div config.Full

maxStartupsDropRate(current, config) ==
  IF config.Full <= 0 THEN 0
  ELSE IF current >= config.Full THEN 100
  ELSE IF current < config.Start \/ config.Start >= config.Full THEN 0
  ELSE config.Rate
       + ((100 - config.Rate) * (current - config.Start)) \div (config.Full - config.Start)

\* The two ways a random number of 0..99 can fall: a connection may be dropped,
\* and a connection may be let in (trackConnection's test on dropRate).
MayDrop(rate)  == rate > 0
MayAdmit(rate) == rate < 100

\* What the policy promises of one setting of MaxStartups when n connections have not
\* authenticated yet: the drop rate is a percentage and never falls when one more comes
\* in; nobody is dropped below Start or with the limit disabled, the first connection
\* at Start is dropped with the configured rate, and at Full all are; in between the
\* rate is the straight line from Rate at Start to 100 at Full, rounded down.
DropRateLine(config, n) ==
  LET effective == effectiveMaxStartups(config)
      rate == maxStartupsDropRate(n, effective)
      step == maxStartupsDropRate(n + 1, effective) - rate
      width == effective.Full - effective.Start
  IN  /\ rate \in 0..100 /\ step >= 0
      /\ effective.Full = 0 \/ n < effective.Start => rate = 0
      /\ n = effective.Start /\ effective.Start < effective.Full => rate = effective.Rate
      /\ effective.Full > 0 /\ n >= effective.Full => rate = 100
      /\ effective.Start <= n /\ n + 1 < effective.Full =>
           step * width - (100 - effective.Rate) \in 1 - width..width - 1
================================================================================
