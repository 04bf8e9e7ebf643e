----------------------------- MODULE MCConsumer -----------------------------
(***************************************************************************)
(* Consumer for TLC: two sensors, two keys, two features of interest.      *)
(***************************************************************************)
EXTENDS Consumer

CONSTANTS tmp, hum, k1, k2

AllSensors == {tmp, hum}

Obs(s, keys) == [kind |-> "obs", sensor |-> s, keys |-> keys]
NoData(s)    == [kind |-> "no data", sensor |-> s, keys |-> {}]
Garbage      == [kind |-> "garbage"]

\* Rows with one key, two keys of one feature, two features; and none.
OneKey      == [k \in {k1} |-> "temperature"]
OneFeature  == [k \in {k1, k2} |-> "temperature"]
TwoFeatures == [k \in {k1, k2} |-> IF k = k1 THEN "temperature" ELSE "humidity"]
NoKeys      == [k \in {} |-> "temperature"]

AllRows == {OneKey, TwoFeatures, NoKeys}

\* The metadata: of no sensor, of one, of both.
Only(row)       == [s \in {tmp} |-> row]
Both(row, row2) == [s \in {tmp, hum} |-> IF s = tmp THEN row ELSE row2]

AllContents == {Obs(tmp, {k1}), Obs(tmp, {k1, k2}), Obs(hum, {k1}), Obs(hum, {k1, k2}),
                NoData(tmp), Obs(tmp, {}), Garbage}

VARIABLE setup

\* Four worlds: databases that fail and a process that crashes; records of any
\* kind while the metadata changes; posts that arrive, fail or overtake each
\* other (elsewhere they are slow); rows without keys.  Each has the contents, tables and failures its questions need.
Worlds ==
  [failures |-> [contents |-> {Obs(tmp, {k1}), Obs(hum, {k1, k2})},
                 tables |-> {NoRows, Only(TwoFeatures), Both(OneKey, TwoFeatures)},
                 crash |-> TRUE, update |-> FALSE, posts |-> FALSE],
   changes  |-> [contents |-> {Obs(tmp, {k1}), Obs(tmp, {k1, k2}), NoData(tmp), Garbage},
                 tables |-> {NoRows, Only(OneKey), Only(TwoFeatures)},
                 crash |-> FALSE, update |-> TRUE, posts |-> FALSE],
   posts    |-> [contents |-> {Obs(tmp, {k1}), Obs(hum, {k1})},
                 tables |-> {NoRows, Only(OneKey), Both(OneKey, OneKey)},
                 crash |-> FALSE, update |-> TRUE, posts |-> TRUE],
   leaks    |-> [contents |-> {Obs(tmp, {k1}), Obs(tmp, {}), Obs(hum, {k1})},
                 tables |-> {Only(NoKeys), Both(NoKeys, OneKey)},
                 crash |-> TRUE, update |-> FALSE, posts |-> FALSE]]

World == Worlds[setup]

WorldInit ==
  /\ setup \in DOMAIN Worlds
  /\ Init
  /\ \A i \in Positions : stream[i] \in World.contents
  /\ metadata.rows \in World.tables

WorldNext ==
  /\ Next /\ UNCHANGED setup
  /\ World.crash \/ UNCHANGED crashes
  /\ World.update \/ UNCHANGED metadata
  /\ metadata'.rows \in World.tables
  /\ World.posts \/ UNCHANGED <<shown, marred>>

WorldSpec == WorldInit /\ [][WorldNext]_<<setup, vars>> /\ Fairness
=============================================================================
