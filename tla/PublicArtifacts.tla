--------------------------- MODULE PublicArtifacts ---------------------------
(***************************************************************************)
(* The verdict cards a report API shows and the feed of those that were    *)
(* shared (publicArtifacts.ts).  Both are bounded and forget their oldest  *)
(* entry; a card that goes takes its feed entry with it.  The store in     *)
(* memory and the one in SQLite do the same.  The id of a card is a hash   *)
(* of its content, so a card is its own id here.                           *)
(***************************************************************************)
EXTENDS Integers, FiniteSets

CONSTANTS
  MaxVerdictCards,
  MaxFeedEntries

ASSUME PublicArtifactsAssumption ==
  MaxVerdictCards \in Nat \ {0} /\ MaxFeedEntries \in Nat \ {0}

VARIABLES
  cards,    \* the cards, each with its place: 1 for the oldest
  feed      \* the same of the shared ones

artifactVars == <<cards, feed>>

ArtifactsInit == cards = [c \in {} |-> 0] /\ feed = [c \in {} |-> 0]

\* The entries of a set move up when others go.
Only(entries, S) ==
  LET kept == DOMAIN entries \cap S
  IN [e \in kept |-> Cardinality({o \in kept : entries[o] <= entries[e]})]

\* The newest entries that fit.
Newest(entries, maximum) ==
  Only(entries, {e \in DOMAIN entries :
                   Cardinality({o \in DOMAIN entries : entries[o] > entries[e]}) < maximum})

Added(entries, entry) ==
  IF entry \in DOMAIN entries THEN entries
  ELSE [e \in DOMAIN entries \cup {entry} |->
          IF e = entry THEN Cardinality(DOMAIN entries) + 1 ELSE entries[e]]

SaveCard(card) ==
  /\ cards' = Newest(Added(cards, card), MaxVerdictCards)
  /\ feed' = Only(feed, DOMAIN cards')

ShareCard(card) ==
  /\ card \in DOMAIN cards
  /\ feed' = Newest(Added(feed, card), MaxFeedEntries)
  /\ UNCHANGED cards
=============================================================================
