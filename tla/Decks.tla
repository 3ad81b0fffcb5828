------------------------------- MODULE Decks --------------------------------
(***************************************************************************)
(* lualib/poker/Decks.lua: the cards of a round that are not dealt yet.    *)
(*                                                                         *)
(* _pokerIds is a Lua table used as an array from 1 to its length, but     *)
(* draw() computes an index by rounding random * len, which may be 0: key  *)
(* 0 of the table is then read and written although it is not part of the  *)
(* array.  `slot' is the table, key 0 included, and `count' its length.    *)
(* A card is the Poker object made for one position of a full table, so    *)
(* that several decks are so many different cards.                         *)
(***************************************************************************)
EXTENDS Integers

CONSTANTS
    Cards,    \* _numberOfDecks * 52 cards
    NoCard,   \* nil
    Size,     \* their number
    Full      \* Full[i]: the card that reset() puts at index i

ASSUME DecksAssumption ==
    /\ NoCard \notin Cards
    /\ Size \in Nat
    /\ Full \in [1 .. Size -> Cards]
    /\ \A i, j \in 1 .. Size : Full[i] = Full[j] => i = j
    /\ \A card \in Cards : \E i \in 1 .. Size : Full[i] = card

VARIABLES
    slot, count,
    drawn,    \* result of the last draw
    dealt     \* history: the cards dealt since the deck was made or reset

deckVars == <<slot, count, drawn, dealt>>

\* Decks:new, which ends in reset().
DeckInit ==
    /\ slot = [i \in 0 .. Size |-> IF i = 0 THEN NoCard ELSE Full[i]]
    /\ count = Size
    /\ drawn = NoCard
    /\ dealt = {}

\* Mutant: the gap is closed from one position too far down.
CompactWrong(i) ==
    [slot EXCEPT ![i] = slot[count - 1], ![count] = NoCard]

\* "Keep the array compact": the last card moves to the index drawn, and the last
\* index is removed (in this order, so that drawing the last card removes it).
Compact(i) ==
    [slot EXCEPT ![i] = slot[count], ![count] = NoCard]

\* draw() on an empty deck returns nil.
draw_empty ==
    /\ count = 0
    /\ drawn' = NoCard
    /\ UNCHANGED <<slot, count, dealt>>

\* draw() with the index i = checkint(random * len), 0 <= i <= len.
draw(i) ==
    /\ count > 0 /\ i \in 0 .. count
    /\ drawn' = slot[i]
    /\ slot' = Compact(i)
    /\ count' = count - 1
    /\ dealt' = dealt \cup ({slot[i]} \ {NoCard})

DeckNext == draw_empty \/ \E i \in 0 .. Size : draw(i)

\* A round makes a deck, which ends in reset(), and draws from it; nothing in the program
\* calls reset() again.
DeckSpec == DeckInit /\ [][DeckNext]_deckVars

-----------------------------------------------------------------------------
DeckTypeOK ==
    /\ slot \in [0 .. Size -> Cards \cup {NoCard}]
    /\ count \in 0 .. Size
    /\ drawn \in Cards \cup {NoCard}
    /\ dealt \subseteq Cards

\* No card is in the table twice, and none that was dealt is in it: whatever the
\* indices, key 0 included, no card is ever dealt twice.
NeverTwice ==
    /\ \A i, j \in 0 .. Size : slot[i] # NoCard /\ slot[i] = slot[j] => i = j
    /\ \A i \in 0 .. Size : slot[i] \notin dealt

\* What draw() can still return: of an array of length 0 nothing, whatever key 0 has.
Drawable == IF count = 0 THEN {} ELSE {slot[i] : i \in 0 .. count} \ {NoCard}

Lost == Cards \ (dealt \cup Drawable)

\* A deck loses one card at most, and only when its array has run out: the one that was
\* moved to key 0 and not drawn from there.
LosesOneAtMost == \A card \in Lost : count = 0 /\ card = slot[0]

\* What the comment of draw() says: nil is returned when no card is left.  A draw of key 0
\* returns nil while there are cards, and again when the last card was moved to key 0.
NilWhenNoneLeft == [][drawn' = NoCard => dealt = Cards]_deckVars
=============================================================================
