SPECIFICATION DeckSpec
CONSTANTS
  Cards <- SixCards
  NoCard = NoCard
  Size = 6
  Full <- InOrder
PROPERTIES
  NilWhenNoneLeft
