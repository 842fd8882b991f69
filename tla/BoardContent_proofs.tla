------------------------- MODULE BoardContent_proofs -------------------------
(***************************************************************************)
(* Lemmas on the pure operators of BoardContent: the content they build is *)
(* content again, and which cards it has.                                  *)
(***************************************************************************)
EXTENDS BoardContent, TLAPS

LEMMA NoCardType == NoCard \in Card
  BY DEF NoCard, Card

LEMMA EmptyContentType == EmptyContent \in Content
  BY NoCardType DEF EmptyContent, EmptyImage, Content, Image

LEMMA PairType ==
  ASSUME NEW act \in Image, NEW arc \in Image
  PROVE  /\ Pair(act, arc) \in Content
         /\ Pair(act, arc)["active"] = act
         /\ Pair(act, arc)["archive"] = arc
  BY DEF Pair, Content, Kinds

LEMMA ContentImages ==
  ASSUME NEW x \in Content
  PROVE  /\ x["active"] \in Image
         /\ x["archive"] \in Image
         /\ \A k \in Kinds : x[k] \in Image
  BY DEF Content, Kinds

LEMMA CardOf ==
  ASSUME NEW img \in Image, NEW c \in Cards
  PROVE  /\ img.cards[c] \in Card
         /\ img.cards[c].rev \in Nat
         /\ img.cards[c].atts \in SUBSET Attachments
  BY DEF Image, Card

\* Put changes one card and neither the focus nor the archived flag.
LEMMA PutType ==
  ASSUME NEW img \in Image, NEW c \in Cards, NEW card \in Card
  PROVE  /\ Put(img, c, card) \in Image
         /\ Put(img, c, card).cards = [img.cards EXCEPT ![c] = card]
         /\ Put(img, c, card).focus = img.focus
         /\ Put(img, c, card).archived = img.archived
  BY DEF Put, Image

LEMMA PutHas ==
  ASSUME NEW img \in Image, NEW c \in Cards, NEW card \in Card, NEW d \in Cards
  PROVE  /\ d = c => (Has(Put(img, c, card), d) <=> card.rev > 0)
         /\ d # c => (Has(Put(img, c, card), d) <=> Has(img, d))
  <1>1. img.cards \in [Cards -> Card]
    BY DEF Image
  <1>2. Put(img, c, card).cards = [img.cards EXCEPT ![c] = card]
    BY PutType
  <1>3. Put(img, c, card).cards[d] = IF d = c THEN card ELSE img.cards[d]
    BY <1>1, <1>2
  <1>4. QED
    BY <1>3 DEF Has

LEMMA BumpType ==
  ASSUME NEW card \in Card
  PROVE  Bump(card) \in Card /\ Bump(card).rev > 0
  BY DEF Bump, Card

\* Putting NoCard removes a card and nothing else.
LEMMA RemovedHas ==
  ASSUME NEW img \in Image, NEW c \in Cards, NEW d \in Cards
  PROVE  /\ Put(img, c, NoCard) \in Image
         /\ Put(img, c, NoCard).focus = img.focus
         /\ Put(img, c, NoCard).archived = img.archived
         /\ Has(Put(img, c, NoCard), d) <=> d # c /\ Has(img, d)
  <1>1. NoCard \in Card
    BY NoCardType
  <1>2. ~(NoCard.rev > 0)
    BY DEF NoCard
  <1>3. /\ Put(img, c, NoCard) \in Image
        /\ Put(img, c, NoCard).focus = img.focus
        /\ Put(img, c, NoCard).archived = img.archived
    BY <1>1, PutType
  <1>4. CASE d = c
    <2>1. Has(Put(img, c, NoCard), d) <=> NoCard.rev > 0
      BY <1>1, <1>4, PutHas
    <2>2. QED
      BY <1>2, <1>3, <1>4, <2>1
  <1>5. CASE d # c
    <2>1. Has(Put(img, c, NoCard), d) <=> Has(img, d)
      BY <1>1, <1>5, PutHas
    <2>2. QED
      BY <1>3, <1>5, <2>1
  <1>6. QED
    BY <1>4, <1>5

LEMMA KeepFocusHas ==
  ASSUME NEW img \in Image, NEW c \in Cards, NEW d \in Cards
  PROVE  /\ KeepFocus(img, c) \in Image
         /\ Has(KeepFocus(img, c), d) <=> d # c /\ Has(img, d)
         /\ KeepFocus(img, c).focus = img.focus
         /\ KeepFocus(img, c).archived = img.archived
  BY RemovedHas DEF KeepFocus

LEMMA WithoutHas ==
  ASSUME NEW img \in Image, NEW c \in Cards, NEW d \in Cards
  PROVE  /\ Without(img, c) \in Image
         /\ Has(Without(img, c), d) <=> d # c /\ Has(img, d)
         /\ Without(img, c).focus = IF img.focus = c THEN None ELSE img.focus
         /\ Without(img, c).archived = img.archived
  <1> DEFINE less == Put(img, c, NoCard)
  <1>1. /\ less \in Image
        /\ less.focus = img.focus /\ less.archived = img.archived
        /\ Has(less, d) <=> d # c /\ Has(img, d)
    BY RemovedHas
  <1>2. Without(img, c) = [less EXCEPT !.focus = IF @ = c THEN None ELSE @]
    BY DEF Without
  <1> HIDE DEF less
  <1>3. /\ Without(img, c) \in Image
        /\ Without(img, c).cards = less.cards
        /\ Without(img, c).archived = less.archived
        /\ Without(img, c).focus = IF less.focus = c THEN None ELSE less.focus
    BY <1>1, <1>2 DEF Image
  <1>4. QED
    BY <1>1, <1>3 DEF Has

LEMMA CopyMetadataHas ==
  ASSUME NEW img \in Image, NEW from \in Image
  PROVE  /\ CopyMetadata(img, from) \in Image
         /\ CopyMetadata(img, from).cards = img.cards
         /\ CopyMetadata(img, from).focus = from.focus
         /\ CopyMetadata(img, from).archived = from.archived
         /\ \A d \in Cards : Has(CopyMetadata(img, from), d) <=> Has(img, d)
  BY DEF CopyMetadata, Image, Has

-----------------------------------------------------------------------------
(* The cards on a list, and what each operation does to the two lists, the  *)
(* focus and the archived flag of a board.                                  *)

CardsOn(img) == {c \in Cards : Has(img, c)}

LEMMA PutCards ==
  ASSUME NEW img \in Image, NEW c \in Cards, NEW card \in Card, card.rev > 0
  PROVE  CardsOn(Put(img, c, card)) = CardsOn(img) \cup {c}
  BY PutHas DEF CardsOn

LEMMA WithoutCards ==
  ASSUME NEW img \in Image, NEW c \in Cards
  PROVE  CardsOn(Without(img, c)) = CardsOn(img) \ {c}
  BY WithoutHas DEF CardsOn

LEMMA KeepFocusCards ==
  ASSUME NEW img \in Image, NEW c \in Cards
  PROVE  CardsOn(KeepFocus(img, c)) = CardsOn(img) \ {c}
  BY KeepFocusHas DEF CardsOn

LEMMA CopyMetadataCards ==
  ASSUME NEW img \in Image, NEW from \in Image
  PROVE  CardsOn(CopyMetadata(img, from)) = CardsOn(img)
  BY CopyMetadataHas DEF CardsOn

\* An operation that writes one live card on the active list.
LiveCard == {card \in Card : card.rev > 0}

Written(x, c, card) == Pair(Put(x["active"], c, card), x["archive"])

LEMMA WriteCard ==
  ASSUME NEW x \in Content, NEW c \in Cards, NEW card \in LiveCard
  PROVE  /\ Written(x, c, card) \in Content
         /\ CardsOn(Written(x, c, card)["active"]) = CardsOn(x["active"]) \cup {c}
         /\ CardsOn(Written(x, c, card)["archive"]) = CardsOn(x["archive"])
         /\ Written(x, c, card)["active"].focus = x["active"].focus
         /\ Written(x, c, card)["active"].archived = x["active"].archived
  <1> DEFINE act == Put(x["active"], c, card)
  <1>1. x["active"] \in Image /\ x["archive"] \in Image
    BY ContentImages
  <1>2. /\ act \in Image
        /\ act.focus = x["active"].focus
        /\ act.archived = x["active"].archived
    BY <1>1, PutType DEF LiveCard
  <1>3. CardsOn(act) = CardsOn(x["active"]) \cup {c}
    BY <1>1, PutCards DEF LiveCard
  <1>4. Written(x, c, card) = Pair(act, x["archive"])
    BY DEF Written
  <1> HIDE DEF act
  <1>5. QED
    BY <1>1, <1>2, <1>3, <1>4, PairType

LEMMA CreatedContent ==
  ASSUME NEW x \in Content, NEW c \in Cards
  PROVE  LET y == Created(x, c)
         IN  /\ y \in Content
             /\ CardsOn(y["active"]) = CardsOn(x["active"]) \cup {c}
             /\ CardsOn(y["archive"]) = CardsOn(x["archive"])
             /\ y["active"].focus = x["active"].focus
             /\ y["active"].archived = x["active"].archived
  <1> DEFINE card == [rev |-> 1, atts |-> {}]
  <1>1. card \in LiveCard
    BY DEF Card, LiveCard
  <1>2. Created(x, c) = Written(x, c, card)
    BY DEF Created, Written
  <1> HIDE DEF card
  <1>3. QED
    BY <1>1, <1>2, WriteCard

LEMMA EditedContent ==
  ASSUME NEW x \in Content, NEW c \in Cards, Has(x["active"], c)
  PROVE  LET y == Edited(x, c)
         IN  /\ y \in Content
             /\ CardsOn(y["active"]) = CardsOn(x["active"])
             /\ CardsOn(y["archive"]) = CardsOn(x["archive"])
             /\ y["active"].focus = x["active"].focus
             /\ y["active"].archived = x["active"].archived
  <1>1. Bump(x["active"].cards[c]) \in LiveCard
    BY ContentImages, CardOf, BumpType DEF LiveCard
  <1>2. PICK card \in LiveCard : Edited(x, c) = Written(x, c, card)
    BY <1>1 DEF Edited, Written
  <1>3. CardsOn(x["active"]) \cup {c} = CardsOn(x["active"])
    BY DEF CardsOn
  <1>4. /\ Written(x, c, card) \in Content
        /\ CardsOn(Written(x, c, card)["active"]) = CardsOn(x["active"]) \cup {c}
        /\ CardsOn(Written(x, c, card)["archive"]) = CardsOn(x["archive"])
        /\ Written(x, c, card)["active"].focus = x["active"].focus
        /\ Written(x, c, card)["active"].archived = x["active"].archived
    BY WriteCard
  <1>5. QED
    BY <1>2, <1>3, <1>4

\* Adding or removing an attachment.
LEMMA AttachedContent ==
  ASSUME NEW x \in Content, NEW c \in Cards, NEW a \in Attachments, Has(x["active"], c),
         NEW y \in {Attached(x, c, a), Detached(x, c, a)}
  PROVE  /\ y \in Content
         /\ CardsOn(y["active"]) = CardsOn(x["active"])
         /\ CardsOn(y["archive"]) = CardsOn(x["archive"])
         /\ y["active"].focus = x["active"].focus
         /\ y["active"].archived = x["active"].archived
  <1> DEFINE card == x["active"].cards[c]
             more == [rev |-> card.rev + 1, atts |-> card.atts \cup {a}]
             less == [rev |-> card.rev + 1, atts |-> card.atts \ {a}]
  <1>1. card.rev \in Nat /\ card.atts \in SUBSET Attachments
    BY ContentImages, CardOf
  <1>2. more \in LiveCard /\ less \in LiveCard
    BY <1>1 DEF Card, LiveCard
  <1>3. PICK new \in {more, less} : y = Written(x, c, new)
    BY DEF Attached, Detached, Written
  <1>4. CardsOn(x["active"]) \cup {c} = CardsOn(x["active"])
    BY DEF CardsOn
  <1> HIDE DEF card, more, less
  <1>5. new \in LiveCard
    BY <1>2, <1>3
  <1>6. QED
    BY <1>3, <1>4, <1>5, WriteCard

LEMMA DeletedContent ==
  ASSUME NEW x \in Content, NEW c \in Cards
  PROVE  LET y == Deleted(x, c)
         IN  /\ y \in Content
             /\ CardsOn(y["active"]) = CardsOn(x["active"]) \ {c}
             /\ CardsOn(y["archive"]) = CardsOn(x["archive"])
             /\ y["active"].focus = IF x["active"].focus = c THEN None ELSE x["active"].focus
             /\ y["active"].archived = x["active"].archived
  <1>1. x["active"] \in Image /\ x["archive"] \in Image
    BY ContentImages
  <1>2. Without(x["active"], c) \in Image
    BY <1>1, WithoutHas
  <1>3. QED
    BY <1>1, <1>2, WithoutHas, WithoutCards, PairType DEF Deleted

LEMMA DeletedArchivedContent ==
  ASSUME NEW x \in Content, NEW c \in Cards
  PROVE  LET y == DeletedArchived(x, c)
         IN  /\ y \in Content
             /\ y["active"] = x["active"]
             /\ CardsOn(y["archive"]) = CardsOn(x["archive"]) \ {c}
  <1> DEFINE less == KeepFocus(x["archive"], c)
  <1>1. x["active"] \in Image /\ x["archive"] \in Image
    BY ContentImages
  <1>2. less \in Image /\ CardsOn(less) = CardsOn(x["archive"]) \ {c}
    BY <1>1, KeepFocusHas, KeepFocusCards
  <1>3. DeletedArchived(x, c) = Pair(x["active"], CopyMetadata(less, x["active"]))
    BY DEF DeletedArchived
  <1> HIDE DEF less
  <1>4. /\ CopyMetadata(less, x["active"]) \in Image
        /\ CardsOn(CopyMetadata(less, x["active"])) = CardsOn(less)
    BY <1>1, <1>2, CopyMetadataHas, CopyMetadataCards
  <1>5. QED
    BY <1>1, <1>2, <1>3, <1>4, PairType

LEMMA CompletedContent ==
  ASSUME NEW x \in Content, NEW c \in Cards, Has(x["active"], c)
  PROVE  LET y == Completed(x, c)
         IN  /\ y \in Content
             /\ CardsOn(y["active"]) = CardsOn(x["active"]) \ {c}
             /\ CardsOn(y["archive"]) = CardsOn(x["archive"]) \cup {c}
             /\ y["active"].focus = IF x["active"].focus = c THEN None ELSE x["active"].focus
             /\ y["active"].archived = x["active"].archived
  <1> DEFINE act  == Without(x["active"], c)
             card == Bump(x["active"].cards[c])
             arc  == IF Has(x["archive"], c) THEN x["archive"] ELSE Put(x["archive"], c, card)
  <1>1. x["active"] \in Image /\ x["archive"] \in Image
    BY ContentImages
  <1>2. /\ act \in Image
        /\ CardsOn(act) = CardsOn(x["active"]) \ {c}
        /\ act.focus = IF x["active"].focus = c THEN None ELSE x["active"].focus
        /\ act.archived = x["active"].archived
    BY <1>1, WithoutHas, WithoutCards
  <1>3. card \in Card /\ card.rev > 0
    BY <1>1, CardOf, BumpType
  <1> HIDE DEF card
  <1>4. arc \in Image /\ CardsOn(arc) = CardsOn(x["archive"]) \cup {c}
    <2>1. CASE Has(x["archive"], c)
      BY <1>1, <2>1 DEF CardsOn
    <2>2. CASE ~Has(x["archive"], c)
      BY <1>1, <1>3, <2>2, PutType, PutCards
    <2>3. QED
      BY <2>1, <2>2
  <1>5. Completed(x, c) = Pair(act, CopyMetadata(arc, act))
    BY DEF Completed, card
  <1> HIDE DEF act, arc
  <1>6. /\ CopyMetadata(arc, act) \in Image
        /\ CardsOn(CopyMetadata(arc, act)) = CardsOn(arc)
    BY <1>2, <1>4, CopyMetadataHas, CopyMetadataCards
  <1>7. QED
    BY <1>2, <1>4, <1>5, <1>6, PairType

LEMMA RestoredContent ==
  ASSUME NEW x \in Content, NEW c \in Cards, Has(x["archive"], c)
  PROVE  LET y == Restored(x, c)
         IN  /\ y \in Content
             /\ CardsOn(y["active"]) = CardsOn(x["active"]) \cup {c}
             /\ CardsOn(y["archive"]) = CardsOn(x["archive"]) \ {c}
             /\ y["active"].focus = x["active"].focus
             /\ y["active"].archived = x["active"].archived
  <1> DEFINE card == Bump(x["archive"].cards[c])
             act  == Put(x["active"], c, card)
             arc  == KeepFocus(x["archive"], c)
  <1>1. x["active"] \in Image /\ x["archive"] \in Image
    BY ContentImages
  <1>2. card \in Card /\ card.rev > 0
    BY <1>1, CardOf, BumpType
  <1> HIDE DEF card
  <1>3. /\ act \in Image
        /\ CardsOn(act) = CardsOn(x["active"]) \cup {c}
        /\ act.focus = x["active"].focus
        /\ act.archived = x["active"].archived
    BY <1>1, <1>2, PutType, PutCards
  <1>4. arc \in Image /\ CardsOn(arc) = CardsOn(x["archive"]) \ {c}
    BY <1>1, KeepFocusHas, KeepFocusCards
  <1>5. Restored(x, c) = Pair(act, CopyMetadata(arc, act))
    BY DEF Restored, card
  <1> HIDE DEF act, arc
  <1>6. /\ CopyMetadata(arc, act) \in Image
        /\ CardsOn(CopyMetadata(arc, act)) = CardsOn(arc)
    BY <1>3, <1>4, CopyMetadataHas, CopyMetadataCards
  <1>7. QED
    BY <1>3, <1>4, <1>5, <1>6, PairType

LEMMA SettledContent ==
  ASSUME NEW x \in Content, NEW focus \in Cards \cup {None}, NEW archived \in BOOLEAN
  PROVE  LET y == Settled(x, focus, archived)
         IN  /\ y \in Content
             /\ CardsOn(y["active"]) = CardsOn(x["active"])
             /\ CardsOn(y["archive"]) = CardsOn(x["archive"])
             /\ y["active"].focus = IF archived THEN None ELSE focus
             /\ y["active"].archived = archived
  <1> DEFINE act == [x["active"] EXCEPT !.focus = IF archived THEN None ELSE focus,
                                        !.archived = archived]
  <1>1. x["active"] \in Image /\ x["archive"] \in Image
    BY ContentImages
  <1>2. /\ act \in Image
        /\ act.cards = x["active"].cards
        /\ act.focus = IF archived THEN None ELSE focus
        /\ act.archived = archived
    BY <1>1 DEF Image
  <1>3. Settled(x, focus, archived) = Pair(act, CopyMetadata(x["archive"], act))
    BY DEF Settled
  <1> HIDE DEF act
  <1>4. CardsOn(act) = CardsOn(x["active"])
    BY <1>2 DEF CardsOn, Has
  <1>5. /\ CopyMetadata(x["archive"], act) \in Image
        /\ CardsOn(CopyMetadata(x["archive"], act)) = CardsOn(x["archive"])
    BY <1>1, <1>2, CopyMetadataHas, CopyMetadataCards
  <1>6. QED
    BY <1>1, <1>2, <1>3, <1>4, <1>5, PairType

LEMMA MovedOutImage ==
  ASSUME NEW x \in Content, NEW c \in Cards, NEW kind \in Kinds
  PROVE  LET img == MovedOut(x, c, kind)
         IN  /\ img \in Image
             /\ CardsOn(img) = CardsOn(x[kind]) \ {c}
             /\ kind = "active" =>
                  /\ img.archived = x["active"].archived
                  /\ img.focus = IF x["active"].focus = c THEN None ELSE x["active"].focus
  <1>1. x["active"] \in Image /\ x["archive"] \in Image
    BY ContentImages
  <1>2. CASE kind = "active"
    BY <1>1, <1>2, WithoutHas, WithoutCards DEF MovedOut
  <1>3. CASE kind = "archive"
    <2> DEFINE less == KeepFocus(x["archive"], c)
    <2>1. less \in Image /\ CardsOn(less) = CardsOn(x["archive"]) \ {c}
      BY <1>1, KeepFocusHas, KeepFocusCards
    <2>2. MovedOut(x, c, kind) = CopyMetadata(less, x["active"])
      BY <1>3 DEF MovedOut
    <2> HIDE DEF less
    <2>3. /\ CopyMetadata(less, x["active"]) \in Image
          /\ CardsOn(CopyMetadata(less, x["active"])) = CardsOn(less)
      BY <1>1, <2>1, CopyMetadataHas, CopyMetadataCards
    <2>4. kind # "active" /\ x[kind] = x["archive"]
      BY <1>3
    <2>5. QED
      BY <2>1, <2>2, <2>3, <2>4
  <1>4. QED
    BY <1>2, <1>3 DEF Kinds

LEMMA MovedInImage ==
  ASSUME NEW x \in Content, NEW c \in Cards, NEW kind \in Kinds, NEW card \in Card
  PROVE  LET img == MovedIn(x, c, kind, card)
         IN  /\ img \in Image
             /\ CardsOn(img) = CardsOn(x[kind]) \cup {c}
             /\ kind = "active" =>
                  /\ img.archived = x["active"].archived
                  /\ img.focus = x["active"].focus
  <1>1. x["active"] \in Image /\ x["archive"] \in Image
    BY ContentImages
  <1>2. Bump(card) \in Card /\ Bump(card).rev > 0
    BY BumpType
  <1>3. CASE kind = "active"
    BY <1>1, <1>2, <1>3, PutType, PutCards DEF MovedIn
  <1>4. CASE kind = "archive"
    <2> DEFINE more == Put(x["archive"], c, Bump(card))
    <2>1. more \in Image /\ CardsOn(more) = CardsOn(x["archive"]) \cup {c}
      BY <1>1, <1>2, PutType, PutCards
    <2>2. MovedIn(x, c, kind, card) = CopyMetadata(more, x["active"])
      BY <1>4 DEF MovedIn
    <2> HIDE DEF more
    <2>3. /\ CopyMetadata(more, x["active"]) \in Image
          /\ CardsOn(CopyMetadata(more, x["active"])) = CardsOn(more)
      BY <1>1, <2>1, CopyMetadataHas, CopyMetadataCards
    <2>4. kind # "active" /\ x[kind] = x["archive"]
      BY <1>4
    <2>5. QED
      BY <2>1, <2>2, <2>3, <2>4
  <1>5. QED
    BY <1>3, <1>4 DEF Kinds
=============================================================================
