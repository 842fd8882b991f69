---------------------------- MODULE BoardContent ----------------------------
(***************************************************************************)
(* What the operations of the Kanban board store (internal/kanban/board)   *)
(* do to the content of one board, as pure operators.  A board is a pair   *)
(* of notes, board.md ("active") and done.md ("archive").                  *)
(*                                                                         *)
(* A card is abstracted to a revision and the attachments its metadata     *)
(* names.  Revision 0 stands for "no such card in this file"; every change *)
(* the store makes to a card (UpdatedAt, a comment, an audit entry, an     *)
(* attachment) increments it.  Columns and the order of the cards are told *)
(* apart in BoardNote.                                                     *)
(***************************************************************************)
EXTENDS Naturals, FiniteSets

CONSTANTS
  Boards,       \* board names
  Cards,        \* card identifiers, as newID draws them
  Attachments,  \* attachment identifiers, unique within a card
  None,         \* no card in focus, no journal, no directory
  MaxAttachmentsPerCard  \* 10 in the code

ASSUME NoneAssumption == None \notin Cards

Kinds == {"active", "archive"}

Card == [rev : Nat, atts : SUBSET Attachments]

Image == [cards : [Cards -> Card], focus : Cards \cup {None}, archived : BOOLEAN]

Content == [Kinds -> Image]

NoCard == [rev |-> 0, atts |-> {}]

EmptyImage == [cards |-> [c \in Cards |-> NoCard], focus |-> None, archived |-> FALSE]

EmptyContent == [k \in Kinds |-> EmptyImage]

Has(img, c) == img.cards[c].rev > 0

\* The pair of images a two-file commit installs.
Pair(active, archive) == [k \in Kinds |-> IF k = "active" THEN active ELSE archive]

Put(img, c, card) == [img EXCEPT !.cards[c] = card]

Bump(card) == [card EXCEPT !.rev = @ + 1]

\* Removing a card from a list; on the active file the focus goes with it.
KeepFocus(img, c) == Put(img, c, NoCard)

Without(img, c) ==
  [Put(img, c, NoCard) EXCEPT !.focus = IF @ = c THEN None ELSE @]

\* copyBoardMetadata
CopyMetadata(img, from) ==
  [img EXCEPT !.focus = from.focus, !.archived = from.archived]

-----------------------------------------------------------------------------
(* One operator per operation: the content of a board after it.            *)

\* The card as it enters the board, in an active column.
Created(content, c) ==
  Pair(Put(content["active"], c, [rev |-> 1, atts |-> {}]), content["archive"])

\* UpdateCard and MoveCard to an active status, AddComment.
Edited(content, c) ==
  LET active == content["active"]
  IN  Pair(Put(active, c, Bump(active.cards[c])), content["archive"])

Attached(content, c, a) ==
  LET active == content["active"]
      card   == active.cards[c]
  IN  Pair(Put(active, c, [rev |-> card.rev + 1, atts |-> card.atts \cup {a}]),
           content["archive"])

Detached(content, c, a) ==
  LET active == content["active"]
      card   == active.cards[c]
  IN  Pair(Put(active, c, [rev |-> card.rev + 1, atts |-> card.atts \ {a}]),
           content["archive"])

\* An active card leaves the board for good.
Deleted(content, c) == Pair(Without(content["active"], c), content["archive"])

\* A card of the archive leaves the board for good.
DeletedArchived(content, c) ==
  Pair(content["active"],
       CopyMetadata(KeepFocus(content["archive"], c), content["active"]))

\* UpdateCard to Done: a copy the archive already holds is kept as it is.
Completed(content, c) ==
  LET active  == Without(content["active"], c)
      archive == IF Has(content["archive"], c)
                 THEN content["archive"]
                 ELSE Put(content["archive"], c, Bump(content["active"].cards[c]))
  IN  Pair(active, CopyMetadata(archive, active))

Restored(content, c) ==
  LET active == Put(content["active"], c, Bump(content["archive"].cards[c]))
  IN  Pair(active, CopyMetadata(KeepFocus(content["archive"], c), active))

\* PatchBoardSettings: archiving a board clears its focus.
Settled(content, focus, archived) ==
  LET active == [content["active"] EXCEPT
                   !.focus = IF archived THEN None ELSE focus,
                   !.archived = archived]
  IN  Pair(active, CopyMetadata(content["archive"], active))

\* What a cross-board move leaves on the source and on the destination.  Only
\* the archive's images take a fresh copy of their board's metadata.
MovedOut(content, c, kind) ==
  IF kind = "active"
  THEN Without(content["active"], c)
  ELSE CopyMetadata(KeepFocus(content["archive"], c), content["active"])

MovedIn(content, c, kind, card) ==
  IF kind = "active"
  THEN Put(content["active"], c, Bump(card))
  ELSE CopyMetadata(Put(content["archive"], c, Bump(card)), content["active"])

-----------------------------------------------------------------------------
(* The preconditions the operations check on the content they read.        *)

CanCreate(content) == ~content["active"].archived

CanRestore(content, c) ==
  /\ ~content["active"].archived
  /\ Has(content["archive"], c)
  /\ ~Has(content["active"], c)

CanSettle(content, focus, archived) ==
  focus # None /\ ~archived => Has(content["active"], focus)

\* Variant: a card may be moved to an archived board.
CanMoveAnywhere(source, destination, c, kind) ==
  /\ Has(source[kind], c)
  /\ \A k \in Kinds : ~Has(destination[k], c)

CanMove(source, destination, c, kind) ==
  /\ ~destination["active"].archived
  /\ Has(source[kind], c)
  /\ \A k \in Kinds : ~Has(destination[k], c)

CanAttach(content, c) ==
  /\ Has(content["active"], c)
  /\ Cardinality(content["active"].cards[c].atts) < MaxAttachmentsPerCard
=============================================================================
