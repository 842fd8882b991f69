------------------------------- MODULE Kanban -------------------------------
(***************************************************************************)
(* What the board store promises: every operation is one atomic step on    *)
(* the content of the boards, or no step at all.  BoardStore, with its     *)
(* journals, partial writes, crashes and recoveries, implements this.      *)
(***************************************************************************)
EXTENDS BoardContent

VARIABLE content   \* content[b] : the active list and the archive of board b

HomesOf(c) == {h \in Boards \X Kinds : Has(content[h[1]][h[2]], c)}

Present(c) == HomesOf(c) # {}

TypeOK == content \in [Boards -> Content]

\* Every card is in at most one list of at most one board.
OneHome == \A c \in Cards : \A g, h \in HomesOf(c) : g = h

\* The focus of a board is a card on its active list; an archived board has none.
FocusIsActive ==
  \A b \in Boards :
    LET active == content[b]["active"]
    IN  active.focus # None => /\ Has(active, active.focus)
                               /\ ~active.archived

Consistent == TypeOK /\ OneHome /\ FocusIsActive

-----------------------------------------------------------------------------

Become(b, new) == content' = [content EXCEPT ![b] = new]

CreateCard(b, c) ==
  /\ CanCreate(content[b])
  /\ ~Present(c)
  /\ Become(b, Created(content[b], c))

EditCard(b, c) ==
  /\ Has(content[b]["active"], c)
  /\ Become(b, Edited(content[b], c))

AddAttachment(b, c, a) ==
  /\ CanAttach(content[b], c)
  /\ Become(b, Attached(content[b], c, a))

DeleteAttachment(b, c, a) ==
  /\ Has(content[b]["active"], c)
  /\ a \in content[b]["active"].cards[c].atts
  /\ Become(b, Detached(content[b], c, a))

CompleteCard(b, c) ==
  /\ Has(content[b]["active"], c)
  /\ Become(b, Completed(content[b], c))

RestoreCard(b, c) ==
  /\ CanRestore(content[b], c)
  /\ Become(b, Restored(content[b], c))

PatchBoardSettings(b, focus, archived) ==
  /\ CanSettle(content[b], focus, archived)
  /\ Become(b, Settled(content[b], focus, archived))

DeleteCard(b, c) ==
  \/ /\ Has(content[b]["active"], c)
     /\ Become(b, Deleted(content[b], c))
  \/ /\ ~Has(content[b]["active"], c)
     /\ Has(content[b]["archive"], c)
     /\ Become(b, DeletedArchived(content[b], c))

MoveCardToBoard(s, d, c, kind) ==
  /\ s # d
  /\ CanMove(content[s], content[d], c, kind)
  /\ content' = [content EXCEPT
       ![s][kind] = MovedOut(content[s], c, kind),
       ![d][kind] = MovedIn(content[d], c, kind, content[s][kind].cards[c])]

Next ==
  \/ \E b \in Boards, c \in Cards :
       \/ CreateCard(b, c)
       \/ EditCard(b, c)
       \/ CompleteCard(b, c)
       \/ RestoreCard(b, c)
       \/ DeleteCard(b, c)
       \/ \E a \in Attachments :
            \/ AddAttachment(b, c, a)
            \/ DeleteAttachment(b, c, a)
  \/ \E b \in Boards, focus \in Cards \cup {None}, archived \in BOOLEAN :
       PatchBoardSettings(b, focus, archived)
  \/ \E s, d \in Boards, c \in Cards, kind \in Kinds : MoveCardToBoard(s, d, c, kind)

Init == Consistent

Spec == Init /\ [][Next]_content

-----------------------------------------------------------------------------
(* An archived board takes in no card: none is created on it, restored to  *)
(* its active list or moved to it, whatever else happens to its cards.     *)
ArchivedTakesNoCard ==
  [][\A b \in Boards :
       content[b]["active"].archived /\ content'[b]["active"].archived =>
         /\ \A c \in Cards :
              Has(content'[b]["active"], c) => Has(content[b]["active"], c)
         /\ \A c \in Cards :
              Has(content'[b]["archive"], c) =>
                \E k \in Kinds : Has(content[b][k], c)]_content
=============================================================================
