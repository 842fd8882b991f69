---------------------------- MODULE Kanban_proofs ----------------------------
(***************************************************************************)
(* Consistent is an invariant of the abstract board store, for any sets of *)
(* boards, cards and attachments, and an archived board takes in no card.  *)
(***************************************************************************)
EXTENDS Kanban, BoardContent_proofs

\* OneHome without the set of pairs.
OneList ==
  \A b, e \in Boards : \A k, l \in Kinds : \A c \in Cards :
    Has(content[b][k], c) /\ Has(content[e][l], c) => b = e /\ k = l

FocusOf(board) ==
  board["active"].focus # None => /\ board["active"].focus \in CardsOn(board["active"])
                                  /\ ~board["active"].archived

\* The two lists of a board share no card.
Apart(board) == CardsOn(board["active"]) \cap CardsOn(board["archive"]) = {}

\* An archived board that stays archived has no card it did not have.
TakesNone(old, new) ==
  old["active"].archived /\ new["active"].archived =>
    /\ CardsOn(new["active"]) \subseteq CardsOn(old["active"])
    /\ CardsOn(new["archive"]) \subseteq CardsOn(old["active"]) \cup CardsOn(old["archive"])

NoneTaken == \A b \in Boards : TakesNone(content[b], content'[b])

CardsOf(board) == CardsOn(board["active"]) \cup CardsOn(board["archive"])

LEMMA OneListIsOneHome == OneHome <=> OneList
  <1>1. ASSUME OneHome PROVE OneList
    <2> SUFFICES ASSUME NEW b \in Boards, NEW e \in Boards, NEW k \in Kinds, NEW l \in Kinds,
                        NEW c \in Cards, Has(content[b][k], c), Has(content[e][l], c)
                 PROVE  b = e /\ k = l
      BY DEF OneList
    <2>1. <<b, k>> \in HomesOf(c) /\ <<e, l>> \in HomesOf(c)
      BY DEF HomesOf
    <2>2. <<b, k>> = <<e, l>>
      BY <1>1, <2>1 DEF OneHome
    <2>3. QED
      BY <2>2
  <1>2. ASSUME OneList PROVE OneHome
    <2> SUFFICES ASSUME NEW c \in Cards, NEW g \in HomesOf(c), NEW h \in HomesOf(c)
                 PROVE  g = h
      BY DEF OneHome
    <2>1. PICK b \in Boards, k \in Kinds : g = <<b, k>> /\ Has(content[b][k], c)
      BY DEF HomesOf
    <2>2. PICK e \in Boards, l \in Kinds : h = <<e, l>> /\ Has(content[e][l], c)
      BY DEF HomesOf
    <2>3. QED
      BY <1>2, <2>1, <2>2 DEF OneList
  <1>3. QED
    BY <1>1, <1>2

Sound == TypeOK /\ OneList /\ \A b \in Boards : FocusOf(content[b])

LEMMA SoundIsConsistent == Sound <=> Consistent
  <1>1. TypeOK => (FocusIsActive <=> \A b \in Boards : FocusOf(content[b]))
    <2> SUFFICES ASSUME TypeOK
                 PROVE  FocusIsActive <=> \A b \in Boards : FocusOf(content[b])
      OBVIOUS
    <2>1. \A b \in Boards : content[b]["active"].focus \in Cards \cup {None}
      BY ContentImages DEF TypeOK, Image
    <2>2. QED
      BY <2>1, NoneAssumption DEF FocusIsActive, FocusOf, CardsOn
  <1>2. QED
    BY <1>1, OneListIsOneHome DEF Sound, Consistent

LEMMA SoundBoard ==
  ASSUME Sound, NEW b \in Boards
  PROVE  content[b] \in Content /\ Apart(content[b]) /\ FocusOf(content[b])
  BY DEF Sound, TypeOK, OneList, Apart, CardsOn, Kinds

-----------------------------------------------------------------------------
(* A step on one board keeps Sound if what it installs is content of a     *)
(* consistent board, and every card of it was on the board or on none.     *)
LEMMA BoardStep ==
  ASSUME Sound, NEW b \in Boards, NEW new, Become(b, new),
         new \in Content, Apart(new), FocusOf(new), TakesNone(content[b], new),
         \A c \in CardsOf(new) : c \in CardsOf(content[b]) \/ ~Present(c)
  PROVE  Sound' /\ NoneTaken
  <1>1. content \in [Boards -> Content]
    BY DEF Sound, TypeOK
  <1>2. /\ content' \in [Boards -> Content]
        /\ content'[b] = new
        /\ \A e \in Boards \ {b} : content'[e] = content[e]
    BY <1>1 DEF Become
  <1>3. \A e \in Boards : FocusOf(content'[e])
    BY <1>2, SoundBoard
  <1>4. \A k \in Kinds, c \in Cards : Has(new[k], c) => c \in CardsOf(new)
    BY DEF CardsOf, CardsOn, Kinds
  <1>5. ASSUME NEW c \in CardsOf(content[b]) PROVE \E k \in Kinds : Has(content[b][k], c)
    BY DEF CardsOf, CardsOn, Kinds
  <1>6. ASSUME NEW e \in Boards \ {b}, NEW k \in Kinds, NEW l \in Kinds, NEW c \in Cards,
               Has(new[k], c), Has(content[e][l], c)
        PROVE  FALSE
    <2>1. <<e, l>> \in HomesOf(c)
      BY <1>6 DEF HomesOf
    <2>2. c \in CardsOf(content[b])
      BY <1>4, <1>6, <2>1 DEF Present
    <2>3. PICK m \in Kinds : Has(content[b][m], c)
      BY <1>5, <2>2
    <2>4. QED
      BY <1>6, <2>3 DEF Sound, OneList
  <1>7. ASSUME NEW k \in Kinds, NEW l \in Kinds, NEW c \in Cards, Has(new[k], c), Has(new[l], c)
        PROVE  k = l
    BY <1>7 DEF Apart, CardsOn, Kinds
  <1>8. OneList'
    <2> SUFFICES ASSUME NEW d \in Boards, NEW e \in Boards, NEW k \in Kinds, NEW l \in Kinds,
                        NEW c \in Cards, Has(content'[d][k], c), Has(content'[e][l], c)
                 PROVE  d = e /\ k = l
      BY DEF OneList, Has
    <2>1. CASE d = b /\ e = b
      BY <1>2, <1>7, <2>1
    <2>2. CASE d = b /\ e # b
      BY <1>2, <1>6, <2>2
    <2>3. CASE d # b /\ e = b
      BY <1>2, <1>6, <2>3
    <2>4. CASE d # b /\ e # b
      BY <1>2, <2>4 DEF Sound, OneList
    <2>5. QED
      BY <2>1, <2>2, <2>3, <2>4
  <1>9. Sound'
    BY <1>2, <1>3, <1>8 DEF Sound, TypeOK, FocusOf, CardsOn, Has
  <1>10. NoneTaken
    BY <1>2 DEF NoneTaken, TakesNone
  <1>11. QED
    BY <1>9, <1>10

\* A card that is present nowhere is on no list.
LEMMA AbsentCard ==
  ASSUME NEW c \in Cards, ~Present(c), NEW b \in Boards, NEW k \in Kinds
  PROVE  c \notin CardsOn(content[b][k])
  <1>1. <<b, k>> \notin HomesOf(c)
    BY DEF Present
  <1>2. QED
    BY <1>1 DEF HomesOf, CardsOn

-----------------------------------------------------------------------------
(* One lemma per action.                                                   *)

LEMMA CreateCardSound ==
  ASSUME Sound, NEW b \in Boards, NEW c \in Cards, CreateCard(b, c)
  PROVE  Sound' /\ NoneTaken
  <1> DEFINE old == content[b]
             new == Created(content[b], c)
  <1>1. old \in Content /\ Apart(old) /\ FocusOf(old)
    BY SoundBoard
  <1>2. /\ new \in Content
        /\ CardsOn(new["active"]) = CardsOn(old["active"]) \cup {c}
        /\ CardsOn(new["archive"]) = CardsOn(old["archive"])
        /\ new["active"].focus = old["active"].focus
        /\ new["active"].archived = old["active"].archived
    BY <1>1, CreatedContent
  <1>3. ~Present(c) /\ c \notin CardsOn(old["archive"])
    BY AbsentCard DEF CreateCard, Kinds
  <1>4. Become(b, new)
    BY DEF CreateCard
  <1> HIDE DEF new
  <1>5. Apart(new) /\ FocusOf(new) /\ TakesNone(old, new)
    BY <1>1, <1>2, <1>3 DEF Apart, FocusOf, TakesNone, CreateCard, CanCreate
  <1>6. \A d \in CardsOf(new) : d \in CardsOf(old) \/ ~Present(d)
    BY <1>2, <1>3 DEF CardsOf
  <1>7. QED
    BY <1>2, <1>4, <1>5, <1>6, BoardStep

LEMMA EditCardSound ==
  ASSUME Sound, NEW b \in Boards, NEW c \in Cards, EditCard(b, c)
  PROVE  Sound' /\ NoneTaken
  <1> DEFINE old == content[b]
             new == Edited(content[b], c)
  <1>1. old \in Content /\ Apart(old) /\ FocusOf(old)
    BY SoundBoard
  <1>2. Has(content[b]["active"], c) /\ Become(b, new)
    BY DEF EditCard
  <1>3. /\ new \in Content
        /\ CardsOn(new["active"]) = CardsOn(old["active"])
        /\ CardsOn(new["archive"]) = CardsOn(old["archive"])
        /\ new["active"].focus = old["active"].focus
        /\ new["active"].archived = old["active"].archived
    BY <1>1, <1>2, EditedContent
  <1> HIDE DEF new
  <1>4. /\ Apart(new) /\ FocusOf(new) /\ TakesNone(old, new)
        /\ CardsOf(new) \subseteq CardsOf(old)
    BY <1>1, <1>2, <1>3 DEF Apart, FocusOf, TakesNone, CardsOf, CardsOn
  <1>5. QED
    BY <1>2, <1>3, <1>4, BoardStep

LEMMA AddAttachmentSound ==
  ASSUME Sound, NEW b \in Boards, NEW c \in Cards, NEW a \in Attachments, AddAttachment(b, c, a)
  PROVE  Sound' /\ NoneTaken
  <1> DEFINE old == content[b]
             new == Attached(content[b], c, a)
  <1>1. old \in Content /\ Apart(old) /\ FocusOf(old)
    BY SoundBoard
  <1>2. Has(content[b]["active"], c) /\ Become(b, new)
    BY DEF AddAttachment, CanAttach
  <1>3. /\ new \in Content
        /\ CardsOn(new["active"]) = CardsOn(old["active"])
        /\ CardsOn(new["archive"]) = CardsOn(old["archive"])
        /\ new["active"].focus = old["active"].focus
        /\ new["active"].archived = old["active"].archived
    BY <1>1, <1>2, AttachedContent
  <1> HIDE DEF new
  <1>4. /\ Apart(new) /\ FocusOf(new) /\ TakesNone(old, new)
        /\ CardsOf(new) \subseteq CardsOf(old)
    BY <1>1, <1>2, <1>3 DEF Apart, FocusOf, TakesNone, CardsOf, CardsOn
  <1>5. QED
    BY <1>2, <1>3, <1>4, BoardStep

LEMMA DeleteAttachmentSound ==
  ASSUME Sound, NEW b \in Boards, NEW c \in Cards, NEW a \in Attachments, DeleteAttachment(b, c, a)
  PROVE  Sound' /\ NoneTaken
  <1> DEFINE old == content[b]
             new == Detached(content[b], c, a)
  <1>1. old \in Content /\ Apart(old) /\ FocusOf(old)
    BY SoundBoard
  <1>2. Has(content[b]["active"], c) /\ Become(b, new)
    BY DEF DeleteAttachment
  <1>3. /\ new \in Content
        /\ CardsOn(new["active"]) = CardsOn(old["active"])
        /\ CardsOn(new["archive"]) = CardsOn(old["archive"])
        /\ new["active"].focus = old["active"].focus
        /\ new["active"].archived = old["active"].archived
    BY <1>1, <1>2, AttachedContent
  <1> HIDE DEF new
  <1>4. /\ Apart(new) /\ FocusOf(new) /\ TakesNone(old, new)
        /\ CardsOf(new) \subseteq CardsOf(old)
    BY <1>1, <1>2, <1>3 DEF Apart, FocusOf, TakesNone, CardsOf, CardsOn
  <1>5. QED
    BY <1>2, <1>3, <1>4, BoardStep

LEMMA CompleteCardSound ==
  ASSUME Sound, NEW b \in Boards, NEW c \in Cards, CompleteCard(b, c)
  PROVE  Sound' /\ NoneTaken
  <1> DEFINE old == content[b]
             new == Completed(content[b], c)
  <1>1. old \in Content /\ Apart(old) /\ FocusOf(old)
    BY SoundBoard
  <1>2. Has(content[b]["active"], c) /\ Become(b, new)
    BY DEF CompleteCard
  <1>3. /\ new \in Content
        /\ CardsOn(new["active"]) = CardsOn(old["active"]) \ {c}
        /\ CardsOn(new["archive"]) = CardsOn(old["archive"]) \cup {c}
        /\ new["active"].focus = IF old["active"].focus = c THEN None ELSE old["active"].focus
        /\ new["active"].archived = old["active"].archived
    BY <1>1, <1>2, CompletedContent
  <1> HIDE DEF new
  <1>4. /\ Apart(new) /\ FocusOf(new) /\ TakesNone(old, new)
        /\ CardsOf(new) \subseteq CardsOf(old)
    BY <1>1, <1>2, <1>3 DEF Apart, FocusOf, TakesNone, CardsOf, CardsOn
  <1>5. QED
    BY <1>2, <1>3, <1>4, BoardStep

LEMMA RestoreCardSound ==
  ASSUME Sound, NEW b \in Boards, NEW c \in Cards, RestoreCard(b, c)
  PROVE  Sound' /\ NoneTaken
  <1> DEFINE old == content[b]
             new == Restored(content[b], c)
  <1>1. old \in Content /\ Apart(old) /\ FocusOf(old)
    BY SoundBoard
  <1>2. Has(content[b]["archive"], c) /\ ~old["active"].archived /\ Become(b, new)
    BY DEF RestoreCard, CanRestore
  <1>3. /\ new \in Content
        /\ CardsOn(new["active"]) = CardsOn(old["active"]) \cup {c}
        /\ CardsOn(new["archive"]) = CardsOn(old["archive"]) \ {c}
        /\ new["active"].focus = old["active"].focus
        /\ new["active"].archived = old["active"].archived
    BY <1>1, <1>2, RestoredContent
  <1> HIDE DEF new
  <1>4. /\ Apart(new) /\ FocusOf(new) /\ TakesNone(old, new)
        /\ CardsOf(new) \subseteq CardsOf(old)
    BY <1>1, <1>2, <1>3 DEF Apart, FocusOf, TakesNone, CardsOf, CardsOn
  <1>5. QED
    BY <1>2, <1>3, <1>4, BoardStep

LEMMA PatchBoardSettingsSound ==
  ASSUME Sound, NEW b \in Boards, NEW focus \in Cards \cup {None}, NEW archived \in BOOLEAN,
         PatchBoardSettings(b, focus, archived)
  PROVE  Sound' /\ NoneTaken
  <1> DEFINE old == content[b]
             new == Settled(content[b], focus, archived)
  <1>1. old \in Content /\ Apart(old) /\ FocusOf(old)
    BY SoundBoard
  <1>2. CanSettle(content[b], focus, archived) /\ Become(b, new)
    BY DEF PatchBoardSettings
  <1>3. /\ new \in Content
        /\ CardsOn(new["active"]) = CardsOn(old["active"])
        /\ CardsOn(new["archive"]) = CardsOn(old["archive"])
        /\ new["active"].focus = IF archived THEN None ELSE focus
        /\ new["active"].archived = archived
    BY <1>1, <1>2, SettledContent
  <1> HIDE DEF new
  <1>4. /\ Apart(new) /\ FocusOf(new) /\ TakesNone(old, new)
        /\ CardsOf(new) \subseteq CardsOf(old)
    BY <1>1, <1>2, <1>3 DEF Apart, FocusOf, TakesNone, CardsOf, CardsOn, CanSettle
  <1>5. QED
    BY <1>2, <1>3, <1>4, BoardStep

LEMMA DeleteCardSound ==
  ASSUME Sound, NEW b \in Boards, NEW c \in Cards, DeleteCard(b, c)
  PROVE  Sound' /\ NoneTaken
  <1> DEFINE old == content[b]
  <1>1. old \in Content /\ Apart(old) /\ FocusOf(old)
    BY SoundBoard
  <1>2. CASE Become(b, Deleted(content[b], c))
    <2> DEFINE new == Deleted(content[b], c)
    <2>1. /\ new \in Content
          /\ CardsOn(new["active"]) = CardsOn(old["active"]) \ {c}
          /\ CardsOn(new["archive"]) = CardsOn(old["archive"])
          /\ new["active"].focus = IF old["active"].focus = c THEN None ELSE old["active"].focus
          /\ new["active"].archived = old["active"].archived
      BY <1>1, DeletedContent
    <2> HIDE DEF new
    <2>2. /\ Apart(new) /\ FocusOf(new) /\ TakesNone(old, new)
          /\ CardsOf(new) \subseteq CardsOf(old)
      BY <1>1, <2>1 DEF Apart, FocusOf, TakesNone, CardsOf
    <2>3. Become(b, new)
      BY <1>2 DEF new
    <2>4. QED
      BY <2>1, <2>2, <2>3, BoardStep
  <1>3. CASE Become(b, DeletedArchived(content[b], c))
    <2> DEFINE new == DeletedArchived(content[b], c)
    <2>1. /\ new \in Content
          /\ new["active"] = old["active"]
          /\ CardsOn(new["archive"]) = CardsOn(old["archive"]) \ {c}
      BY <1>1, DeletedArchivedContent
    <2> HIDE DEF new
    <2>2. /\ Apart(new) /\ FocusOf(new) /\ TakesNone(old, new)
          /\ CardsOf(new) \subseteq CardsOf(old)
      BY <1>1, <2>1 DEF Apart, FocusOf, TakesNone, CardsOf
    <2>3. Become(b, new)
      BY <1>3 DEF new
    <2>4. QED
      BY <2>1, <2>2, <2>3, BoardStep
  <1>4. QED
    BY <1>2, <1>3 DEF DeleteCard

LEMMA MoveCardToBoardSound ==
  ASSUME Sound, NEW s \in Boards, NEW d \in Boards, NEW c \in Cards, NEW kind \in Kinds,
         MoveCardToBoard(s, d, c, kind)
  PROVE  Sound' /\ NoneTaken
  <1> DEFINE card == content[s][kind].cards[c]
             out  == MovedOut(content[s], c, kind)
             in   == MovedIn(content[d], c, kind, card)
  <1>1. content \in [Boards -> Content] /\ content[s] \in Content /\ content[d] \in Content
    BY DEF Sound, TypeOK
  <1>2. card \in Card
    BY <1>1, ContentImages, CardOf
  <1>3. /\ s # d
        /\ Has(content[s][kind], c)
        /\ content' = [content EXCEPT ![s][kind] = out, ![d][kind] = in]
    BY DEF MoveCardToBoard, CanMove
  <1> HIDE DEF card
  <1>4. /\ out \in Image
        /\ CardsOn(out) = CardsOn(content[s][kind]) \ {c}
        /\ kind = "active" =>
             /\ out.archived = content[s]["active"].archived
             /\ out.focus = IF content[s]["active"].focus = c
                             THEN None ELSE content[s]["active"].focus
    BY <1>1, MovedOutImage
  <1>5. /\ in \in Image
        /\ CardsOn(in) = CardsOn(content[d][kind]) \cup {c}
        /\ kind = "active" =>
             /\ in.archived = content[d]["active"].archived
             /\ in.focus = content[d]["active"].focus
    BY <1>1, <1>2, MovedInImage
  <1> HIDE DEF out, in
  <1>6. /\ content' \in [Boards -> Content]
        /\ content'[s][kind] = out
        /\ content'[d][kind] = in
    BY <1>1, <1>3, <1>4, <1>5 DEF Content
  <1>7. \A b \in Boards, k \in Kinds :
          ~(b \in {s, d} /\ k = kind) => content'[b][k] = content[b][k]
    BY <1>1, <1>3, <1>4, <1>5 DEF Content
  <1>8. \A b \in Boards, k \in Kinds : Has(content[b][k], c) => b = s /\ k = kind
    BY <1>3 DEF Sound, OneList
  <1>9. ASSUME NEW b \in Boards, NEW k \in Kinds, c \in CardsOn(content'[b][k])
        PROVE  b = d /\ k = kind
    <2>1. CASE b = s /\ k = kind
      BY <1>4, <1>6, <1>9, <2>1
    <2>2. CASE b # d /\ ~(b = s /\ k = kind)
      <3>1. content'[b][k] = content[b][k]
        BY <1>7, <2>2
      <3>2. QED
        BY <1>8, <1>9, <2>2, <3>1 DEF CardsOn
    <2>3. CASE b = d /\ k # kind
      <3>1. content'[b][k] = content[b][k]
        BY <1>7, <2>3
      <3>2. QED
        BY <1>8, <1>9, <2>3, <3>1 DEF CardsOn
    <2>4. QED
      BY <2>1, <2>2, <2>3
  <1>10. \A b \in Boards, k \in Kinds, e \in Cards \ {c} :
           e \in CardsOn(content'[b][k]) => e \in CardsOn(content[b][k])
    BY <1>4, <1>5, <1>6, <1>7
  <1>11. OneList'
    <2> SUFFICES ASSUME NEW b \in Boards, NEW e \in Boards, NEW k \in Kinds, NEW l \in Kinds,
                        NEW x \in Cards, Has(content'[b][k], x), Has(content'[e][l], x)
                 PROVE  b = e /\ k = l
      BY DEF OneList, Has
    <2>1. x \in CardsOn(content'[b][k]) /\ x \in CardsOn(content'[e][l])
      BY DEF CardsOn
    <2>2. CASE x = c
      BY <1>9, <2>1, <2>2
    <2>3. CASE x # c
      BY <1>10, <2>1, <2>3 DEF CardsOn, Sound, OneList
    <2>4. QED
      BY <2>2, <2>3
  <1>12. ASSUME NEW b \in Boards PROVE FocusOf(content'[b])
    <2>1. FocusOf(content[b]) /\ "active" \in Kinds
      BY SoundBoard DEF Kinds
    <2>2. CASE b \in {s, d} /\ kind = "active"
      BY <1>3, <1>4, <1>5, <1>6, <2>1, <2>2 DEF FocusOf
    <2>3. CASE ~(b \in {s, d} /\ kind = "active")
      BY <1>7, <2>1, <2>3 DEF FocusOf
    <2>4. QED
      BY <2>2, <2>3
  <1>13. Sound'
    BY <1>6, <1>11, <1>12 DEF Sound, TypeOK, FocusOf, CardsOn, Has
  <1>14. ASSUME NEW b \in Boards PROVE TakesNone(content[b], content'[b])
    <2>1. \A k \in Kinds : b # d => CardsOn(content'[b][k]) \subseteq CardsOn(content[b][k])
      <3> SUFFICES ASSUME NEW k \in Kinds, b # d
                   PROVE  CardsOn(content'[b][k]) \subseteq CardsOn(content[b][k])
        OBVIOUS
      <3>1. CASE b = s /\ k = kind
        BY <1>4, <1>6, <3>1
      <3>2. CASE ~(b = s /\ k = kind)
        BY <1>7, <3>2
      <3>3. QED
        BY <3>1, <3>2
    <2>2. b = d => ~content[b]["active"].archived
      BY DEF MoveCardToBoard, CanMove
    <2>3. QED
      BY <2>1, <2>2 DEF TakesNone, Kinds
  <1>15. QED
    BY <1>13, <1>14 DEF NoneTaken

-----------------------------------------------------------------------------

LEMMA NextSound ==
  ASSUME Sound, [Next]_content
  PROVE  Sound' /\ NoneTaken
  <1>1. CASE UNCHANGED content
    BY <1>1 DEF Sound, TypeOK, OneList, FocusOf, CardsOn, Has, NoneTaken, TakesNone
  <1>2. CASE \E b \in Boards, c \in Cards :
               \/ CreateCard(b, c)
               \/ EditCard(b, c)
               \/ CompleteCard(b, c)
               \/ RestoreCard(b, c)
               \/ DeleteCard(b, c)
               \/ \E a \in Attachments : AddAttachment(b, c, a) \/ DeleteAttachment(b, c, a)
    <2>1. PICK b \in Boards, c \in Cards :
               \/ CreateCard(b, c)
               \/ EditCard(b, c)
               \/ CompleteCard(b, c)
               \/ RestoreCard(b, c)
               \/ DeleteCard(b, c)
               \/ \E a \in Attachments : AddAttachment(b, c, a) \/ DeleteAttachment(b, c, a)
      BY <1>2
    <2>2. CASE CreateCard(b, c)
      BY <2>2, CreateCardSound
    <2>3. CASE EditCard(b, c)
      BY <2>3, EditCardSound
    <2>4. CASE CompleteCard(b, c)
      BY <2>4, CompleteCardSound
    <2>5. CASE RestoreCard(b, c)
      BY <2>5, RestoreCardSound
    <2>6. CASE DeleteCard(b, c)
      BY <2>6, DeleteCardSound
    <2>7. ASSUME NEW a \in Attachments, AddAttachment(b, c, a) PROVE Sound' /\ NoneTaken
      BY <2>7, AddAttachmentSound
    <2>8. ASSUME NEW a \in Attachments, DeleteAttachment(b, c, a) PROVE Sound' /\ NoneTaken
      BY <2>8, DeleteAttachmentSound
    <2>9. QED
      BY <2>1, <2>2, <2>3, <2>4, <2>5, <2>6, <2>7, <2>8
  <1>3. ASSUME NEW b \in Boards, NEW focus \in Cards \cup {None}, NEW archived \in BOOLEAN,
               PatchBoardSettings(b, focus, archived)
        PROVE  Sound' /\ NoneTaken
    BY <1>3, PatchBoardSettingsSound
  <1>4. ASSUME NEW s \in Boards, NEW d \in Boards, NEW c \in Cards, NEW kind \in Kinds,
               MoveCardToBoard(s, d, c, kind)
        PROVE  Sound' /\ NoneTaken
    BY <1>4, MoveCardToBoardSound
  <1>5. QED
    BY <1>1, <1>2, <1>3, <1>4 DEF Next

\* The abstract store keeps every card on at most one list, and every focus on
\* an active card of a board that is not archived, whatever the boards, cards
\* and attachments are.
THEOREM StoreConsistent == Spec => []Consistent
  <1>1. Init => Sound
    BY SoundIsConsistent DEF Init
  <1>2. Sound /\ [Next]_content => Sound'
    BY NextSound
  <1>3. Sound => Consistent
    BY SoundIsConsistent
  <1>4. QED
    BY <1>1, <1>2, <1>3, PTL DEF Spec

\* An archived board takes in no card, by whatever operation.
THEOREM StoreArchivedTakesNoCard == Spec => ArchivedTakesNoCard
  <1> DEFINE Kept ==
        \A b \in Boards :
          content[b]["active"].archived /\ content'[b]["active"].archived =>
            /\ \A c \in Cards :
                 Has(content'[b]["active"], c) => Has(content[b]["active"], c)
            /\ \A c \in Cards :
                 Has(content'[b]["archive"], c) => \E k \in Kinds : Has(content[b][k], c)
  <1>1. Init => Sound
    BY SoundIsConsistent DEF Init
  <1>2. Sound /\ [Next]_content => Sound'
    BY NextSound
  <1>3. NoneTaken => Kept
    BY DEF NoneTaken, TakesNone, CardsOn, Kinds
  <1>4. Sound /\ [Next]_content => [Kept]_content
    BY <1>3, NextSound
  <1> HIDE DEF Kept
  <1>5. Spec => [][Kept]_content
    BY <1>1, <1>2, <1>4, PTL DEF Spec
  <1>6. QED
    BY <1>5 DEF Kept, ArchivedTakesNoCard
=============================================================================
