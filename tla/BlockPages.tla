----------------------------- MODULE BlockPages -----------------------------
(***************************************************************************)
(* The pages of the block explorer: FilteredBlockModel keeps the blocks of *)
(* a search, WindowedBlockModel (a WalletWindowedItemModel) the page of    *)
(* them the table has room for, BlockExplorerFrame the buttons.  Heights   *)
(* and sizes are quint32 in the code and numbers modulo Modulus here, so   *)
(* that a subtraction below zero wraps as it does there.                   *)
(*                                                                         *)
(* A page or a search computes what it needs, then reads blocks in the     *)
(* nested event loop of preloadBlocks (BlockExplorer.tla), then stores     *)
(* what it had computed.  `reads' are the functions in such a loop, the    *)
(* innermost last; meanwhile only a function's own button is disabled.     *)
(***************************************************************************)
EXTENDS Integers, Sequences, FiniteSets

CONSTANTS
  Modulus,   \* 2^32, and here more than twice MaxHeight + MaxView + 1
  MaxHeight, \* highest block of the bounded chain
  MaxView,   \* most rows the table has room for
  MaxReads,  \* nested reads
  Adrift     \* whether a stray window is resized too, to any size there is

VARIABLES
  tip,     \* BlockchainModel::m_lastLocalBlockIndex
  search,  \* the search in force: "all", or which one
  low,     \* FilteredBlockModel::m_beginHeight
  high,    \* FilteredBlockModel::m_endHeight
  begin,   \* WalletWindowedItemModel::m_windowBegin
  size,    \* WalletWindowedItemModel::m_windowSize
  view,    \* rows the table has room for
  prev,    \* interval on the "previous" button, or NoPage (hidden)
  next,    \* interval on the "next" button, or NoPage (hidden)
  astray,  \* the rows changed under the window and no page was stored since
  reads    \* the functions in a nested loop: what they will do (kind), where the
           \* window will begin, what their button promised, and whether that was
           \* no longer so when they began, or is no longer so (stale)

vars == <<tip, search, low, high, begin, size, view, prev, next, astray, reads>>

Invalid == Modulus - 1      \* INVALID_BLOCK_HEIGHT
NoPage == <<Invalid, Invalid>>
U(x) == x % Modulus         \* the value of a quint32 expression

\* FilteredBlockModel::filterAcceptsRow, and the first and the last of its rows
\* (data() of an invalid index is 0).
Accepted(l, lo, hi) == {h \in 0..MaxHeight: l # Invalid /\ h <= l /\ h >= lo /\ h <= hi}
Rows == Accepted(tip, low, high)
Lower(rows) == IF rows = {} THEN 0 ELSE CHOOSE h \in rows: \A g \in rows: h <= g
Upper(rows) == IF rows = {} THEN 0 ELSE CHOOSE h \in rows: \A g \in rows: g <= h

\* WalletWindowedItemModel::filterAcceptsRow.
Shown(rows, b, s) == {h \in rows: s # 0 /\ h >= b /\ h < U(b + s)}

\* Mutant: the last page begins one block too low.
NextTooLow(rows) ==
  IF Upper(rows) < U(begin + 2 * size - 1) THEN U(Upper(rows) - size)
                                           ELSE U(begin + size)

\* nextPage, prevPage and lastPage: where the window begins after it.
NextBegin(rows) ==
  IF Upper(rows) < U(begin + 2 * size - 1) THEN U(Upper(rows) - size + 1)
                                           ELSE U(begin + size)
PrevBegin(rows) ==
  IF U(Lower(rows) + size) > begin THEN Lower(rows) ELSE U(begin - size)
LastBegin(rows, s) ==
  IF Upper(rows) < U(Lower(rows) + s - 1) THEN Lower(rows)
                                          ELSE U(Upper(rows) - s + 1)

\* prevPageInterval and nextPageInterval: what the buttons promise.
PrevInterval(rows, b, s) ==
  LET p == IF U(Lower(rows) + s) > b THEN Lower(rows) ELSE U(b - s)
  IN  IF b = Lower(rows) THEN NoPage ELSE <<p, U(p + s - 1)>>
NextInterval(rows, b, s) ==
  LET e == U(b + 2 * s - 1)
  IN  IF Upper(rows) < U(b + s) THEN NoPage
      ELSE <<U(b + s), IF e < Upper(rows) THEN e ELSE Upper(rows)>>

\* BlockExplorerFrame::updateButtonsText, after the step.
UpdateButtonsText ==
  LET rows == Accepted(tip', low', high')
  IN  /\ prev' = PrevInterval(rows, begin', size')
      /\ next' = NextInterval(rows, begin', size')

\* Mutant: a growing window is not stopped at the first block.
ResizedBelow(rows, n) ==
  IF n <= size THEN [size |-> n, begin |-> U(begin + size - n)]
  ELSE LET b == U(begin - (n - size))
           e == IF Upper(rows) < U(b + n - 1) THEN Upper(rows) ELSE U(b + n - 1)
       IN  [size |-> U(e - b + 1), begin |-> b]

\* WindowedBlockModel::setWindowSize(n): the window and its new beginning.
Resized(rows, n) ==
  IF n < size THEN [size |-> n, begin |-> U(begin + size - n)]
  ELSE IF n = size THEN [size |-> size, begin |-> begin]
  ELSE LET b == IF U(Lower(rows) + n - size) > begin THEN Lower(rows)
                                                     ELSE U(begin - (n - size))
           e == IF Upper(rows) < U(b + n - 1) THEN Upper(rows) ELSE U(b + n - 1)
       IN  [size |-> U(e - b + 1), begin |-> b]

Read(kind, b, promise, old) ==
  [kind |-> kind, begin |-> b, promise |-> promise, stale |-> old]
Room == Len(reads) < MaxReads
Reading(kinds) == \E i \in DOMAIN reads: reads[i].kind \in kinds
Innermost == reads[Len(reads)]
Outer == SubSeq(reads, 1, Len(reads) - 1)

\* What was computed from other rows or from another window.
Stale(rs) == [i \in DOMAIN rs |-> [rs[i] EXCEPT !.promise = NoPage, !.stale = TRUE]]

\* lastPage of the last rows begins, on top of the reads rs; it does nothing
\* while the window has no rows.
AskLastPage(kind, rows, rs) ==
  reads' = IF size = 0 THEN rs
           ELSE Append(rs, Read(kind, LastBegin(rows, size), NoPage, FALSE))

\* The filter lets other rows through: the window and what the reads rs will do
\* were made for the old ones.
OtherRows == Accepted(tip', low', high') # Rows
Refiltered(rs) == IF OtherRows THEN Stale(rs) ELSE rs
WindowRefiltered == astray' = (astray \/ (size > 0 /\ OtherRows))

\* The page of f is stored; it brings a stray window back if it shows blocks.
Turn(f) ==
  /\ begin' = f.begin
  /\ astray' = ((astray \/ f.stale) /\
                  (size \notin 1..view \/ Shown(Rows, f.begin, size) = {}))

Init ==
  /\ tip = Invalid /\ search = "all" /\ low = 0 /\ high = Invalid
  /\ begin = 0 /\ size = 0 /\ view = 0 /\ prev = NoPage /\ next = NoPage
  /\ astray = FALSE /\ reads = <<>>

-----------------------------------------------------------------------------
\* nextPage and prevPage of the frame and of the window, up to the loop; the
\* button is disabled until the function is back.
NextPage ==
  /\ next # NoPage /\ ~Reading({"next"}) /\ Room
  /\ reads' = Append(reads, Read("next", NextBegin(Rows), next,
                      astray \/ next # NextInterval(Rows, begin, size)))
  /\ UNCHANGED <<tip, search, low, high, begin, size, view, prev, next, astray>>

PrevPage ==
  /\ prev # NoPage /\ ~Reading({"prev"}) /\ Room
  /\ reads' = Append(reads, Read("prev", PrevBegin(Rows), prev,
                      astray \/ prev # PrevInterval(Rows, begin, size)))
  /\ UNCHANGED <<tip, search, low, high, begin, size, view, prev, next, astray>>

\* The third button; showing the frame goes to the last page too.
LastPage ==
  /\ Room
  /\ AskLastPage("last", Rows, reads)
  /\ UNCHANGED <<tip, search, low, high, begin, size, view, astray>>
  /\ IF size = 0 THEN UpdateButtonsText ELSE UNCHANGED <<prev, next>>

\* The loop of a page is over: setWindowBegin, then updateButtonsText.
PageTurned ==
  /\ reads # <<>> /\ Innermost.kind \in {"next", "prev", "last", "applied"}
  /\ Turn(Innermost)
  /\ reads' = Outer
  /\ UNCHANGED <<tip, search, low, high, size, view>>
  /\ UpdateButtonsText

\* WalletTableView::updateRowCount, after the table or the style was resized.
Resize == \E n \in 0..MaxView:
  LET w == Resized(Rows, n)
  IN  /\ n # view /\ (astray => Adrift)
      /\ view' = n /\ size' = w.size /\ begin' = w.begin
      /\ astray' = (astray \/ w.begin > Upper(Rows))
      /\ reads' = Stale(reads)
      /\ UNCHANGED <<tip, search, low, high>>
      /\ UpdateButtonsText

\* The rows that went or came are told to the buttons; then there is lastPage.
FilterSet(rs) ==
  /\ UNCHANGED <<tip, begin, size, view>>
  /\ WindowRefiltered
  /\ AskLastPage("applied", Accepted(tip', low', high'), Refiltered(rs))
  /\ IF size = 0 \/ OtherRows THEN UpdateButtonsText ELSE UNCHANGED <<prev, next>>

\* applyFilter, whose button is disabled meanwhile: an unchanged search is not
\* made again, "all" needs no read.
ApplyFilter == \E s \in {"all", "height", "period"}:
  /\ ~Reading({"height", "period", "applied"}) /\ Room
  /\ search' = s
  /\ \/ /\ s = search /\ UNCHANGED <<low, high>>
        /\ FilterSet(reads)
     \/ /\ s = "all" /\ search # "all" /\ low' = 0 /\ high' = Invalid
        /\ FilterSet(reads)
     \/ /\ s # "all"
        /\ reads' = Append(reads, Read(s, 0, NoPage, FALSE))
        /\ UNCHANGED <<tip, low, high, begin, size, view, prev, next, astray>>

\* FilteredBlockModel::setFilter after its loop, with the members as they are
\* now: a search that fails shows no block (one that is no height at once); a
\* height found is forgotten if the filter was reset meanwhile; a search by time
\* shows the range reported, which is empty (Invalid, 0) when no block matched.
SearchDone ==
  /\ reads # <<>> /\ Innermost.kind \in {"height", "period"}
  /\ \/ low' = Invalid /\ high' = Invalid
     \/ /\ Innermost.kind = "height" /\ tip # Invalid
        /\ IF search = "all" THEN low' = 0 /\ high' = Invalid
                             ELSE low' \in 0..tip /\ high' = low'
     \/ Innermost.kind = "period" /\ low' = Invalid /\ high' = 0
     \/ Innermost.kind = "period" /\ tip # Invalid
        /\ low' \in 0..tip /\ high' \in low'..tip
  /\ UNCHANGED search
  /\ FilterSet(Outer)

\* The model is reset, which the buttons are not told, and the window's lastPage
\* runs before the frame's; no button is disabled.
ResetFilter ==
  /\ Room
  /\ search' = "all" /\ low' = 0 /\ high' = Invalid
  /\ UNCHANGED <<tip, begin, size, view>>
  /\ WindowRefiltered
  /\ AskLastPage("reset", Accepted(tip, 0, Invalid), Refiltered(reads))
  /\ IF size = 0 THEN UpdateButtonsText ELSE UNCHANGED <<prev, next>>

ResetTurned ==
  /\ reads # <<>> /\ Innermost.kind = "reset"
  /\ Turn(Innermost)
  /\ AskLastPage("last", Rows, Outer)
  /\ UNCHANGED <<tip, search, low, high, size, view>>
  /\ IF size = 0 THEN UpdateButtonsText ELSE UNCHANGED <<prev, next>>

\* BlockchainModel adds rows; those the filter lets through reach blocksAdded.
BlocksAdded == \E l \in 0..MaxHeight:
  /\ tip # Invalid /\ l > tip
  /\ tip' = l
  /\ reads' = IF Rows = {} THEN Stale(reads) ELSE reads
  /\ UNCHANGED <<search, low, high, begin, size, view, astray>>
  /\ IF OtherRows THEN UpdateButtonsText ELSE UNCHANGED <<prev, next>>

\* Another node: BlockchainModel is reset to its chain, then the frame's
\* cryptoNoteAdapterInitCompleted asks for the view's rows again.
NodeChanged == \E l \in 0..MaxHeight \cup {Invalid}:
  LET rows == Accepted(l, low, high)
      w == Resized(rows, view)
  IN  /\ astray => Adrift
      /\ tip' = l
      /\ size' = w.size /\ begin' = w.begin
      /\ astray' = (astray \/ <<low, high>> # <<0, Invalid>> \/ begin > Upper(rows))
      /\ reads' = Stale(reads)
      /\ UNCHANGED <<search, low, high, view>>
      /\ UpdateButtonsText

Next == \/ NextPage \/ PrevPage \/ LastPage \/ PageTurned \/ Resize
        \/ ApplyFilter \/ SearchDone \/ ResetFilter \/ ResetTurned
        \/ BlocksAdded \/ NodeChanged

Spec == Init /\ [][Next]_vars

-----------------------------------------------------------------------------
(* Properties.                                                              *)

Pair == (0..Invalid) \X (0..Invalid)
Reads == [kind: {"next", "prev", "last", "applied", "height", "period", "reset"},
          begin: 0..Invalid, promise: Pair, stale: BOOLEAN]
TypeOK ==
  /\ search \in {"all", "height", "period"} /\ prev \in Pair /\ next \in Pair
  /\ tip \in 0..MaxHeight \cup {Invalid} /\ low \in 0..Invalid
  /\ high \in 0..Invalid /\ begin \in 0..Invalid /\ size \in 0..Invalid
  /\ view \in 0..MaxView /\ astray \in BOOLEAN /\ reads \in Seq(Reads)

\* The window is never larger than the table, nor does its end wrap, unless the
\* rows under it changed and no page was stored since, or the last one stored
\* was computed before they did: setWindowSize subtracts the window's beginning
\* from the last row without comparing them.
WindowFits == ~astray => size <= view /\ begin + size < Modulus

\* Whatever pages and filters are asked for inside the loop of another, a page
\* stored for the rows and the window of now shows blocks whenever there are any.
PageNotBlank == ~astray /\ size > 0 /\ Rows # {} => Shown(Rows, begin, size) # {}

\* Pages turned, blocks added and searches that find the same in the loop of
\* "next" change nothing of what its button promised: with the rows' filter and
\* the window's size as they were, the page it leads to holds every block promised.
NextKeepsPromise ==
  [][PageTurned => LET f == Innermost IN
       f.kind = "next" /\ ~f.stale /\ size > 0 =>
       (f.promise[1]..f.promise[2]) \cap Rows \subseteq Shown(Rows, begin', size')]_vars

\* Likewise "previous" leads to a page that begins with the block promised.
PrevKeepsPromise ==
  [][PageTurned => LET f == Innermost IN
       f.kind = "prev" /\ ~f.stale => begin' = f.promise[1]]_vars
=============================================================================
