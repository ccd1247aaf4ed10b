------------------------------ MODULE Queries ------------------------------
(***************************************************************************)
(* The RPC queries for blocks, headers, commits, results, transactions and *)
(* the node's status (pkg/rpc/core), asked while the node of module Node   *)
(* starts, runs and stops.                                                 *)
(*                                                                         *)
(* A query first resolves its parameters to the heights it wants, from the *)
(* block manager's height or from the index, and then reads what is stored *)
(* for each.  Blocks are executed, stored and indexed between the two.     *)
(*                                                                         *)
(* The node has executed all its blocks itself.  A node that the migration *)
(* command has set up is not modelled here: for the CometBFT blocks it     *)
(* lacks what the queries read (module MigrateCmd).                        *)
(***************************************************************************)
EXTENDS Node, Integers, SequencesExt

CONSTANTS Nil,             \* a parameter that is not given
          PerPages,        \* what clients ask for as per_page
          defaultPerPage,  \* 30 in the code
          maxPerPage,      \* 100 in the code
          limit            \* of BlockchainInfo, 20 in the code

ASSUME QueriesAssumption ==
    /\ PerPages \subseteq Int \cup {Nil} /\ Nil \notin Int
    /\ maxPerPage \in Nat /\ defaultPerPage \in 1 .. maxPerPage
    /\ limit \in Nat \ {0}

VARIABLES indexed,   \* heights in the block and transaction index (on disk)
          indexPos,  \* publications the indexer service has taken
          call,      \* the query under way
          denied     \* the stored heights that the last query failed to get

queryVars == <<indexed, indexPos, call, denied>>
allVars == <<nodeVars, queryVars>>

NoCall == [reads |-> "none", due |-> {}]

QInit == /\ NodeInit
         /\ indexed = {}
         /\ indexPos = 0
         /\ call = NoCall
         /\ denied = {}

-----------------------------------------------------------------------------
\* The indexer service gets each publication from the bus and writes it to
\* its index.  What it has not got when it stops is never indexed.
Index ==
    /\ "indexer" \in services
    /\ indexPos < Len(published)
    /\ indexPos' = indexPos + 1
    /\ indexed' = indexed \cup {published[indexPos + 1].height}
    /\ denied' = {}
    /\ UNCHANGED <<nodeVars, call>>

-----------------------------------------------------------------------------
\* Pagination.
validatePerPage(perPage) ==
    CASE perPage = Nil -> defaultPerPage
      [] perPage # Nil /\ perPage < 1 -> defaultPerPage
      [] perPage # Nil /\ perPage > maxPerPage -> maxPerPage
      [] OTHER -> perPage

\* Go's division rounds towards zero.
Quo(a, b) == IF a < 0 THEN -((-a) \div b) ELSE a \div b

\* The number of pages, at least one.
Pages(perPage, totalCount) ==
    LET pages == Quo(totalCount - 1, perPage) + 1
    IN  IF pages = 0 THEN 1 ELSE pages

PageValid(page, perPage, totalCount) ==
    page # Nil => page > 0 /\ page <= Pages(perPage, totalCount)

\* A slip: pages are counted from zero.
validateSkipCountFromZero(page, perPage) == page * perPage

validateSkipCount(page, perPage) ==
    LET skipCount == (page - 1) * perPage
    IN  IF skipCount < 0 THEN 0 ELSE skipCount

\* The results of a valid page.
Page(results, pageArg, perPageArg) ==
    LET perPage == validatePerPage(perPageArg)
        page == IF pageArg = Nil THEN 1 ELSE pageArg
        skipCount == validateSkipCount(page, perPage)
        pageSize == Min({perPage, Len(results) - skipCount})
    IN  SubSeq(results, skipCount + 1, skipCount + pageSize)

\* sort.Slice on the heights that the index has found.
Sorted(S, orderBy) ==
    LET Before(g, h) == IF orderBy = "desc" THEN g > h ELSE g < h
    IN  [i \in 1 .. Cardinality(S) |->
           CHOOSE h \in S : Cardinality({g \in S : Before(g, h)}) = i - 1]

-----------------------------------------------------------------------------
normalizeHeight(height) ==
    IF height = Nil THEN rollkitHeight
    ELSE IF height < 0 THEN rollkitHeight ELSE height

\* A slip: the lower bound leaves room for one block more.
filterMinMaxOneMore(base, height, mini, maxi) ==
    LET maxi1 == Min({height, IF maxi = 0 THEN height ELSE maxi})
        mini1 == Max({base, IF mini = 0 THEN 1 ELSE mini, maxi1 - limit})
    IN  [err |-> mini < 0 \/ maxi < 0 \/ mini1 > maxi1,
         mini |-> mini1, maxi |-> maxi1]

filterMinMax(base, height, mini, maxi) ==
    LET maxi1 == Min({height, IF maxi = 0 THEN height ELSE maxi})
        mini1 == Max({base, IF mini = 0 THEN 1 ELSE mini, maxi1 - limit + 1})
    IN  [err |-> mini < 0 \/ maxi < 0 \/ mini1 > maxi1,
         mini |-> mini1, maxi |-> maxi1]

Serving == "rpc" \in services

\* A query that is going to read something of these heights.  Those stored
\* by now are due to it; of the others it may still find some.
Ask(reads, want) ==
    /\ call' = [reads |-> reads, due |-> want \cap (1 .. rollkitHeight)]
    /\ denied' = {}
    /\ UNCHANGED <<nodeVars, indexed, indexPos>>

\* Block, Header, Commit and BlockResults, by height.
Block(height) == Ask("meta", {normalizeHeight(height)})
Header(height) == Ask("meta", {normalizeHeight(height)})
BlockCommit(height) == Ask("commit", {normalizeHeight(height)})
BlockResults(height) == Ask("results", {normalizeHeight(height)})

\* Block with height -1: the last height included in the DA layer, an error
\* before there is one.
BlockFinal == daHeight > 0 /\ Ask("meta", {daHeight})

\* A block has two hashes: the one of its ABCI header, which the block ids of
\* the answers give (blocks.go:98, 182, convert.go:69), and the one of its
\* rollkit header.
Hashes == [header : {"abci", "rollkit"}, height : Heights]

\* The store knows blocks by the hash of the rollkit header only.
FoundByHash(hash) == {h \in 1 .. rollkitHeight :
                        hash = [header |-> "rollkit", height |-> h]}

\* By hash: with a hash taken from an answer nothing is found, and the query
\* fails.
BlockByHash(hash) == Ask("meta", FoundByHash(hash))
HeaderByHash(hash) == Ask("meta", FoundByHash(hash))

\* The heights from maxi down to mini.
InfoHeights(r) == [i \in 1 .. r.maxi - r.mini + 1 |-> r.maxi - i + 1]

BlockchainInfo(mini, maxi) ==
    LET r == filterMinMax(0, rollkitHeight, mini, maxi)
    IN  ~ r.err /\ Ask("meta", Range(InfoHeights(r)))

\* A page of what the index has: its blocks, or (TxSearch with proofs) the
\* blocks of its transactions.
Search(reads, page, perPage, orderBy) ==
    LET results == Sorted(indexed, orderBy) IN
    /\ PageValid(page, validatePerPage(perPage), Len(results))
    /\ Ask(reads, Range(Page(results, page, perPage)))

BlockSearch(page, perPage, orderBy) == Search("meta", page, perPage, orderBy)
TxSearch(page, perPage, orderBy) == Search("block", page, perPage, orderBy)

\* Tx with a proof: the index knows the transaction, its block is read.
Tx(h) == h \in indexed /\ Ask("block", {h})

\* Status: the latest header, if there is one, and the initial one.
Status == Ask("block", {rollkitHeight, 1})

-----------------------------------------------------------------------------
\* RollkitStore.GetBlockData and GetHeader.
HasBlock(h) == h \in 1 .. rollkitHeight

\* getBlockMeta gives a block, and not nil.
HasMeta(h) == HasBlock(h) /\ HasLastCommit(h)

\* A slip: the commit of a block is taken from the block after it.
ReadableFromNext(reads, h) ==
    CASE reads = "meta" -> HasMeta(h)
      [] reads = "commit" -> HasMeta(h) /\ HasBlock(h + 1)
      [] reads = "results" -> responses[h] # "none"
      [] OTHER -> HasBlock(h)

\* What the query reads for height h is there.
Readable(reads, h) ==
    CASE reads = "meta" -> HasMeta(h)
      [] reads = "commit" -> HasMeta(h) /\ HasLastCommit(h + 1)
      [] reads = "results" -> responses[h] # "none"
      [] OTHER -> HasBlock(h)

\* The answer.  For what is missing Block, Commit and BlockchainInfo have a
\* nil, the other queries fail as a whole.
Answer ==
    /\ Serving
    /\ call # NoCall
    /\ denied' = {h \in call.due : ~ Readable(call.reads, h)}
    /\ call' = NoCall
    /\ UNCHANGED <<nodeVars, indexed, indexPos>>

HeightArgs == (0 .. MaxHeight) \cup {Nil, -1}
PageArgs == (0 .. MaxHeight + 1) \cup {Nil}

Query ==
    /\ Serving
    /\ call = NoCall
    /\ \/ \E height \in HeightArgs :
            \/ height # -1 /\ Block(height)
            \/ Header(height) \/ BlockCommit(height) \/ BlockResults(height)
       \/ BlockFinal
       \/ \E hash \in Hashes : BlockByHash(hash) \/ HeaderByHash(hash)
       \/ \E h \in Heights : Tx(h)
       \/ \E mini, maxi \in -1 .. MaxHeight : BlockchainInfo(mini, maxi)
       \/ \E page \in PageArgs, perPage \in PerPages,
             orderBy \in {"asc", "desc"} :
            \/ BlockSearch(page, perPage, orderBy)
            \/ TxSearch(page, perPage, orderBy)
       \/ Status

\* The node's own steps.  When its process ends so do the RPC calls, and the
\* indexer has taken all it ever will of what has been published.
Alongside(A) ==
    /\ A
    /\ IF services' = {}
       THEN call' = NoCall /\ indexPos' = Len(published)
       ELSE UNCHANGED <<call, indexPos>>
    /\ denied' = {}
    /\ UNCHANGED indexed

QNext == Alongside(NodeNext) \/ Index \/ Query \/ Answer

\* StartHandler's goroutine goes on, and the node's run loop returns once its
\* context is cancelled or a loop has failed.
QSpec == QInit /\ [][QNext]_allVars
               /\ WF_allVars(Alongside(Main)) /\ WF_allVars(Alongside(NodeReturns))

-----------------------------------------------------------------------------
\* On a node that has executed its own blocks, a block that a query has
\* resolved its parameters to is there for it: no answer has an error or a nil
\* on its account, whatever has failed or crashed before, and however far
\* execution gets meanwhile.  (A hash that was served resolves to no block.)
ServedIfStored == denied = {}

\* BlockchainInfo answers with the newest `limit` blocks of the range asked
\* for (0 for an open end), newest first, and refuses only an empty range.
InfoIsNewest ==
    \A mini, maxi \in -1 .. MaxHeight :
      LET r == filterMinMax(0, rollkitHeight, mini, maxi)
          range == {h \in 1 .. rollkitHeight :
                      mini <= h /\ (maxi # 0 => h <= maxi)}
      IN  /\ r.err <=> mini < 0 \/ maxi < 0 \/ range = {}
          /\ ~ r.err => InfoHeights(r) =
                           SubSeq(Sorted(range, "desc"), 1,
                                  Min({limit, Cardinality(range)}))

\* The pages of a search, put together, are its results: none is lost or
\* served twice at a page's border, whatever per_page a client asks for.
PagesPartition ==
    \A perPage \in PerPages, orderBy \in {"asc", "desc"} :
      LET results == Sorted(indexed, orderBy)
          n == Pages(validatePerPage(perPage), Len(results))
      IN  FlattenSeq([p \in 1 .. n |-> Page(results, p, perPage)]) = results
=============================================================================
