----------------------------- MODULE RowAddress -----------------------------
(***************************************************************************)
(* GenerateNandRowAddr: where on its die the firmware looks for a page.    *)
(* The firmware uses the flash in SLC mode, in which a block has only the  *)
(* rows 0, 1, 3, 5, ... (the LSB pages) to hold its pages, and it counts   *)
(* PAGES_PER_MLC_BLOCK rows to a block.                                    *)
(***************************************************************************)
EXTENDS Integers

CONSTANT PAGES_PER_MLC_BLOCK   \* rows of a block

ASSUME RowsAssumption == PAGES_PER_MLC_BLOCK \in Nat \ {0}

\* Faulty variant: the LSB pages are taken for the even rows.
Vpage2PlsbPageTranslation_Even(pageNo) == 2 * pageNo

\* Rows of a block: its LSB pages.
Vpage2PlsbPageTranslation(pageNo) == IF pageNo > 0 THEN 2 * pageNo - 1 ELSE 0

\* The row of page pageNo of a block.
GenerateNandRowAddr(blockNo, pageNo) ==
  blockNo * PAGES_PER_MLC_BLOCK + Vpage2PlsbPageTranslation(pageNo)

\* The block a row is in, as the device reads the address, and as ExecuteNandReq
\* does when it records a failure.
BlockOfRow(rowAddr) == rowAddr \div PAGES_PER_MLC_BLOCK

\* The pages of a block of "pages" pages have rows in the block itself.  So it
\* is with 128 pages to a block of 256 rows; the configuration of the
\* repository has 256 pages.
RowsFit(pages) == Vpage2PlsbPageTranslation(pages - 1) < PAGES_PER_MLC_BLOCK
=============================================================================
