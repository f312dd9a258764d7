--------------------------- MODULE MCChannelTask ----------------------------
(* The numbers of channels of the configurations, for batches of three.    *)
EXTENDS ChannelProps

\* Less than a batch, full batches, a last batch that reaches
\* into the capacity of the slice (5), and one that reaches beyond it (4).
Sizes == {2, 3, 4, 5, 6}

Uneven == {5}

\* More online subscribers than there are users, or no subscribers at all.
Subscribers == {-1, 3}
=============================================================================
