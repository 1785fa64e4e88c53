---------------------------- MODULE MCSwapchain ----------------------------
(* One swapchain with three images and one static one with a single image.   *)
EXTENDS Swapchain
CONSTANTS colour, still
TheSwapchains == {colour, still}
TheStatic == {still}

\* Bound: with both swapchains two frames are submitted, with the first alone
\* MaxFrame.
FewFrames == life[still] # "none" => Cardinality(Pipeline!Known \ {0}) <= 2
=============================================================================
