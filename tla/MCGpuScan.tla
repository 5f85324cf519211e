------------------------------ MODULE MCGpuScan ------------------------------
(* Small chunks for the GPU scanners: none, fewer and more matches than the *)
(* buffer holds, and lengths around the largest u32.                        *)
EXTENDS GpuScan

SmallChunks == {<<>>, <<1, 1, 1, 1, 1>>, <<1, 1, 0, 1, 1, 0, 1, 1>>,
                <<0, 0, 0, 0, 0, 1, 1, 1, 1>>, <<1, 1, 1, 0, 0, 0, 0, 0, 1, 1>>}
=============================================================================
