SPECIFICATION Spec
CONSTANTS
    QUARTER <- MC_QUARTER
    kernel_start <- MC_kernel_start
    kernel_end <- MC_kernel_end
    Mbds <- MC_Aligned
INVARIANT UnusableNeverHandedOut
